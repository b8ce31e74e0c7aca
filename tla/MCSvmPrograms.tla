--------------------------- MODULE MCSvmPrograms ---------------------------
(* Instances of SvmPrograms for TLC. *)
EXTENDS SvmPrograms, TLC

CONSTANTS i1, i2

\* The same message, for two integrators.
OneMessageEach ==
  {[src_chain |-> 1, dst_chain |-> CHAIN_ID, dst_addr |-> i] : i \in {i1, i2}}

\* Neither the programs nor the messages above are told apart.
ProgramSymmetry == Permutations(Integrators) \cup Permutations(Adapters)

=============================================================================
