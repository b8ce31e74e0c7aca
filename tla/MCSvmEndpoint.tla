--------------------------- MODULE MCSvmEndpoint ---------------------------
(* Instances of SvmEndpoint, with its events, for TLC. *)
EXTENDS SvmEvents, TLC

CONSTANT i1

NoMessages == {}

\* A message for this chain, one for another chain (which exec_message accepts
\* and attest_message refuses) and one with the invalid source chain 0.
SomeMessages ==
  {[src_chain |-> 2, dst_chain |-> CHAIN_ID, dst_addr |-> i1],
   [src_chain |-> 2, dst_chain |-> 2, dst_addr |-> i1],
   [src_chain |-> 0, dst_chain |-> CHAIN_ID, dst_addr |-> i1]}

\* Neither users nor adapters are told apart.
AccountSymmetry == Permutations(Users) \cup Permutations(Adapters)

=============================================================================
