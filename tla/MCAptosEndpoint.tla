-------------------------- MODULE MCAptosEndpoint --------------------------
(* Instances of AptosEndpoint for TLC. *)
EXTENDS AptosEndpoint

CONSTANT i1

OneMessage == {[src_chain |-> 1, dst_chain |-> 1, dst_addr |-> i1]}

=============================================================================
