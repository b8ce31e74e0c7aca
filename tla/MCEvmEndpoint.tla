--------------------------- MODULE MCEvmEndpoint ---------------------------
(* Instances of EvmEndpoint for TLC. *)
EXTENDS EvmEndpoint, TLC

CONSTANTS i1, foreign

NoMessages == {}

\* A message for this chain and the integrator, one for another chain, one with
\* source chain 0 and one for an address that is no EVM address.
SomeMessages ==
  {[src_chain |-> 2, dst_chain |-> ourChain, dst_addr |-> i1],
   [src_chain |-> 2, dst_chain |-> 2, dst_addr |-> i1],
   [src_chain |-> 0, dst_chain |-> ourChain, dst_addr |-> i1],
   [src_chain |-> 2, dst_chain |-> ourChain, dst_addr |-> foreign]}

\* Users and adapters are not told apart, but for the zero address.
AccountSymmetry == Permutations(Users \ {ZeroAddress})
                     \cup Permutations(Adapters \ {ZeroAddress})

=============================================================================
