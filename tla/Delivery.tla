------------------------------ MODULE Delivery ------------------------------
(***************************************************************************)
(* What every endpoint implementation promises about an incoming message:  *)
(* attestations accumulate and are never lost, before and after delivery;  *)
(* the message is delivered at most once; and an ordinary receive (unlike  *)
(* a forced execution) only happens once somebody has attested.            *)
(***************************************************************************)
EXTENDS Sequences

CONSTANTS
  Messages,
  Voters      \* the positions an attestation can take

VARIABLES
  votes,      \* the voters that attested to each message
  log         \* how each message was delivered: <<>>, <<"recv">>, <<"exec">>

vars == <<votes, log>>

Init ==
  /\ votes = [m \in Messages |-> {}]
  /\ log = [m \in Messages |-> <<>>]

Attest(m, v) ==
  /\ v \notin votes[m]
  /\ votes' = [votes EXCEPT ![m] = @ \cup {v}]
  /\ UNCHANGED log

Receive(m) ==
  /\ log[m] = <<>>
  /\ votes[m] # {}
  /\ log' = [log EXCEPT ![m] = <<"recv">>]
  /\ UNCHANGED votes

Execute(m) ==
  /\ log[m] = <<>>
  /\ log' = [log EXCEPT ![m] = <<"exec">>]
  /\ UNCHANGED votes

Next == \E m \in Messages :
          \/ \E v \in Voters : Attest(m, v)
          \/ Receive(m)
          \/ Execute(m)

Spec == Init /\ [][Next]_vars
=============================================================================
