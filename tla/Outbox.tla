------------------------------- MODULE Outbox -------------------------------
(***************************************************************************)
(* What an endpoint whose adapters pull messages promises about outgoing   *)
(* messages: an integrator's messages are numbered without gaps, each is   *)
(* handed once to every carrier chosen when it was sent, and to nobody     *)
(* else, and what all have taken never comes back.  The message with       *)
(* sequence n is entry n + 1 of its sender's queue: the carriers that have *)
(* not taken it yet.                                                       *)
(***************************************************************************)
EXTENDS Naturals, Sequences

CONSTANTS
  Senders,
  Carriers,      \* the positions a carrier can have
  LastSequence   \* sequences stay below it

VARIABLE queue

Init == queue = [i \in Senders |-> <<>>]

Send(i) ==
  /\ Len(queue[i]) < LastSequence
  /\ \E chosen \in (SUBSET Carriers) \ {{}} :
       queue' = [queue EXCEPT ![i] = Append(@, chosen)]

Take(i, n, v) ==
  /\ n \in 1 .. Len(queue[i])
  /\ v \in queue[i][n]
  /\ queue' = [queue EXCEPT ![i][n] = @ \ {v}]

Next ==
  \E i \in Senders :
    \/ Send(i)
    \/ \E n \in 1 .. LastSequence, v \in Carriers : Take(i, n, v)

Spec == Init /\ [][Next]_queue

\* Every carrier takes, in the end, every message that waits for it.
FairSpec ==
  /\ Spec
  /\ \A i \in Senders, n \in 1 .. LastSequence, v \in Carriers :
       WF_queue(Take(i, n, v))
=============================================================================
