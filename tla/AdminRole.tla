----------------------------- MODULE AdminRole -----------------------------
(***************************************************************************)
(* What every endpoint implementation promises about the admin of an       *)
(* integrator: one admin at a time, hand over in one step or in two,       *)
(* and a discarded admin never comes back.  `settings` is whatever the     *)
(* admin controls (the adapters and which are enabled); it is opaque here. *)
(***************************************************************************)
CONSTANTS
  Integrators,
  Users,
  FrozenDuringTransfer   \* are the settings locked while a transfer is open?

VARIABLES role, settings

vars == <<role, settings>>

Unregistered == [phase |-> "unregistered"]

Owned(u) == [phase |-> "owned", admin |-> u]

Transferring(u, v) == [phase |-> "transferring", admin |-> u, pending |-> v]

Discarded == [phase |-> "discarded"]

Init == role = [i \in Integrators |-> Unregistered]

Become(i, r) == role' = [role EXCEPT ![i] = r] /\ UNCHANGED settings

Register(i) == role[i] = Unregistered /\ \E u \in Users : Become(i, Owned(u))

Update(i) == role[i].phase = "owned" /\ \E u \in Users : Become(i, Owned(u))

Transfer(i) ==
  /\ role[i].phase = "owned"
  /\ \E v \in Users : Become(i, Transferring(role[i].admin, v))

Claim(i) ==
  /\ role[i].phase = "transferring"
  /\ \E u \in {role[i].admin, role[i].pending} : Become(i, Owned(u))

Discard(i) == role[i].phase = "owned" /\ Become(i, Discarded)

\* The admin changes what it controls, for its own integrator only.
Configure(i) ==
  /\ \/ role[i].phase = "owned"
     \/ role[i].phase = "transferring" /\ ~FrozenDuringTransfer
  /\ settings' = [settings EXCEPT ![i] = settings'[i]]
  /\ UNCHANGED role

Next == \E i \in Integrators :
          \/ Register(i) \/ Update(i) \/ Transfer(i) \/ Claim(i)
          \/ Discard(i) \/ Configure(i)

Spec == Init /\ [][Next]_vars
=============================================================================
