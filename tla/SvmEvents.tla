----------------------------- MODULE SvmEvents -----------------------------
(***************************************************************************)
(* The events of the SVM endpoint and a reader who sees nothing else.      *)
(* Every instruction emits one event with emit_cpi!, in the same           *)
(* transaction as its effect; an off-chain reader keeps a view of the      *)
(* accounts by applying the events in order.  The fields of an event are   *)
(* what the handler passes; message fields that only repeat the message    *)
(* are the message itself.                                                 *)
(***************************************************************************)
EXTENDS SvmEndpoint

VARIABLE
  view   \* external: what the reader has worked out

eventVars == <<vars, view>>

\* The reader tells "nothing heard of it yet" from every bitmap.
ASSUME EventsAssumption == \A bitmap \in SUBSET Index : bitmap # None

\* The reader knows the adapter at an index only from the AdapterAdded events.
IndexIn(adapters, a) ==
  IF \E n \in 1 .. Len(adapters) : adapters[n] = a
  THEN (CHOOSE n \in 1 .. Len(adapters) : adapters[n] = a) - 1
  ELSE None

ViewInit ==
  view = [admin    |-> [i \in Integrators |-> None],
          pending  |-> [i \in Integrators |-> None],
          known    |-> {},
          adapters |-> [i \in Integrators |-> <<>>],
          send     |-> {},
          recv     |-> {},
          sequence |-> [i \in Integrators |-> None],
          remaining |-> [i \in Integrators |->
                           [n \in 0 .. MaxSequence |-> None]],
          attested |-> [m \in Messages |-> {}],
          executed |-> {}]

-----------------------------------------------------------------------------
(* What the reader does with each event of event.rs. *)

IntegratorRegistered(integrator, initial_admin) ==
  view' = [view EXCEPT !.known = @ \cup {integrator},
                       !.admin[integrator] = initial_admin,
                       !.sequence[integrator] = 0]

\* update_admin and claim_admin emit the same event, the second also when the
\* current admin cancels a transfer: in each case nothing is pending after.
AdminUpdatedTo(integrator, new_admin) ==
  view' = [view EXCEPT !.admin[integrator] = new_admin,
                       !.pending[integrator] = None]

AdminUpdateRequested(integrator, new_admin) ==
  view' = [view EXCEPT !.pending[integrator] = new_admin]

AdminDiscarded(integrator) ==
  view' = [view EXCEPT !.admin[integrator] = None]

\* adapters_num is the index of the new adapter; were an index left out, the
\* reader would not know who is there.
AdapterAdded(integrator, adapter, adapters_num) ==
  view' = [view EXCEPT !.adapters[integrator] =
    [n \in 1 .. adapters_num + 1 |->
       IF n = adapters_num + 1 THEN adapter
       ELSE IF n <= Len(@) THEN @[n] ELSE None]]

SendAdapterEnabledForChain(integrator, chain, adapter) ==
  view' = [view EXCEPT !.send = @ \cup {<<integrator, chain, adapter>>}]

RecvAdapterEnabledForChain(integrator, chain, adapter) ==
  view' = [view EXCEPT !.recv = @ \cup {<<integrator, chain, adapter>>}]

SendAdapterDisabledForChain(integrator, chain, adapter) ==
  view' = [view EXCEPT !.send = @ \ {<<integrator, chain, adapter>>}]

\* Mutant: the receive side reuses the send side's event.
RecvAdapterDisabledForChain_AsSend(integrator, chain, adapter) ==
  SendAdapterDisabledForChain(integrator, chain, adapter)

RecvAdapterDisabledForChain(integrator, chain, adapter) ==
  view' = [view EXCEPT !.recv = @ \ {<<integrator, chain, adapter>>}]

\* The sequence in MessageSent is the number the next message will get.
MessageSent(sender, sequence) ==
  view' = [view EXCEPT !.sequence[sender] = sequence]

MessagePickedUp(src_addr, sequence, remaining_adapters) ==
  view' = [view EXCEPT !.remaining[src_addr][sequence] = remaining_adapters]

\* Mutant: the event is filled in before the bit is set.
MessageAttestedTo_Before(m, attested_bitmap) ==
  view' = [view EXCEPT !.attested[m] = attestation_info[m].attested_adapters]

MessageAttestedTo(m, attested_bitmap) ==
  view' = [view EXCEPT !.attested[m] = attested_bitmap]

MessageReceived(m) == view' = [view EXCEPT !.executed = @ \cup {m}]

MessageExecuted(m) == view' = [view EXCEPT !.executed = @ \cup {m}]

-----------------------------------------------------------------------------
(* The instructions with the events they emit. *)

EmitsRegister ==
  \E i \in Integrators, u \in Users :
    register(i, u) /\ IntegratorRegistered(i, u)

\* The admin role.
EmitsAdmin(i, signer) ==
  \/ \E u \in Users : update_admin(i, signer, u) /\ AdminUpdatedTo(i, u)
  \/ \E u \in Users :
       transfer_admin(i, signer, u) /\ AdminUpdateRequested(i, u)
  \/ claim_admin(i, signer) /\ AdminUpdatedTo(i, signer)
  \/ discard_admin(i, signer) /\ AdminDiscarded(i)

\* add_adapter passes the index it gave the adapter as adapters_num.
EmitsAdapter(i, signer) ==
  \E a \in Adapters :
    add_adapter(i, signer, a) /\ AdapterAdded(i, a, NextIndex(i))

EmitsEnable(i, signer) ==
  \E c \in ChainIds, a \in Adapters :
    \/ /\ enable_send_adapter(i, signer, c, a)
       /\ SendAdapterEnabledForChain(i, c, a)
    \/ /\ enable_recv_adapter(i, signer, c, a)
       /\ RecvAdapterEnabledForChain(i, c, a)

EmitsDisable(i, signer) ==
  \E c \in ChainIds, a \in Adapters :
    \/ /\ disable_send_adapter(i, signer, c, a)
       /\ SendAdapterDisabledForChain(i, c, a)
    \/ /\ disable_recv_adapter(i, signer, c, a)
       /\ RecvAdapterDisabledForChain(i, c, a)

EmitsConfig ==
  /\ \E i \in Integrators, signer \in Users :
       \/ EmitsAdmin(i, signer)
       \/ EmitsAdapter(i, signer)
       \/ EmitsEnable(i, signer)
       \/ EmitsDisable(i, signer)
  /\ UNCHANGED <<outboxVars, inboxVars>>

\* Mutant: the event is filled in before the bit is cleared.
RemainingAdapters_Before(k) == outbox_message[k].outstanding_adapters

\* The bits left once the handler has run, which pick_up_message reads before
\* it closes the account.
RemainingAdapters(k) ==
  IF outbox_message'[k] = None THEN {}
  ELSE outbox_message'[k].outstanding_adapters

EmitsOutbox ==
  /\ \/ \E i \in Integrators, k \in OutboxKeys, c \in ChainIds :
          send_message(i, k, c) /\ MessageSent(i, message_sent'.sequence)
     \/ \E k \in OutboxKeys, a \in Adapters :
          /\ pick_up_message(k, a)
          /\ MessagePickedUp(outbox_message[k].src_addr,
                             outbox_message[k].sequence, RemainingAdapters(k))
  /\ UNCHANGED <<configVars, inboxVars>>

EmitsInbox ==
  /\ \E m \in Messages :
       \/ \E a \in Adapters :
            /\ attest_message(m, a)
            /\ MessageAttestedTo(m, attestation_info'[m].attested_adapters)
       \/ recv_message(m) /\ MessageReceived(m)
       \/ exec_message(m) /\ MessageExecuted(m)
  /\ UNCHANGED <<configVars, outboxVars>>

EventInit == Init /\ ViewInit

EventNext == EmitsRegister \/ EmitsConfig \/ EmitsOutbox \/ EmitsInbox

EventSpec == EventInit /\ [][EventNext]_eventVars

FairEventSpec == EventSpec /\ PickUpFairness

-----------------------------------------------------------------------------
\* The indices of the adapters the reader holds enabled, of a set of
\* <<integrator, chain, adapter>>.
Enabled(set, i, c) ==
  {IndexIn(view.adapters[i], t[3]) :
     t \in {s \in set : s[1] = i /\ s[2] = c}}

\* The reader of the events knows the configuration of every integrator:
\* admin, pending admin, adapters with their indices, and the adapters
\* enabled for each chain, whoever changed them and in whatever order.
ViewMatchesConfig ==
  /\ view.known = registered
  /\ view.admin = admin
  /\ view.pending = pending_admin
  /\ view.adapters = adapter_infos
  /\ \A i \in Integrators, a \in Adapters :
       adapter_info[i][a] = IndexIn(view.adapters[i], a)
  /\ \A i \in Integrators, c \in ChainIds :
       /\ chain_config[i][c].send_adapter_bitmap = Enabled(view.send, i, c)
       /\ chain_config[i][c].recv_adapter_bitmap = Enabled(view.recv, i, c)

\* The reader knows the state of every message: of one that was picked up, the
\* adapters still outstanding, after its account is closed and reused too; of
\* one on its way in, the attestations and whether it was executed.
ViewMatchesMessages ==
  /\ view.sequence = sequence_tracker
  /\ \A i \in Integrators, n \in 0 .. MaxSequence :
       LET accounts == {k \in OutboxKeys :
                          /\ outbox_message[k] # None
                          /\ outbox_message[k].src_addr = i
                          /\ outbox_message[k].sequence = n}
       IN
       IF view.remaining[i][n] = None
       THEN ~ \E p \in picked_up : p.src_addr = i /\ p.sequence = n
       ELSE view.remaining[i][n] =
              UNION {outbox_message[k].outstanding_adapters : k \in accounts}
  /\ \A m \in Messages :
       /\ view.attested[m] = attestation_info[m].attested_adapters
       /\ m \in view.executed <=> attestation_info[m].executed

=============================================================================
