---------------------------- MODULE SvmEndpoint ----------------------------
(***************************************************************************)
(* The whole SVM endpoint program: its configuration, outbox and inbox     *)
(* composed, with one disjunct of Next for every instruction of the        *)
(* program.  Any signer may submit any instruction at any time, so the     *)
(* steps of admins, integrators and adapters interleave freely.            *)
(***************************************************************************)
EXTENDS SvmOutbox, SvmInbox, FiniteSets

vars == <<registered, admin, pending_admin, admin_updated, adapter_infos,
          adapter_info, chain_config, sequence_tracker, outbox_message,
          message_sent, sent, picked_up, attestation_info, message_received,
          deliveries, attested_by>>

Init == ConfigInit /\ OutboxInit /\ InboxInit

\* register, called by the integrator program.
register(i, initial_admin) ==
  /\ RegisterConfig(i, initial_admin)
  /\ RegisterTracker(i)
  /\ UNCHANGED inboxVars

ConfigStep ==
  /\ \E i \in Integrators, signer \in Users : AdminInstruction(i, signer)
  /\ UNCHANGED <<outboxVars, inboxVars>>

OutboxStep ==
  /\ \/ \E i \in Integrators, k \in OutboxKeys, c \in ChainIds :
          send_message(i, k, c)
     \/ \E k \in OutboxKeys, a \in Adapters : pick_up_message(k, a)
  /\ UNCHANGED <<configVars, inboxVars>>

InboxStep ==
  /\ \/ \E m \in Messages, a \in Adapters : attest_message(m, a)
     \/ \E m \in Messages : recv_message(m)
     \/ \E m \in Messages : exec_message(m)
  /\ UNCHANGED <<configVars, outboxVars>>

Next ==
  \/ \E i \in Integrators, initial_admin \in Users : register(i, initial_admin)
  \/ ConfigStep
  \/ OutboxStep
  \/ InboxStep

Spec == Init /\ [][Next]_vars

\* Adapters that keep trying: a pick-up that stays possible is made.
PickUpFairness ==
  \A k \in OutboxKeys, a \in Adapters :
    WF_vars(pick_up_message(k, a) /\ UNCHANGED <<configVars, inboxVars>>)

TypeOK == ConfigTypeOK /\ OutboxTypeOK /\ InboxTypeOK

-----------------------------------------------------------------------------
(* Configuration *)

\* The AdapterInfo account of an adapter and the integrator's adapter list
\* agree: the account holds the adapter's position in the list, and an adapter
\* without an account is not in the list.  Bitmaps are meaningless otherwise
\* (add_adapter writes both).
AdapterIndexesAgree ==
  \A i \in Integrators :
    /\ Len(adapter_infos[i]) <= MaxAdapters
    /\ \A a \in Adapters, n \in 1 .. Len(adapter_infos[i]) :
         adapter_infos[i][n] = a <=> adapter_info[i][a] = n - 1
    /\ \A a \in Adapters : adapter_info[i][a] # None =>
         adapter_info[i][a] < Len(adapter_infos[i])

\* A zero chain id is what the handlers take for "not initialised yet"
\* (enable_adapter, attest_message, exec_message): an account that exists never
\* reads zero, so none is ever initialised a second time and wiped, and what
\* an initialised account holds is the chain of its seeds.
InitSentinelSound ==
  /\ \A i \in Integrators, c \in ChainIds :
       LET config == chain_config[i][c] IN
       /\ config.exists <=> config.chain_id # 0
       /\ config.exists => config.chain_id = c
  /\ \A m \in Messages :
       LET info == attestation_info[m] IN
       /\ info.exists <=> info.src_chain # 0
       /\ info.exists => info.src_chain = m.src_chain

\* Only registered adapters are ever enabled, on either side.
EnabledAreRegistered ==
  \A i \in Integrators, c \in ChainIds :
    chain_config[i][c].send_adapter_bitmap
      \cup chain_config[i][c].recv_adapter_bitmap
        \subseteq 0 .. Len(adapter_infos[i]) - 1

\* An integrator without an admin has no transfer in progress: check_admin
\* keeps discard_admin from running while a transfer is pending.
NoPendingWithoutAdmin ==
  \A i \in Integrators : admin[i] = None => pending_admin[i] = None

ConfigOf(i) == <<adapter_infos[i], adapter_info[i], chain_config[i]>>

\* While an admin transfer is pending, the only change to an integrator's
\* configuration is that the current or the pending admin settles it
\* (integrator_config.rs, the comment on pending_admin).
PendingLocksConfig ==
  [][\A i \in Integrators :
       pending_admin[i] # None =>
         \/ UNCHANGED <<admin[i], pending_admin[i], ConfigOf(i)>>
         \/ /\ pending_admin'[i] = None
            /\ admin'[i] \in {admin[i], pending_admin[i]}
            /\ UNCHANGED ConfigOf(i)]_vars

\* After discard_admin nothing about the integrator's configuration ever
\* changes again, whatever was pending, enabled or registered before.
DiscardIsForever ==
  [][\A i \in Integrators :
       i \in registered /\ admin[i] = None =>
         UNCHANGED <<admin[i], pending_admin[i], ConfigOf(i)>>]_vars

\* The list of adapters is append-only and an adapter keeps its index, so that
\* the bitmaps of outbox messages and attestations keep their meaning.
AdaptersAppendOnly ==
  [][\A i \in Integrators :
       /\ Len(adapter_infos'[i]) >= Len(adapter_infos[i])
       /\ \A n \in 1 .. Len(adapter_infos[i]) :
            adapter_infos'[i][n] = adapter_infos[i][n]
       /\ \A a \in Adapters : adapter_info[i][a] # None =>
            adapter_info'[i][a] = adapter_info[i][a]]_vars

-----------------------------------------------------------------------------
(* Outbox *)

\* The adapters (as indices) that picked up sent message s.
PickedUpBy(s) ==
  {adapter_info[s.src_addr][p.adapter] :
     p \in {q \in picked_up : q.src_addr = s.src_addr
                              /\ q.sequence = s.sequence}}

Holds(k, s) ==
  /\ outbox_message[k] # None
  /\ outbox_message[k].src_addr = s.src_addr
  /\ outbox_message[k].sequence = s.sequence

\* Every adapter enabled when a message was sent either has picked it up or
\* still finds its bit in the message's account, never both; the account is
\* gone exactly when all have picked it up; and no message has two accounts.
OutboxConservation ==
  \A s \in sent :
    \/ /\ PickedUpBy(s) = s.adapters
       /\ ~ \E k \in OutboxKeys : Holds(k, s)
    \/ \E k \in OutboxKeys :
         /\ Holds(k, s)
         /\ \A l \in OutboxKeys : Holds(l, s) => l = k
         /\ outbox_message[k].outstanding_adapters # {}
         /\ outbox_message[k].outstanding_adapters = s.adapters \ PickedUpBy(s)
         /\ PickedUpBy(s) \subseteq s.adapters

\* The sequences of an integrator's messages are 0, 1, 2, ... with no gap and
\* no repetition, and an account only ever holds a message that was sent.
SequencesDense ==
  /\ \A i \in Integrators : sequence_tracker[i] # None =>
       /\ {s.sequence : s \in {t \in sent : t.src_addr = i}}
            = 0 .. sequence_tracker[i] - 1
       /\ \A s, t \in sent :
            s.src_addr = i /\ t.src_addr = i /\ s.sequence = t.sequence
              => s = t
  /\ \A k \in OutboxKeys : outbox_message[k] # None =>
       \E s \in sent : Holds(k, s)

\* Every OutboxMessage account is closed in the end, whatever the admin
\* disabled after the message was sent: no bit is left to nobody.
EveryMessagePickedUp ==
  \A k \in OutboxKeys : outbox_message[k] # None ~> outbox_message[k] = None

\* The sequence in the MessageSent event is that of the message just stored.
MessageSentSequence ==
  [][sent' # sent =>
       \E s \in sent' \ sent : /\ message_sent'.sender = s.src_addr
                               /\ message_sent'.sequence = s.sequence]_vars

-----------------------------------------------------------------------------
(* Inbox *)

\* Replay protection: a message is delivered at most once, by recv_message or
\* by exec_message, and the executed flag says whether it was.
DeliveredOnce ==
  \A m \in Messages :
    /\ Len(deliveries[m]) <= 1
    /\ attestation_info[m].executed <=> deliveries[m] # <<>>

\* recv_message does not look at the attestations: its comment argues that an
\* account that exists was attested to or executed.  So what it reports is
\* backed by an attestation, and is a message for this chain.
ReceivedWasAttested ==
  /\ \A m \in Messages :
       LET info == attestation_info[m] IN
       /\ info.exists <=> info.executed \/ info.attested_adapters # {}
       /\ info.attested_adapters # {} => m.dst_chain = CHAIN_ID
  /\ message_received.message # None =>
       /\ message_received.attested_bitmap # {}
       /\ message_received.message.dst_chain = CHAIN_ID

\* The attestation bits of a message are the indices of the adapters that
\* attested, one each.
AttestationsAreAttributed ==
  \A m \in Messages :
    /\ attestation_info[m].attested_adapters =
         {adapter_info[m.dst_addr][p[2]] :
            p \in {q \in attested_by : q[1] = m}}
    /\ \A p, q \in attested_by :
         p[1] = m /\ q[1] = m
         /\ adapter_info[m.dst_addr][p[2]] = adapter_info[m.dst_addr][q[2]]
           => p = q

-----------------------------------------------------------------------------
(* The abstract specifications the program implements *)

RoleOf(i) ==
  CASE i \notin registered -> [phase |-> "unregistered"]
    [] i \in registered /\ admin[i] = None -> [phase |-> "discarded"]
    [] i \in registered /\ admin[i] # None /\ pending_admin[i] = None ->
         [phase |-> "owned", admin |-> admin[i]]
    [] i \in registered /\ admin[i] # None /\ pending_admin[i] # None ->
         [phase |-> "transferring", admin |-> admin[i],
          pending |-> pending_admin[i]]

Role == INSTANCE AdminRole WITH
  FrozenDuringTransfer <- TRUE,
  role <- [i \in Integrators |-> RoleOf(i)],
  settings <- [i \in Integrators |-> ConfigOf(i)]

Inbox == INSTANCE Delivery WITH
  Voters <- Index,
  votes <- [m \in Messages |-> attestation_info[m].attested_adapters],
  log <- deliveries

\* What integrator i has sent: the adapters each message still waits for.
QueueOf(i) ==
  [n \in 1 .. Cardinality({s \in sent : s.src_addr = i}) |->
     UNION {outbox_message[k].outstanding_adapters :
              k \in {l \in OutboxKeys :
                       /\ outbox_message[l] # None
                       /\ outbox_message[l].src_addr = i
                       /\ outbox_message[l].sequence = n - 1}}]

Out == INSTANCE Outbox WITH
  Senders <- Integrators,
  Carriers <- Index,
  LastSequence <- MaxSequence,
  queue <- [i \in Integrators |-> QueueOf(i)]

\* send_message and pick_up_message implement Outbox, whatever accounts are
\* used again, and its liveness under adapters that keep trying.
ImplementsOutbox == Out!FairSpec

\* The admin instructions implement the admin role of AdminRole, with the
\* settings locked during a transfer.
ImplementsAdminRole == Role!Spec

\* The message instructions implement Delivery.
ImplementsDelivery == Inbox!Spec

\* The AdminUpdated event names the admin that was replaced.
AdminUpdatedNamesOldAdmin ==
  [][admin_updated' # admin_updated =>
       admin_updated'.old_admin = admin[admin_updated'.integrator]]_vars

=============================================================================
