--------------------------- MODULE AptosEndpoint ---------------------------
(***************************************************************************)
(* endpoint.move over integrator.move: the outbox and the inbox on Aptos,  *)
(* two tables of the endpoint's account.  An outgoing message is stored    *)
(* under its integrator and sequence; an attestation entry under the hash  *)
(* of the message, which covers all its fields, so here under the message. *)
(* The functions take the chain of the message's destination from their    *)
(* caller and compare it with nothing.                                     *)
(***************************************************************************)
EXTENDS AptosIntegrator

CONSTANT
  Messages    \* messages callers name: src_chain, dst_chain, dst_addr

ASSUME AptosMessagesAssumption ==
  \A m \in Messages : /\ m.src_chain \in ChainIds
                      /\ m.dst_chain \in ChainIds
                      /\ m.dst_addr \in Integrators

VARIABLES
  outbox_messages,     \* outstanding adapters by (integrator, sequence)
  sent,                \* history: number of messages each integrator sent
  attestation_infos,   \* AttestationInfo by message
  deliveries,          \* history: the recvMessage and execMessage calls
  attested_by          \* history: who attested to which message

outboxVars == <<outbox_messages, sent>>

inboxVars == <<attestation_infos, deliveries, attested_by>>

vars == <<sequence, admin_addr, pending_admin_addr, adapters,
          adapter_to_index, send_bitmap, recv_bitmap, outbox_messages, sent,
          attestation_infos, deliveries, attested_by>>

Sequences == 0 .. MaxSequence - 1

AttestationInfo == [executed : BOOLEAN, attested_adapters : SUBSET Index]

ASSUME AptosNoneAssumption ==
  /\ \A bitmap \in SUBSET Index : bitmap # None
  /\ None \notin AttestationInfo

\* The default of borrow_mut_with_default.
NewAttestationInfo == [executed |-> FALSE, attested_adapters |-> {}]

TypeOK ==
  /\ IntegratorTypeOK
  /\ outbox_messages \in
       [Integrators -> [Sequences -> (SUBSET Index) \cup {None}]]
  /\ sent \in [Integrators -> Nat]
  /\ attestation_infos \in [Messages -> AttestationInfo \cup {None}]
  /\ deliveries \in [Messages -> Seq({"recv", "exec"})]
  /\ attested_by \subseteq Messages \X Adapters

\* init_module creates the two tables, empty.
Init ==
  /\ IntegratorInit
  /\ outbox_messages = [i \in Integrators |-> [n \in Sequences |-> None]]
  /\ sent = [i \in Integrators |-> 0]
  /\ attestation_infos = [m \in Messages |-> None]
  /\ deliveries = [m \in Messages |-> <<>>]
  /\ attested_by = {}

-----------------------------------------------------------------------------
(* Sending *)

register(i, initial) ==
  /\ new_integrator(i, initial)
  /\ UNCHANGED <<outboxVars, inboxVars>>

\* table::add aborts when the key is in the table.
send_message(i, c) ==
  LET n == sequence[i] IN
  /\ send_bitmap[i][c] # {}
  /\ use_sequence(i)
  /\ outbox_messages[i][n] = None
  /\ outbox_messages' = [outbox_messages EXCEPT ![i][n] = send_bitmap[i][c]]
  /\ sent' = [sent EXCEPT ![i] = @ + 1]
  /\ UNCHANGED inboxVars

\* Mutant: the entry is removed at the first pick-up.
RemoveIfEmpty_AtOnce(outstanding) == None

\* The entry is removed with its last bit.
RemoveIfEmpty(outstanding) == IF outstanding = {} THEN None ELSE outstanding

pick_up_message(i, n, a) ==
  LET index == adapter_to_index[i][a] IN
  /\ outbox_messages[i][n] # None
  /\ index # None
  /\ CanDisable(outbox_messages[i][n], index)
  /\ outbox_messages' = [outbox_messages EXCEPT ![i][n] =
                           RemoveIfEmpty(disable(@, index))]
  /\ UNCHANGED <<integratorVars, sent, inboxVars>>

-----------------------------------------------------------------------------
(* Receiving *)

\* Mutant: the default replaces the entry.
InfoOrNew_Replaced(m) == NewAttestationInfo

\* borrow_mut_with_default.
InfoOrNew(m) == IF attestation_infos[m] = None THEN NewAttestationInfo
                                               ELSE attestation_infos[m]

attest_message(m, a) ==
  LET index == adapter_to_index[m.dst_addr][a] IN
  /\ index # None
  /\ index \in recv_bitmap[m.dst_addr][m.src_chain]
  /\ CanEnable(InfoOrNew(m).attested_adapters, index)
  /\ attestation_infos' = [attestation_infos EXCEPT ![m] =
       [InfoOrNew(m) EXCEPT !.attested_adapters = enable(@, index)]]
  /\ attested_by' = attested_by \cup {<<m, a>>}
  /\ UNCHANGED <<deliveries, integratorVars, outboxVars>>

\* Mutant: recvMessage creates the entry it does not find.
Borrowed_OrNew(m) == InfoOrNew(m)

\* borrow_mut aborts when there is no entry.
Borrowed(m) == attestation_infos[m]

\* The enabled adapters are read at the end, from a resource that exists only
\* if the caller is registered.
recvMessage(m) ==
  LET info == Borrowed(m) IN
  /\ info # None
  /\ ~info.executed
  /\ Registered(m.dst_addr)
  /\ attestation_infos' = [attestation_infos EXCEPT ![m] =
                             [info EXCEPT !.executed = TRUE]]
  /\ deliveries' = [deliveries EXCEPT ![m] = Append(@, "recv")]
  /\ UNCHANGED <<attested_by, integratorVars, outboxVars>>

execMessage(m) ==
  LET info == InfoOrNew(m) IN
  /\ ~info.executed
  /\ attestation_infos' = [attestation_infos EXCEPT ![m] =
                             [info EXCEPT !.executed = TRUE]]
  /\ deliveries' = [deliveries EXCEPT ![m] = Append(@, "exec")]
  /\ UNCHANGED <<attested_by, integratorVars, outboxVars>>

AdminStep ==
  /\ \E i \in Integrators, signer \in Users \ {ZeroAddress} :
       AdminFunction(i, signer)
  /\ UNCHANGED <<outboxVars, inboxVars>>

MessageStep ==
  \/ \E i \in Integrators, c \in ChainIds : send_message(i, c)
  \/ \E i \in Integrators, n \in Sequences, a \in Adapters :
       pick_up_message(i, n, a)
  \/ \E m \in Messages, a \in Adapters : attest_message(m, a)
  \/ \E m \in Messages : recvMessage(m)
  \/ \E m \in Messages : execMessage(m)

Next ==
  \/ \E i \in Integrators, initial \in Users : register(i, initial)
  \/ AdminStep
  \/ MessageStep

Spec == Init /\ [][Next]_vars

\* Adapters that keep trying: a pick-up that stays possible is made.
FairSpec ==
  /\ Spec
  /\ \A i \in Integrators, n \in Sequences, a \in Adapters :
       WF_vars(pick_up_message(i, n, a))

-----------------------------------------------------------------------------
\* The bits of an entry are the indices of the adapters that attested, one
\* each, and an entry without bits was executed: the comment in recvMessage,
\* "This borrow will fail if no adapters have attested", holds for messages
\* that can still be received.
AttestationsAreAttributed ==
  \A m \in Messages :
    LET by    == {p \in attested_by : p[1] = m}
        At(p) == adapter_to_index[m.dst_addr][p[2]]
        info  == attestation_infos[m]
    IN
    /\ by # {} => info # None
    /\ info # None => /\ info.attested_adapters = {At(p) : p \in by}
                      /\ info.executed \/ by # {}
    /\ \A p, q \in by : At(p) = At(q) => p = q

ConfigOf(i) ==
  <<adapters[i], adapter_to_index[i], send_bitmap[i], recv_bitmap[i]>>

RoleOf(i) ==
  CASE ~Registered(i) -> [phase |-> "unregistered"]
    [] Registered(i) /\ admin_addr[i] = None -> [phase |-> "discarded"]
    [] Registered(i) /\ admin_addr[i] # None
       /\ pending_admin_addr[i] = None ->
         [phase |-> "owned", admin |-> admin_addr[i]]
    [] Registered(i) /\ admin_addr[i] # None
       /\ pending_admin_addr[i] # None ->
         [phase |-> "transferring", admin |-> admin_addr[i],
          pending |-> pending_admin_addr[i]]

Role == INSTANCE AdminRole WITH
  Users <- Users \ {ZeroAddress},
  FrozenDuringTransfer <- TRUE,
  role <- [i \in Integrators |-> RoleOf(i)],
  settings <- [i \in Integrators |-> ConfigOf(i)]

Inbox == INSTANCE Delivery WITH
  Voters <- Index,
  votes <- [m \in Messages |-> InfoOrNew(m).attested_adapters],
  log <- deliveries

\* What integrator i has sent: the adapters each message still waits for.
QueueOf(i) ==
  [n \in 1 .. sent[i] |->
     IF outbox_messages[i][n - 1] = None THEN {}
                                         ELSE outbox_messages[i][n - 1]]

Out == INSTANCE Outbox WITH
  Senders <- Integrators,
  Carriers <- Index,
  LastSequence <- MaxSequence,
  queue <- [i \in Integrators |-> QueueOf(i)]

\* The admin functions implement AdminRole: in particular claim_admin cannot
\* bring back a discarded admin, nor an adapter function run during a transfer.
ImplementsAdminRole == Role!Spec

\* attest_message, recvMessage and execMessage implement Delivery: a message
\* is delivered once, and received only after an attestation.
ImplementsDelivery == Inbox!Spec

\* send_message and pick_up_message implement Outbox, and under adapters that
\* keep trying its liveness too.
ImplementsOutbox == Out!FairSpec

=============================================================================
