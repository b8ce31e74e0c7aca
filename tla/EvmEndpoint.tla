---------------------------- MODULE EvmEndpoint ----------------------------
(***************************************************************************)
(* Endpoint.sol without sendMessage: registration, the admin functions,    *)
(* the adapter functions over AdapterRegistry.sol, and the receiving side. *)
(* None of these functions calls out, so a call is one atomic step.        *)
(* `sender` is msg.sender, which is never the zero address.                *)
(***************************************************************************)
EXTENDS EvmRegistry

CONSTANTS
  Users,        \* addresses callers pass as admins; all but zero can call
  Messages,     \* messages callers name: src_chain, dst_chain, dst_addr
  ourChain      \* the chain of this deployment

ASSUME EndpointAssumption ==
  /\ ZeroAddress \in Users
  /\ \A m \in Messages : m.src_chain \in ChainIds

VARIABLES
  isInitialized, admin, pending_admin,   \* IntegratorConfig
  attestationInfo,                       \* AttestationInfo by digest
  messageReceived,                       \* the MessageReceived events
  deliveries,                            \* history: recv and exec calls
  attestedBy                             \* history: who attested to what

roleVars == <<isInitialized, admin, pending_admin>>

inboxVars == <<attestationInfo, messageReceived, deliveries, attestedBy>>

vars == <<adapterInfos, registeredAdapters, sendAdapterArray,
          recvAdapterBitmap, indexedSend, indexedRecv, isInitialized, admin,
          pending_admin, attestationInfo, messageReceived, deliveries,
          attestedBy>>

Callers == Users \ {ZeroAddress}

AttestationInfo == [executed : BOOLEAN, numAttested : 0 .. 255,
                    attestedAdapters : SUBSET Index]

TypeOK ==
  /\ RegistryTypeOK
  /\ isInitialized \in [Integrators -> BOOLEAN]
  /\ admin \in [Integrators -> Users]
  /\ pending_admin \in [Integrators -> Users]
  /\ attestationInfo \in [Messages -> AttestationInfo]
  /\ messageReceived \subseteq Messages
  /\ deliveries \in [Messages -> Seq({"recv", "exec"})]
  /\ attestedBy \subseteq Messages \X Adapters

Init ==
  /\ RegistryInit
  /\ isInitialized = [i \in Integrators |-> FALSE]
  /\ admin = [i \in Integrators |-> ZeroAddress]
  /\ pending_admin = [i \in Integrators |-> ZeroAddress]
  /\ attestationInfo = [m \in Messages |->
       [executed |-> FALSE, numAttested |-> 0, attestedAdapters |-> {}]]
  /\ messageReceived = {}
  /\ deliveries = [m \in Messages |-> <<>>]
  /\ attestedBy = {}

-----------------------------------------------------------------------------
(* Registration and admin functions *)

onlyAdmin(i, sender) == isInitialized[i] /\ admin[i] = sender

noTransferInProgress(i) == pending_admin[i] = ZeroAddress

register(i, initialAdmin) ==
  /\ initialAdmin # ZeroAddress
  /\ ~isInitialized[i]
  /\ isInitialized' = [isInitialized EXCEPT ![i] = TRUE]
  /\ admin' = [admin EXCEPT ![i] = initialAdmin]
  /\ pending_admin' = [pending_admin EXCEPT ![i] = ZeroAddress]
  /\ UNCHANGED <<registryVars, inboxVars>>

updateAdmin(i, sender, newAdmin) ==
  /\ onlyAdmin(i, sender)
  /\ newAdmin # ZeroAddress
  /\ noTransferInProgress(i)
  /\ admin' = [admin EXCEPT ![i] = newAdmin]
  /\ UNCHANGED <<isInitialized, pending_admin, registryVars, inboxVars>>

transferAdmin(i, sender, newAdmin) ==
  /\ onlyAdmin(i, sender)
  /\ newAdmin # ZeroAddress
  /\ noTransferInProgress(i)
  /\ pending_admin' = [pending_admin EXCEPT ![i] = newAdmin]
  /\ UNCHANGED <<isInitialized, admin, registryVars, inboxVars>>

\* Mutant: any caller may settle a transfer.
mayClaim_Anybody(i, sender) == TRUE

mayClaim(i, sender) == sender \in {admin[i], pending_admin[i]}

\* Asks nothing of isInitialized nor that there still is an admin.
claimAdmin(i, sender) ==
  /\ pending_admin[i] # ZeroAddress
  /\ mayClaim(i, sender)
  /\ admin' = [admin EXCEPT ![i] = sender]
  /\ pending_admin' = [pending_admin EXCEPT ![i] = ZeroAddress]
  /\ UNCHANGED <<isInitialized, registryVars, inboxVars>>

discardAdmin(i, sender) ==
  /\ onlyAdmin(i, sender)
  /\ noTransferInProgress(i)
  /\ admin' = [admin EXCEPT ![i] = ZeroAddress]
  /\ UNCHANGED <<isInitialized, pending_admin, registryVars, inboxVars>>

-----------------------------------------------------------------------------
(* Adapter functions: the admin check, then the registry's function.  None
   of them looks at pending_admin. *)

addAdapter(i, sender, a) ==
  /\ onlyAdmin(i, sender)
  /\ addAdapterInternal(i, a)
  /\ UNCHANGED <<roleVars, inboxVars>>

enableSendAdapter(i, sender, c, a) ==
  /\ onlyAdmin(i, sender)
  /\ enableSendAdapterInternal(i, c, a)
  /\ UNCHANGED <<roleVars, inboxVars>>

enableRecvAdapter(i, sender, c, a) ==
  /\ onlyAdmin(i, sender)
  /\ enableRecvAdapterInternal(i, c, a)
  /\ UNCHANGED <<roleVars, inboxVars>>

disableSendAdapter(i, sender, c, a) ==
  /\ onlyAdmin(i, sender)
  /\ disableSendAdapterInternal(i, c, a)
  /\ UNCHANGED <<roleVars, inboxVars>>

disableRecvAdapter(i, sender, c, a) ==
  /\ onlyAdmin(i, sender)
  /\ disableRecvAdapterInternal(i, c, a)
  /\ UNCHANGED <<roleVars, inboxVars>>

-----------------------------------------------------------------------------
(* Receiving.  The digest covers every field of the message, so the storage
   slot of a message is named by the message. *)

\* dstAddr.toAddress() reverts unless the upper 12 bytes are zero.
isEvmAddress(universal) == universal \in Integrators

\* Mutant: a repeated attestation is counted again.
isNewAttestation_Unchecked(m, index) == TRUE

\* Setting the bit changes the bitmap.
isNewAttestation(m, index) ==
  LET old == attestationInfo[m].attestedAdapters
  IN  old \cup Bit(index) # old

attestMessage(m, sender) ==
  LET i     == m.dst_addr
      index == adapterInfos[i][sender].index
  IN
  /\ isEvmAddress(i)
  /\ m.dst_chain = ourChain
  /\ isRegistered(i, sender)
  /\ onlyRegisteredAdapter(i, m.src_chain, sender)
  /\ isRecvAdapterEnabledForChain(i, m.src_chain, sender)
  /\ isNewAttestation(m, index)
  /\ attestationInfo[m].numAttested < 255    \* checked arithmetic
  /\ attestationInfo' = [attestationInfo EXCEPT
       ![m].attestedAdapters = @ \cup Bit(index), ![m].numAttested = @ + 1]
  /\ attestedBy' = attestedBy \cup {<<m, sender>>}
  /\ UNCHANGED <<messageReceived, deliveries, roleVars, registryVars>>

\* The digests recvMessage and execMessage compute for caller i.
DigestIsFor(m, i) == m.dst_chain = ourChain /\ m.dst_addr = i

\* Mutant: a message nobody attested to can be received.
isKnown_Unchecked(m) == TRUE

isKnown(m) ==
  attestationInfo[m].attestedAdapters # {} \/ attestationInfo[m].executed

recvMessage(m, i) ==
  /\ DigestIsFor(m, i)
  /\ m.src_chain # 0
  /\ recvAdapterBitmap[i][m.src_chain] # {}
  /\ isKnown(m)
  /\ ~attestationInfo[m].executed
  /\ attestationInfo' = [attestationInfo EXCEPT ![m].executed = TRUE]
  /\ messageReceived' = messageReceived \cup {m}
  /\ deliveries' = [deliveries EXCEPT ![m] = Append(@, "recv")]
  /\ UNCHANGED <<attestedBy, roleVars, registryVars>>

\* Emits no event.
execMessage(m, i) ==
  /\ DigestIsFor(m, i)
  /\ ~attestationInfo[m].executed
  /\ attestationInfo' = [attestationInfo EXCEPT ![m].executed = TRUE]
  /\ deliveries' = [deliveries EXCEPT ![m] = Append(@, "exec")]
  /\ UNCHANGED <<messageReceived, attestedBy, roleVars, registryVars>>

AdminCall(i, sender) ==
  \/ \E newAdmin \in Users : updateAdmin(i, sender, newAdmin)
  \/ \E newAdmin \in Users : transferAdmin(i, sender, newAdmin)
  \/ claimAdmin(i, sender)
  \/ discardAdmin(i, sender)

AdapterCall(i, sender) ==
  \/ \E a \in Adapters : addAdapter(i, sender, a)
  \/ \E c \in ChainIds, a \in Adapters : enableSendAdapter(i, sender, c, a)
  \/ \E c \in ChainIds, a \in Adapters : enableRecvAdapter(i, sender, c, a)
  \/ \E c \in ChainIds, a \in Adapters : disableSendAdapter(i, sender, c, a)
  \/ \E c \in ChainIds, a \in Adapters : disableRecvAdapter(i, sender, c, a)

MessageCall ==
  \/ \E m \in Messages, a \in Adapters : attestMessage(m, a)
  \/ \E m \in Messages, i \in Integrators : recvMessage(m, i)
  \/ \E m \in Messages, i \in Integrators : execMessage(m, i)

Next ==
  \/ \E i \in Integrators, initialAdmin \in Users : register(i, initialAdmin)
  \/ \E i \in Integrators, sender \in Callers : AdminCall(i, sender)
  \/ \E i \in Integrators, sender \in Callers : AdapterCall(i, sender)
  \/ MessageCall

Spec == Init /\ [][Next]_vars

-----------------------------------------------------------------------------
\* The attestations of a message come from registered adapters of its
\* destination on this chain, one bit each: an unregistered address, which
\* reads index 0, never borrows the bit of the first adapter.  The uint8
\* counter kept beside the bitmap is the number of its bits.
AttestationsAreAttributed ==
  /\ \A p \in attestedBy : isEvmAddress(p[1].dst_addr)
  /\ \A m \in Messages :
       LET by == {q \in attestedBy : q[1] = m}
           Info(p) == adapterInfos[m.dst_addr][p[2]]
       IN
       /\ \A p \in by : Info(p).registered
       /\ attestationInfo[m].attestedAdapters = {Info(p).index : p \in by}
       /\ \A p, q \in by : Info(p).index = Info(q).index => p = q
       /\ attestationInfo[m].numAttested
            = Cardinality(attestationInfo[m].attestedAdapters)

ConfigOf(i) ==
  <<adapterInfos[i], registeredAdapters[i], sendAdapterArray[i],
    recvAdapterBitmap[i]>>

\* README.md, for addAdapter and the enable and disable functions: the caller
\* is the current admin "and there is not a pending transfer".
PendingLocksConfig ==
  [][\A i \in Integrators :
       pending_admin[i] # ZeroAddress => UNCHANGED ConfigOf(i)]_vars

\* README.md, of execMessage among others: "Every one of the following methods
\* MUST generate traceable events."
DeliveryIsTraceable ==
  \A m \in Messages : attestationInfo[m].executed => m \in messageReceived

RoleOf(i) ==
  CASE ~isInitialized[i] -> [phase |-> "unregistered"]
    [] isInitialized[i] /\ admin[i] = ZeroAddress -> [phase |-> "discarded"]
    [] isInitialized[i] /\ admin[i] # ZeroAddress
       /\ pending_admin[i] = ZeroAddress ->
         [phase |-> "owned", admin |-> admin[i]]
    [] isInitialized[i] /\ admin[i] # ZeroAddress
       /\ pending_admin[i] # ZeroAddress ->
         [phase |-> "transferring", admin |-> admin[i],
          pending |-> pending_admin[i]]

Role == INSTANCE AdminRole WITH
  Users <- Callers,
  FrozenDuringTransfer <- FALSE,
  role <- [i \in Integrators |-> RoleOf(i)],
  settings <- [i \in Integrators |-> ConfigOf(i)]

Inbox == INSTANCE Delivery WITH
  Voters <- Index,
  votes <- [m \in Messages |-> attestationInfo[m].attestedAdapters],
  log <- deliveries

\* The admin functions implement AdminRole, with the settings left open during
\* a transfer: in particular claimAdmin, which asks neither for registration
\* nor for an admin, never brings a discarded admin back, because no transfer
\* can be pending then.
ImplementsAdminRole == Role!Spec

\* The message functions implement Delivery.
ImplementsDelivery == Inbox!Spec

=============================================================================
