---------------------------- MODULE BridgeProofs ----------------------------
(***************************************************************************)
(* A theorem about the route between two whole endpoints.  Each endpoint's *)
(* steps are steps of its own specification, so what is proved of each     *)
(* alone holds on the route; what is left to show is that the adapters     *)
(* only attest to what they carried.                                       *)
(***************************************************************************)
EXTENDS Bridge, SvmEndpointProofs

\* The theorems about the EVM endpoint, for the contract of the route.
EvmProofs == INSTANCE EvmEndpointProofs WITH
  Integrators <- {Contract},
  Users <- Users \cup {ZeroAddress},
  MAX_ADAPTERS <- MaxAdapters,
  Messages <- Route,
  ourChain <- EvmChain,
  admin <- evm_admin,
  pending_admin <- evm_pending_admin,
  deliveries <- evm_deliveries

-----------------------------------------------------------------------------
(* The endpoints of the route *)

\* The assumptions about the EVM endpoint hold of the route.
LEMMA EvmAssumptions ==
  /\ ChainIds \subseteq Nat /\ MaxAdapters \in 1 .. 128
  /\ ZeroAddress \in Users \cup {ZeroAddress}
  /\ \A m \in Route : m.src_chain \in ChainIds
BY ConfigAssumption, InboxAssumption, BridgeAssumption DEF Route, Message

\* The steps model-checked are steps of the route.
LEMMA CheckedSteps == BridgeNext => RouteNext
<1> SUFFICES ASSUME BridgeNext PROVE RouteNext
  OBVIOUS
<1>1. CASE Send \/ \E k \in OutboxKeys, a \in Adapters : PickUpBy(k, a)
  <2>1. OutboxStep /\ UNCHANGED evmVars
    BY <1>1, BridgeAssumption DEF Send, PickUpBy, OutboxStep
  <2> QED BY <2>1 DEF RouteNext, Next
<1>2. CASE ReconfigureSend
  <2>1. ConfigStep /\ UNCHANGED evmVars
    BY <1>2, BridgeAssumption
    DEF ReconfigureSend, ConfigStep, AdminInstruction
  <2> QED BY <2>1 DEF RouteNext, Next
<1>3. CASE ReconfigureRecv
  <2>1. CHAIN_ID \in ChainIds
    BY InboxAssumption
  <2>2. Configure
    BY <1>3, <2>1 DEF ReconfigureRecv, Configure, Evm!AdapterCall
  <2> QED BY <2>2 DEF RouteNext
<1> QED BY <1>1, <1>2, <1>3 DEF BridgeNext, RouteNext

\* The SVM endpoint only takes steps of its own.
LEMMA SvmSteps == RouteSpec => Spec
<1>1. RouteInit => Init
  BY DEF RouteInit
<1>2. [RouteNext]_bridgeVars => [Next]_vars
  BY DEF RouteNext, Configure, Relay, Receive, Execute, bridgeVars
<1> QED BY <1>1, <1>2, PTL DEF RouteSpec, Spec

\* Registration and the admin functions on the route are those the theorems
\* are about.
LEMMA SameAdminCalls ==
  ASSUME NEW i, NEW u
  PROVE  /\ Evm!register(i, u) => EvmProofs!register(i, u)
         /\ Evm!AdminCall(i, u) => EvmProofs!AdminCall(i, u)
BY DEF Evm!roleVars, EvmProofs!roleVars, Evm!inboxVars, EvmProofs!inboxVars,
       Evm!registryVars, EvmProofs!registryVars, Evm!register,
       EvmProofs!register, Evm!onlyAdmin, EvmProofs!onlyAdmin,
       Evm!noTransferInProgress, EvmProofs!noTransferInProgress,
       Evm!AdminCall, EvmProofs!AdminCall, Evm!updateAdmin,
       EvmProofs!updateAdmin, Evm!transferAdmin, EvmProofs!transferAdmin,
       Evm!claimAdmin, EvmProofs!claimAdmin, Evm!mayClaim,
       EvmProofs!mayClaim, Evm!discardAdmin, EvmProofs!discardAdmin

\* So are the adapter functions.
LEMMA SameAdapterCalls ==
  ASSUME NEW i, NEW u, Evm!AdapterCall(i, u)
  PROVE  EvmProofs!AdapterCall(i, u)
BY DEF Evm!roleVars, EvmProofs!roleVars, Evm!inboxVars, EvmProofs!inboxVars,
       Evm!registryVars, EvmProofs!registryVars, Evm!onlyAdmin,
       EvmProofs!onlyAdmin, Evm!noTransferInProgress,
       EvmProofs!noTransferInProgress, Evm!AdapterCall,
       EvmProofs!AdapterCall, Evm!addAdapter, EvmProofs!addAdapter,
       Evm!enableSendAdapter, EvmProofs!enableSendAdapter,
       Evm!enableRecvAdapter, EvmProofs!enableRecvAdapter,
       Evm!disableSendAdapter, EvmProofs!disableSendAdapter,
       Evm!disableRecvAdapter, EvmProofs!disableRecvAdapter,
       Evm!addAdapterInternal, EvmProofs!addAdapterInternal, Evm!hasRoom,
       EvmProofs!hasRoom, Evm!uint8, EvmProofs!uint8,
       Evm!registeredAdaptersLength, EvmProofs!registeredAdaptersLength,
       Evm!enableSendAdapterInternal, EvmProofs!enableSendAdapterInternal,
       Evm!enableRecvAdapterInternal, EvmProofs!enableRecvAdapterInternal,
       Evm!disableSendAdapterInternal, EvmProofs!disableSendAdapterInternal,
       Evm!disableRecvAdapterInternal, EvmProofs!disableRecvAdapterInternal,
       Evm!onlyRegisteredAdapter, EvmProofs!onlyRegisteredAdapter,
       Evm!isRegistered, EvmProofs!isRegistered,
       Evm!isSendAdapterEnabledForChain,
       EvmProofs!isSendAdapterEnabledForChain,
       Evm!isRecvAdapterEnabledForChain,
       EvmProofs!isRecvAdapterEnabledForChain, Evm!Bit, EvmProofs!Bit,
       Evm!Index, EvmProofs!Index, Evm!SwapAndPop, EvmProofs!SwapAndPop

\* So are the message functions.
LEMMA SameMessageCalls ==
  ASSUME NEW m, NEW x
  PROVE  /\ Evm!attestMessage(m, x) => EvmProofs!attestMessage(m, x)
         /\ Evm!recvMessage(m, x) => EvmProofs!recvMessage(m, x)
         /\ Evm!execMessage(m, x) => EvmProofs!execMessage(m, x)
BY DEF Evm!roleVars, EvmProofs!roleVars, Evm!inboxVars, EvmProofs!inboxVars,
       Evm!registryVars, EvmProofs!registryVars, Evm!attestMessage,
       EvmProofs!attestMessage, Evm!isEvmAddress, EvmProofs!isEvmAddress,
       Evm!onlyRegisteredAdapter, EvmProofs!onlyRegisteredAdapter,
       Evm!isRegistered, EvmProofs!isRegistered,
       Evm!isRecvAdapterEnabledForChain,
       EvmProofs!isRecvAdapterEnabledForChain, Evm!Bit, EvmProofs!Bit,
       Evm!Index, EvmProofs!Index, Evm!isNewAttestation,
       EvmProofs!isNewAttestation, Evm!recvMessage, EvmProofs!recvMessage,
       Evm!execMessage, EvmProofs!execMessage, Evm!DigestIsFor,
       EvmProofs!DigestIsFor, Evm!isKnown, EvmProofs!isKnown

\* The EVM endpoint only takes steps of its own.
LEMMA EvmSteps == RouteSpec => EvmProofs!Spec
<1>1. RouteInit => EvmProofs!Init
  BY DEF RouteInit, Evm!Init, EvmProofs!Init, Evm!RegistryInit,
         EvmProofs!RegistryInit
<1>2. [RouteNext]_bridgeVars => [EvmProofs!Next]_(EvmProofs!vars)
  <2> SUFFICES ASSUME [RouteNext]_bridgeVars
               PROVE  [EvmProofs!Next]_(EvmProofs!vars)
    OBVIOUS
  <2>1. CASE UNCHANGED evmVars
    BY <2>1 DEF evmVars, EvmProofs!vars
  <2>2. CASE Configure
    <3>1. PICK u \in Users : \/ Evm!register(Contract, u)
                             \/ Evm!AdminCall(Contract, u)
                             \/ Evm!AdapterCall(Contract, u)
      BY <2>2 DEF Configure
    <3>2. u \in Users \cup {ZeroAddress} /\ u \in EvmProofs!Callers
      BY BridgeAssumption DEF EvmProofs!Callers
    <3>3. \/ EvmProofs!register(Contract, u)
          \/ EvmProofs!AdminCall(Contract, u)
          \/ EvmProofs!AdapterCall(Contract, u)
      BY <3>1, SameAdminCalls, SameAdapterCalls
    <3> QED BY <3>2, <3>3 DEF EvmProofs!Next
  <2>3. ASSUME NEW m \in Route, NEW a \in Adapters, Relay(m, a)
        PROVE  EvmProofs!Next
    BY <2>3, SameMessageCalls
    DEF Relay, EvmProofs!Next, EvmProofs!MessageCall
  <2>4. ASSUME NEW m \in Route, Receive(m) \/ Execute(m)
        PROVE  EvmProofs!Next
    BY <2>4, SameMessageCalls
    DEF Receive, Execute, EvmProofs!Next, EvmProofs!MessageCall
  <2> QED BY <2>1, <2>2, <2>3, <2>4 DEF RouteNext, bridgeVars
<1> QED BY <1>1, <1>2, PTL DEF RouteSpec, EvmProofs!Spec

-----------------------------------------------------------------------------
(* What the adapters carry *)

\* Whoever attested on EVM picked the message up on SVM, and only finitely many
\* messages were picked up.
CarriedInv ==
  /\ IsFiniteSet(picked_up)
  /\ \A m \in Route, a \in Adapters :
       <<m, a>> \in attestedBy => a \in Carriers(m)

\* A step of the SVM endpoint picks at most one message up, once more.
LEMMA PickedUpGrows ==
  ASSUME [Next]_vars, IsFiniteSet(picked_up)
  PROVE  IsFiniteSet(picked_up') /\ picked_up \subseteq picked_up'
<1>1. CASE UNCHANGED picked_up
  BY <1>1
<1>2. ASSUME NEW k, NEW a, pick_up_message(k, a)
      PROVE  IsFiniteSet(picked_up') /\ picked_up \subseteq picked_up'
  <2>1. \E p : picked_up' = picked_up \cup {p}
    BY <1>2 DEF pick_up_message
  <2> QED BY <2>1, FS_AddElement
<1>3. CASE OutboxStep
  BY <1>1, <1>2, <1>3 DEF OutboxStep, send_message
<1>4. CASE ConfigStep \/ InboxStep
  BY <1>1, <1>4 DEF ConfigStep, InboxStep, outboxVars
<1>5. CASE \E i \in Integrators, u \in Users : register(i, u)
  BY <1>1, <1>5 DEF register, RegisterTracker
<1> QED BY <1>1, <1>3, <1>4, <1>5 DEF Next, vars

\* Every step on the route keeps it.
LEMMA StepKeepsCarried ==
  ASSUME CarriedInv, [RouteNext]_bridgeVars
  PROVE  CarriedInv'
<1>1. [Next]_vars
  BY DEF RouteNext, Configure, Relay, Receive, Execute, bridgeVars
<1>2. /\ IsFiniteSet(picked_up')
      /\ \A m \in Route : Carriers(m) \subseteq Carriers(m)'
  BY <1>1, PickedUpGrows DEF CarriedInv, Carriers
<1>3. CASE UNCHANGED attestedBy
  BY <1>2, <1>3 DEF CarriedInv
<1>4. ASSUME NEW n \in Route, NEW b \in Adapters, Relay(n, b)
      PROVE  CarriedInv'
  <2>1. attestedBy' = attestedBy \cup {<<n, b>>} /\ b \in Carriers(n)
    BY <1>4 DEF Relay, Evm!attestMessage
  <2> QED BY <1>2, <2>1 DEF CarriedInv
<1>5. CASE Configure
  <2>1. UNCHANGED attestedBy
    BY <1>5 DEF Configure, Evm!register, Evm!AdminCall, Evm!updateAdmin,
      Evm!transferAdmin, Evm!claimAdmin, Evm!discardAdmin, Evm!AdapterCall,
      Evm!addAdapter, Evm!enableSendAdapter, Evm!enableRecvAdapter,
      Evm!disableSendAdapter, Evm!disableRecvAdapter, Evm!inboxVars
  <2> QED BY <1>3, <2>1
<1>6. ASSUME NEW m \in Route, Receive(m) \/ Execute(m) PROVE CarriedInv'
  BY <1>3, <1>6 DEF Receive, Execute, Evm!recvMessage, Evm!execMessage
<1>7. CASE UNCHANGED evmVars
  BY <1>3, <1>7 DEF evmVars
<1> QED BY <1>4, <1>5, <1>6, <1>7 DEF RouteNext, bridgeVars

\* It holds in every reachable state.
LEMMA CarriedInvariant == RouteSpec => []CarriedInv
<1>1. RouteInit => CarriedInv
  BY FS_EmptySet DEF RouteInit, Init, OutboxInit, Evm!Init, CarriedInv
<1> QED BY <1>1, StepKeepsCarried, PTL DEF RouteSpec

\* The two proofs count alike.
LEMMA SameCardinality ==
  ASSUME NEW S PROVE EvmProofs!Cardinality(S) = Cardinality(S)
BY DEF EvmProofs!Cardinality, Cardinality

\* What a function covers is finite and no larger than its domain.
LEMMA CoveredIsNoLarger ==
  ASSUME NEW S, NEW T, IsFiniteSet(S), NEW f \in [S -> T],
         \A y \in T : \E x \in S : f[x] = y
  PROVE  IsFiniteSet(T) /\ Cardinality(T) <= Cardinality(S)
<1>1. f \in Surjection(S, T)
  BY DEF Surjection
<1> QED BY <1>1, FS_Surjection

\* The bits of a message are at most as many as its carriers.
LEMMA BitsComeFromCarriers ==
  ASSUME CarriedInv, NEW m \in Route, EvmProofs!AttributedInv(m)
  PROVE  attestationInfo[m].numAttested <= Cardinality(Carriers(m))
<1> DEFINE carriers == Carriers(m)
           bits     == attestationInfo[m].attestedAdapters
           by       == {a \in Adapters : <<m, a>> \in attestedBy}
           index    == [a \in by |-> adapterInfos[m.dst_addr][a].index]
           adapter  == [p \in picked_up |-> p.adapter]
           adapters == {p.adapter : p \in picked_up}
<1>1. IsFiniteSet(carriers)
  <2>1. /\ adapter \in [picked_up -> adapters]
        /\ \A a \in adapters : \E p \in picked_up : adapter[p] = a
    OBVIOUS
  <2> HIDE DEF adapter, adapters
  <2>2. IsFiniteSet(adapters)
    BY <2>1, CoveredIsNoLarger DEF CarriedInv
  <2>3. carriers \subseteq adapters
    BY DEF Carriers, adapters
  <2> QED BY <2>2, <2>3, FS_Subset
<1>2. /\ IsFiniteSet(by)
      /\ Cardinality(by) <= Cardinality(carriers)
  BY <1>1, FS_Subset DEF CarriedInv
<1>3. index \in [by -> bits] /\ \A x \in bits : \E a \in by : index[a] = x
  BY DEF EvmProofs!AttributedInv, EvmProofs!Attested
<1>4. IsFiniteSet(bits) /\ Cardinality(bits) <= Cardinality(by)
  BY <1>2, <1>3, CoveredIsNoLarger
<1>5. attestationInfo[m].numAttested = Cardinality(bits)
  BY SameCardinality DEF EvmProofs!AttributedInv
<1>6. /\ Cardinality(bits) \in Nat /\ Cardinality(by) \in Nat
      /\ Cardinality(carriers) \in Nat
  BY <1>1, <1>2, <1>4, FS_CardinalityType
<1> QED BY <1>2, <1>4, <1>5, <1>6

-----------------------------------------------------------------------------
\* What arrives on EVM was sent on SVM: EVM counts at most one attestation for
\* each adapter that carried the message, and the contract receives a message
\* at most once, and only if it was sent and carried.
THEOREM NothingIsFromNowhere == RouteSpec => []NothingFromNowhere
<1> DEFINE Attributed == \A m \in Route : EvmProofs!AttributedInv(m)
<1>1. OutboxInv /\ CarriedInv /\ Attributed /\ EvmProofs!DeliveredInv
        => NothingFromNowhere
  <2> SUFFICES ASSUME OutboxInv, CarriedInv, EvmProofs!DeliveredInv,
                      NEW m \in Route, EvmProofs!AttributedInv(m)
               PROVE  /\ attestationInfo[m].numAttested
                           <= Cardinality(Carriers(m))
                      /\ Len(evm_deliveries[m]) <= 1
                      /\ evm_deliveries[m] = <<"recv">> =>
                           /\ Carriers(m) # {}
                           /\ \E s \in sent : /\ s.src_addr = m.src_addr
                                              /\ s.sequence = m.sequence
    BY DEF NothingFromNowhere
  <2>1. Len(evm_deliveries[m]) <= 1
    <3>1. evm_deliveries[m] \in {<<>>, <<"recv">>, <<"exec">>}
      BY DEF EvmProofs!DeliveredInv
    <3>2. Len(<<>>) <= 1 /\ Len(<<"recv">>) <= 1 /\ Len(<<"exec">>) <= 1
      OBVIOUS
    <3> QED BY <3>1, <3>2
  <2>2. ASSUME evm_deliveries[m] = <<"recv">>
        PROVE  /\ Carriers(m) # {}
               /\ \E s \in sent : /\ s.src_addr = m.src_addr
                                  /\ s.sequence = m.sequence
    <3>1. PICK a \in Adapters : <<m, a>> \in attestedBy
      BY <2>2 DEF EvmProofs!DeliveredInv, EvmProofs!AttributedInv,
                  EvmProofs!Attested
    <3>2. a \in Carriers(m)
      BY <3>1 DEF CarriedInv
    <3>3. \E p \in picked_up : /\ p.src_addr = m.src_addr
                               /\ p.sequence = m.sequence
      BY <3>2 DEF Carriers
    <3> QED BY <3>2, <3>3 DEF OutboxInv, PickUpInv
  <2> QED BY <2>1, <2>2, BitsComeFromCarriers
<1>2. /\ EvmProofs!Spec => [](\A m \in Route : EvmProofs!AttributedInv(m))
      /\ EvmProofs!Spec => []EvmProofs!DeliveredInv
  BY EvmAssumptions, EvmProofs!AttributedInvariant,
     EvmProofs!DeliveredInvariant
<1> QED
  BY <1>1, <1>2, SvmSteps, EvmSteps, OutboxInvariant, CarriedInvariant, PTL

=============================================================================
