------------------------- MODULE EvmEndpointProofs -------------------------
(***************************************************************************)
(* Theorems about the EVM endpoint and its adapter registry for every set  *)
(* of integrators, users, adapters, chains and messages, and every         *)
(* capacity up to 128.                                                     *)
(***************************************************************************)
EXTENDS EvmEndpoint, Recursion, FiniteSetTheorems, TLAPS

-----------------------------------------------------------------------------
(* Type correctness *)

\* What swap-and-pop leaves: the last entry in the place of the removed one.
LEMMA SwapAndPopIs ==
  ASSUME NEW S, NEW array \in Seq(S), NEW n \in 1 .. Len(array)
  PROVE  /\ SwapAndPop(array, n) \in Seq(S)
         /\ Len(SwapAndPop(array, n)) = Len(array) - 1
         /\ \A m \in 1 .. Len(array) - 1 :
              SwapAndPop(array, n)[m]
                = IF m = n THEN array[Len(array)] ELSE array[m]
<1> DEFINE swapped == [array EXCEPT ![n] = array[Len(array)]]
<1>1. swapped \in Seq(S) /\ Len(swapped) = Len(array)
  OBVIOUS
<1>2. \A m \in 1 .. Len(array) :
        swapped[m] = IF m = n THEN array[Len(array)] ELSE array[m]
  OBVIOUS
<1>3. Len(array) \in Nat /\ Len(array) >= 1
  OBVIOUS
<1> HIDE DEF swapped
<1>4. /\ SubSeq(swapped, 1, Len(array) - 1) \in Seq(S)
      /\ Len(SubSeq(swapped, 1, Len(array) - 1)) = Len(array) - 1
      /\ \A m \in 1 .. Len(array) - 1 :
           SubSeq(swapped, 1, Len(array) - 1)[m] = swapped[m]
  BY <1>1, <1>3
<1> QED BY <1>2, <1>4 DEF SwapAndPop, swapped

\* What the uint8 conversion returns.
LEMMA Uint8Is ==
  ASSUME NEW n \in Nat
  PROVE  uint8(n) \in 0 .. 255 /\ (n < 256 => uint8(n) = n)
BY DEF uint8

\* Below the capacity the uint8 length is the length, and is an index.
LEMMA LengthIsIndex ==
  ASSUME RegistryTypeOK, NEW i \in Integrators, hasRoom(i)
  PROVE  registeredAdaptersLength(i) \in Index
<1>1. PICK n \in Nat : n = Len(registeredAdapters[i])
  BY DEF RegistryTypeOK
<1>2. uint8(n) \in 0 .. 255
  BY Uint8Is
<1>3. uint8(n) < MAX_ADAPTERS /\ registeredAdaptersLength(i) = uint8(n)
  BY <1>1 DEF hasRoom, registeredAdaptersLength
<1> QED
  BY <1>2, <1>3, RegistryAssumption DEF Index

\* Every registry function keeps the registry well typed.
LEMMA RegistryTypeStep ==
  ASSUME RegistryTypeOK, NEW i \in Integrators, NEW c \in ChainIds,
         NEW a \in Adapters,
         \/ addAdapterInternal(i, a)
         \/ enableSendAdapterInternal(i, c, a)
         \/ enableRecvAdapterInternal(i, c, a)
         \/ disableSendAdapterInternal(i, c, a)
         \/ disableRecvAdapterInternal(i, c, a)
  PROVE  RegistryTypeOK'
<1> USE DEF RegistryTypeOK
<1>1. CASE addAdapterInternal(i, a)
  <2>1. [registered |-> TRUE, index |-> registeredAdaptersLength(i)]
          \in AdapterInfo
    BY <1>1, LengthIsIndex DEF addAdapterInternal, AdapterInfo
  <2>2. Append(registeredAdapters[i], a) \in Seq(Adapters)
    OBVIOUS
  <2>3. adapterInfos' \in [Integrators -> [Adapters -> AdapterInfo]]
    BY <1>1, <2>1 DEF addAdapterInternal
  <2> QED BY <1>1, <2>2, <2>3 DEF addAdapterInternal
<1>2. CASE enableSendAdapterInternal(i, c, a)
  <2> DEFINE entry == [addr |-> a, index |-> adapterInfos[i][a].index]
  <2>1. entry \in PerSendAdapterInfo
    BY DEF AdapterInfo, PerSendAdapterInfo
  <2>2. Append(sendAdapterArray[i][c], entry) \in Seq(PerSendAdapterInfo)
    BY <2>1
  <2> HIDE DEF entry
  <2>3. sendAdapterArray' \in
          [Integrators -> [ChainIds -> Seq(PerSendAdapterInfo)]]
    BY <1>2, <2>2 DEF enableSendAdapterInternal, entry
  <2>4. indexedSend' \in [Integrators -> [ChainIds -> SUBSET Adapters]]
    BY <1>2 DEF enableSendAdapterInternal
  <2> QED BY <1>2, <2>3, <2>4 DEF enableSendAdapterInternal
<1>3. CASE enableRecvAdapterInternal(i, c, a)
  BY <1>3 DEF enableRecvAdapterInternal, Bit
<1>4. CASE disableSendAdapterInternal(i, c, a)
  <2> DEFINE array == sendAdapterArray[i][c]
  <2>1. PICK n \in 1 .. Len(array) :
          sendAdapterArray' = [sendAdapterArray EXCEPT ![i][c] =
                                 SwapAndPop(array, n)]
    BY <1>4 DEF disableSendAdapterInternal
  <2>2. SwapAndPop(array, n) \in Seq(PerSendAdapterInfo)
    BY SwapAndPopIs
  <2>3. sendAdapterArray' \in
          [Integrators -> [ChainIds -> Seq(PerSendAdapterInfo)]]
    BY <2>1, <2>2
  <2>4. indexedSend' \in [Integrators -> [ChainIds -> SUBSET Adapters]]
    BY <1>4 DEF disableSendAdapterInternal
  <2> QED BY <1>4, <2>3, <2>4 DEF disableSendAdapterInternal
<1>5. CASE disableRecvAdapterInternal(i, c, a)
  BY <1>5 DEF disableRecvAdapterInternal
<1> QED BY <1>1, <1>2, <1>3, <1>4, <1>5

\* Changing the fields of an AttestationInfo keeps its type.
LEMMA AttestationInfoTyped ==
  ASSUME NEW info \in AttestationInfo
  PROVE  /\ info.executed \in BOOLEAN
         /\ info.numAttested \in 0 .. 255
         /\ info.attestedAdapters \in SUBSET Index
         /\ [info EXCEPT !.executed = TRUE] \in AttestationInfo
         /\ \A bits \in SUBSET Index, n \in 0 .. 255 :
              [info EXCEPT !.attestedAdapters = bits, !.numAttested = n]
                \in AttestationInfo
<1>1. PICK Counts : Counts = 0 .. 255
  OBVIOUS
<1>2. AttestationInfo = [executed : BOOLEAN, numAttested : Counts,
                         attestedAdapters : SUBSET Index]
  BY <1>1 DEF AttestationInfo
<1>3. /\ info.executed \in BOOLEAN
      /\ info.numAttested \in Counts
      /\ info.attestedAdapters \in SUBSET Index
      /\ [info EXCEPT !.executed = TRUE] \in AttestationInfo
      /\ \A bits \in SUBSET Index, n \in Counts :
           [info EXCEPT !.attestedAdapters = bits, !.numAttested = n]
             \in AttestationInfo
  BY <1>2
<1> QED BY <1>1, <1>3

\* The storage starts well typed.
LEMMA InitIsTyped == Init => TypeOK
BY EndpointAssumption, RegistryAssumption
DEF Init, TypeOK, RegistryInit, RegistryTypeOK, AttestationInfo,
  AdapterInfo, Index

\* Every call keeps it well typed.
LEMMA TypeStep ==
  ASSUME TypeOK, [Next]_vars
  PROVE  TypeOK'
<1> USE DEF TypeOK
<1>1. ASSUME NEW i \in Integrators, NEW u \in Users, register(i, u)
      PROVE  TypeOK'
  BY <1>1, EndpointAssumption
  DEF register, registryVars, inboxVars, RegistryTypeOK
<1>2. ASSUME NEW i \in Integrators, NEW sender \in Callers,
             AdminCall(i, sender)
      PROVE  TypeOK'
  <2>1. /\ UNCHANGED <<registryVars, inboxVars, isInitialized>>
        /\ admin' \in [Integrators -> Users]
        /\ pending_admin' \in [Integrators -> Users]
    BY <1>2, EndpointAssumption
    DEF AdminCall, updateAdmin, transferAdmin, claimAdmin, discardAdmin,
      Callers
  <2> QED BY <2>1 DEF registryVars, inboxVars, RegistryTypeOK
<1>3. ASSUME NEW i \in Integrators, NEW sender \in Callers,
             AdapterCall(i, sender)
      PROVE  TypeOK'
  <2>1. RegistryTypeOK'
    <3>1. ASSUME NEW a \in Adapters, addAdapter(i, sender, a)
          PROVE  RegistryTypeOK'
      <4>1. CASE ChainIds = {}
        BY <3>1, <4>1, LengthIsIndex
        DEF addAdapter, addAdapterInternal, RegistryTypeOK, AdapterInfo
      <4>2. CASE ChainIds # {}
        BY <3>1, <4>2, RegistryTypeStep DEF addAdapter
      <4> QED BY <4>1, <4>2
    <3>2. ASSUME NEW c \in ChainIds, NEW a \in Adapters,
                 \/ enableSendAdapter(i, sender, c, a)
                 \/ enableRecvAdapter(i, sender, c, a)
                 \/ disableSendAdapter(i, sender, c, a)
                 \/ disableRecvAdapter(i, sender, c, a)
          PROVE  RegistryTypeOK'
      BY <3>2, RegistryTypeStep
      DEF enableSendAdapter, enableRecvAdapter, disableSendAdapter,
        disableRecvAdapter
    <3> QED BY <1>3, <3>1, <3>2 DEF AdapterCall
  <2>2. UNCHANGED <<roleVars, inboxVars>>
    BY <1>3 DEF AdapterCall, addAdapter, enableSendAdapter,
      enableRecvAdapter, disableSendAdapter, disableRecvAdapter
  <2> QED BY <2>1, <2>2 DEF roleVars, inboxVars
<1>4. ASSUME NEW m \in Messages, NEW a \in Adapters, attestMessage(m, a)
      PROVE  TypeOK'
  <2> DEFINE info == attestationInfo[m]
             bits == info.attestedAdapters
                       \cup Bit(adapterInfos[m.dst_addr][a].index)
             updated == [info EXCEPT !.attestedAdapters = bits,
                                     !.numAttested = @ + 1]
  <2>1. info \in AttestationInfo /\ bits \in SUBSET Index
    BY AttestationInfoTyped DEF Bit
  <2>2. PICK num \in 0 .. 255 : num = info.numAttested
    BY <2>1, AttestationInfoTyped
  <2>3. num < 255
    BY <1>4, <2>2 DEF attestMessage
  <2>4. updated \in AttestationInfo
    <3>1. num + 1 \in 0 .. 255
      BY <2>3
    <3>2. updated = [info EXCEPT !.attestedAdapters = bits,
                                 !.numAttested = num + 1]
      BY <2>2
    <3> HIDE DEF info, bits, updated
    <3> QED BY <2>1, <3>1, <3>2 DEF AttestationInfo
  <2>5. attestationInfo' = [attestationInfo EXCEPT ![m] = updated]
    BY <1>4, <2>1 DEF attestMessage, AttestationInfo
  <2> HIDE DEF updated
  <2>6. attestationInfo' \in [Messages -> AttestationInfo]
    BY <2>4, <2>5
  <2>7. RegistryTypeOK'
    BY <1>4 DEF attestMessage, registryVars, RegistryTypeOK
  <2>8. UNCHANGED <<isInitialized, admin, pending_admin, messageReceived,
                    deliveries>>
    BY <1>4 DEF attestMessage, roleVars
  <2>9. attestedBy' \subseteq Messages \X Adapters
    BY <1>4 DEF attestMessage
  <2> QED BY <2>6, <2>7, <2>8, <2>9
<1>5. ASSUME NEW m \in Messages, NEW i \in Integrators, recvMessage(m, i)
      PROVE  TypeOK'
  <2>1. attestationInfo' \in [Messages -> AttestationInfo]
    <3> DEFINE updated == [attestationInfo[m] EXCEPT !.executed = TRUE]
    <3>1. updated \in AttestationInfo
      BY AttestationInfoTyped
    <3>2. attestationInfo' = [attestationInfo EXCEPT ![m] = updated]
      BY <1>5 DEF recvMessage
    <3> QED BY <3>1, <3>2
  <2>2. deliveries' \in [Messages -> Seq({"recv", "exec"})]
    BY <1>5 DEF recvMessage
  <2> QED
    BY <1>5, <2>1, <2>2
    DEF recvMessage, registryVars, roleVars, RegistryTypeOK
<1>6. ASSUME NEW m \in Messages, NEW i \in Integrators, execMessage(m, i)
      PROVE  TypeOK'
  <2>1. attestationInfo' \in [Messages -> AttestationInfo]
    <3> DEFINE updated == [attestationInfo[m] EXCEPT !.executed = TRUE]
    <3>1. updated \in AttestationInfo
      BY AttestationInfoTyped
    <3>2. attestationInfo' = [attestationInfo EXCEPT ![m] = updated]
      BY <1>6 DEF execMessage
    <3> QED BY <3>1, <3>2
  <2>2. deliveries' \in [Messages -> Seq({"recv", "exec"})]
    BY <1>6 DEF execMessage
  <2> QED
    BY <1>6, <2>1, <2>2
    DEF execMessage, registryVars, roleVars, RegistryTypeOK
<1>7. CASE UNCHANGED vars
  BY <1>7 DEF vars, RegistryTypeOK
<1> QED
  BY <1>1, <1>2, <1>3, <1>4, <1>5, <1>6, <1>7 DEF Next, MessageCall

\* The storage layout and the histories are well typed.
THEOREM TypeCorrect == Spec => []TypeOK
BY InitIsTyped, TypeStep, PTL DEF Spec

-----------------------------------------------------------------------------
(* The registry *)

\* RegistryIndexesAgree for one integrator.
IndexesOk(array, infos) ==
  /\ Len(array) <= MAX_ADAPTERS
  /\ \A a \in Adapters, n \in 1 .. Len(array) :
       array[n] = a <=> infos[a] = [registered |-> TRUE, index |-> n - 1]
  /\ \A a \in Adapters : infos[a].registered => infos[a].index < Len(array)

\* An AdapterInfo is its two fields.
LEMMA RegisteredInfo ==
  ASSUME NEW info \in AdapterInfo
  PROVE  /\ info.index \in Index
         /\ info.registered =>
              info = [registered |-> TRUE, index |-> info.index]
BY DEF AdapterInfo

\* Two registered adapters with the same index are the same adapter.
LEMMA IndexIsInjective ==
  ASSUME NEW array \in Seq(Adapters), NEW infos \in [Adapters -> AdapterInfo],
         IndexesOk(array, infos), NEW a \in Adapters, NEW b \in Adapters,
         infos[a].registered, infos[b].registered,
         infos[a].index = infos[b].index
  PROVE  a = b
<1>1. PICK k \in Nat : k = infos[a].index /\ k < Len(array)
  BY RegisteredInfo DEF IndexesOk, Index
<1>2. PICK n \in 1 .. Len(array) : n - 1 = k
  <2>1. k + 1 \in 1 .. Len(array) /\ (k + 1) - 1 = k
    BY <1>1
  <2> QED BY <2>1
<1>3. /\ infos[a] = [registered |-> TRUE, index |-> n - 1]
      /\ infos[b] = [registered |-> TRUE, index |-> n - 1]
  BY <1>1, <1>2, RegisteredInfo
<1>4. array[n] = a /\ array[n] = b
  BY <1>3 DEF IndexesOk
<1> QED BY <1>4

\* Appending an adapter under the next index keeps the agreement.
LEMMA AddKeepsIndexes ==
  ASSUME NEW array \in Seq(Adapters), NEW infos \in [Adapters -> AdapterInfo],
         IndexesOk(array, infos), NEW a \in Adapters, ~infos[a].registered,
         Len(array) < MAX_ADAPTERS
  PROVE  IndexesOk(Append(array, a),
                   [infos EXCEPT ![a] = [registered |-> TRUE,
                                         index |-> Len(array)]])
<1> DEFINE new   == [registered |-> TRUE, index |-> Len(array)]
           after == [infos EXCEPT ![a] = new]
           more  == Append(array, a)
<1>1. PICK len \in Nat : len = Len(array)
  OBVIOUS
<1>2. /\ Len(more) = len + 1 /\ more[len + 1] = a
      /\ \A n \in 1 .. len : more[n] = array[n]
  BY <1>1
<1>3. new.registered = TRUE /\ new.index = len
  BY <1>1
<1>4. after[a] = new /\ \A b \in Adapters : b # a => after[b] = infos[b]
  OBVIOUS
<1>5. len + 1 <= MAX_ADAPTERS
  BY <1>1, RegistryAssumption
<1> HIDE DEF new, after, more
<1>6. ASSUME NEW b \in Adapters, NEW n \in 1 .. len + 1
      PROVE  more[n] = b <=> after[b] = [registered |-> TRUE, index |-> n - 1]
  <2>1. CASE n = len + 1
    <3>1. n - 1 = len
      BY <2>1
    <3>2. CASE b = a
      BY <1>1, <1>2, <1>4, <2>1, <3>1, <3>2 DEF new
    <3>3. CASE b # a
      <4>1. infos[b] # [registered |-> TRUE, index |-> len]
        <5> SUFFICES ASSUME infos[b] = [registered |-> TRUE, index |-> len]
                     PROVE  FALSE
          OBVIOUS
        <5>1. infos[b].registered /\ infos[b].index = len
          OBVIOUS
        <5> QED BY <1>1, <5>1 DEF IndexesOk
      <4> QED BY <1>2, <1>4, <2>1, <3>1, <3>3, <4>1
    <3> QED BY <3>2, <3>3
  <2>2. CASE n # len + 1
    <3>1. n \in 1 .. Len(array) /\ more[n] = array[n] /\ n - 1 # len
      BY <1>1, <1>2, <2>2
    <3>2. array[n] = b <=> infos[b] = [registered |-> TRUE, index |-> n - 1]
      BY <3>1 DEF IndexesOk
    <3>3. CASE b = a
      <4>1. infos[a] # [registered |-> TRUE, index |-> n - 1]
        <5> SUFFICES ASSUME infos[a] = [registered |-> TRUE, index |-> n - 1]
                     PROVE  FALSE
          OBVIOUS
        <5>1. infos[a].registered
          OBVIOUS
        <5> QED BY <5>1
      <4>2. new # [registered |-> TRUE, index |-> n - 1]
        <5> SUFFICES ASSUME new = [registered |-> TRUE, index |-> n - 1]
                     PROVE  FALSE
          OBVIOUS
        <5>1. new.index = n - 1
          OBVIOUS
        <5> QED BY <1>3, <3>1, <5>1
      <4> QED BY <1>4, <3>1, <3>2, <3>3, <4>1, <4>2
    <3>4. CASE b # a
      BY <1>4, <3>1, <3>2, <3>4
    <3> QED BY <3>3, <3>4
  <2> QED BY <2>1, <2>2
<1>7. ASSUME NEW b \in Adapters, after[b].registered
      PROVE  after[b].index < len + 1
  <2>1. CASE b = a
    BY <1>3, <1>4, <2>1
  <2>2. CASE b # a
    <3>1. PICK k \in Nat : k = infos[b].index
      BY RegisteredInfo DEF Index
    <3>2. infos[b].registered
      BY <1>4, <1>7, <2>2
    <3>3. k < len
      BY <1>1, <3>1, <3>2 DEF IndexesOk
    <3>4. k < len + 1
      BY <3>3
    <3> QED BY <1>4, <2>2, <3>1, <3>4
  <2> QED BY <2>1, <2>2
<1>8. IndexesOk(more, after)
  BY <1>2, <1>5, <1>6, <1>7 DEF IndexesOk
<1> QED BY <1>8 DEF more, after, new

\* SendArrayMatchesEvents for one integrator and chain.
ArrayOk(array, enabled, infos) ==
  /\ \A a : a \in enabled <=> \E n \in 1 .. Len(array) : array[n].addr = a
  /\ \A m, n \in 1 .. Len(array) : array[m].addr = array[n].addr => m = n
  /\ \A n \in 1 .. Len(array) :
       infos[array[n].addr] = [registered |-> TRUE, index |-> array[n].index]

\* Enabling appends an adapter that is not in the array.
LEMMA EnableKeepsArray ==
  ASSUME NEW array \in Seq(PerSendAdapterInfo), NEW enabled,
         NEW infos \in [Adapters -> AdapterInfo],
         ArrayOk(array, enabled, infos),
         NEW a \in Adapters, infos[a].registered,
         ~ \E n \in 1 .. Len(array) : array[n].addr = a
  PROVE  ArrayOk(Append(array, [addr |-> a, index |-> infos[a].index]),
                 enabled \cup {a}, infos)
<1> DEFINE entry == [addr |-> a, index |-> infos[a].index]
           more  == Append(array, entry)
<1>1. /\ entry \in PerSendAdapterInfo
      /\ entry.addr = a /\ entry.index = infos[a].index
  BY RegisteredInfo DEF PerSendAdapterInfo
<1>2. PICK len \in Nat : len = Len(array)
  OBVIOUS
<1> HIDE DEF entry
<1>3. /\ Len(more) = len + 1 /\ more[len + 1] = entry
      /\ \A n \in 1 .. len : more[n] = array[n]
  BY <1>1, <1>2
<1>4. \A n \in 1 .. len + 1 : n = len + 1 \/ n \in 1 .. len
  OBVIOUS
<1>5. infos[a] = [registered |-> TRUE, index |-> infos[a].index]
  BY RegisteredInfo
<1> HIDE DEF more
<1>6. \A b : b \in enabled \cup {a} <=>
        \E n \in 1 .. len + 1 : more[n].addr = b
  <2> SUFFICES ASSUME NEW b
               PROVE  b \in enabled \cup {a} <=>
                        \E n \in 1 .. len + 1 : more[n].addr = b
    OBVIOUS
  <2>1. b \in enabled <=> \E n \in 1 .. len : array[n].addr = b
    BY <1>2 DEF ArrayOk
  <2>2. 1 .. len \subseteq 1 .. len + 1 /\ len + 1 \in 1 .. len + 1
    OBVIOUS
  <2>3. b = a <=> more[len + 1].addr = b
    BY <1>1, <1>3
  <2> QED BY <1>3, <1>4, <2>1, <2>2, <2>3
<1>7. \A m, n \in 1 .. len + 1 : more[m].addr = more[n].addr => m = n
  BY <1>1, <1>2, <1>3, <1>4 DEF ArrayOk
<1>8. \A n \in 1 .. len + 1 :
        infos[more[n].addr] = [registered |-> TRUE, index |-> more[n].index]
  <2>1. infos[entry.addr] = [registered |-> TRUE, index |-> entry.index]
    BY <1>1, <1>5
  <2>2. \A n \in 1 .. len : infos[array[n].addr]
                              = [registered |-> TRUE, index |-> array[n].index]
    BY <1>2 DEF ArrayOk
  <2> QED BY <1>3, <1>4, <2>1, <2>2
<1>9. ArrayOk(more, enabled \cup {a}, infos)
  <2>1. \A b : b \in enabled \cup {a} <=>
          \E n \in 1 .. Len(more) : more[n].addr = b
    BY <1>3, <1>6
  <2>2. \A m, n \in 1 .. Len(more) : more[m].addr = more[n].addr => m = n
    BY <1>3, <1>7
  <2>3. \A n \in 1 .. Len(more) :
          infos[more[n].addr] = [registered |-> TRUE, index |-> more[n].index]
    BY <1>3, <1>8
  <2> QED BY <2>1, <2>2, <2>3 DEF ArrayOk
<1> QED BY <1>9 DEF more, entry

\* Disabling removes the one entry of the adapter, wherever it is.
LEMMA DisableKeepsArray ==
  ASSUME NEW array \in Seq(PerSendAdapterInfo), NEW enabled, NEW infos,
         ArrayOk(array, enabled, infos), NEW n \in 1 .. Len(array)
  PROVE  ArrayOk(SwapAndPop(array, n), enabled \ {array[n].addr}, infos)
<1> DEFINE less     == SwapAndPop(array, n)
           place(m) == IF m = n THEN Len(array) ELSE m
<1>1. PICK len \in Nat : len = Len(array) /\ n \in 1 .. len
  OBVIOUS
<1>2. Len(less) = len - 1 /\ \A m \in 1 .. len - 1 : less[m] = array[place(m)]
  <2>1. /\ Len(less) = Len(array) - 1
        /\ \A m \in 1 .. Len(array) - 1 :
             less[m] = IF m = n THEN array[Len(array)] ELSE array[m]
    BY SwapAndPopIs
  <2> HIDE DEF less
  <2> QED BY <1>1, <2>1
<1>3. /\ \A m \in 1 .. len - 1 : place(m) \in 1 .. len /\ place(m) # n
      /\ \A k, m \in 1 .. len - 1 : place(k) = place(m) => k = m
      /\ \A k \in 1 .. len : k # n => \E m \in 1 .. len - 1 : place(m) = k
  <2>1. ASSUME NEW k \in 1 .. len, k # n
        PROVE  \E m \in 1 .. len - 1 : place(m) = k
    <3>1. CASE k = len
      BY <1>1, <2>1, <3>1
    <3>2. CASE k # len
      BY <1>1, <2>1, <3>2
    <3> QED BY <3>1, <3>2
  <2>2. \A m \in 1 .. len - 1 : place(m) \in 1 .. len /\ place(m) # n
    BY <1>1
  <2>3. \A k, m \in 1 .. len - 1 : place(k) = place(m) => k = m
    BY <1>1
  <2> QED BY <2>1, <2>2, <2>3
<1> HIDE DEF less, place
<1>4. \A a : a \in enabled \ {array[n].addr} <=>
        \E m \in 1 .. len - 1 : less[m].addr = a
  <2> SUFFICES ASSUME NEW a
               PROVE  a \in enabled \ {array[n].addr} <=>
                        \E m \in 1 .. len - 1 : less[m].addr = a
    OBVIOUS
  <2>1. a \in enabled <=> \E m \in 1 .. len : array[m].addr = a
    BY <1>1 DEF ArrayOk
  <2>2. \A m \in 1 .. len : array[m].addr = array[n].addr => m = n
    BY <1>1 DEF ArrayOk
  <2>3. ASSUME a \in enabled, a # array[n].addr
        PROVE  \E m \in 1 .. len - 1 : less[m].addr = a
    <3>1. PICK k \in 1 .. len : array[k].addr = a
      BY <2>1, <2>3
    <3>2. PICK m \in 1 .. len - 1 : place(m) = k
      BY <1>3, <2>3, <3>1
    <3> QED BY <1>2, <3>1, <3>2
  <2>4. ASSUME NEW m \in 1 .. len - 1, less[m].addr = a
        PROVE  a \in enabled /\ a # array[n].addr
    <3>1. array[place(m)].addr = a
      BY <1>2, <2>4
    <3>2. place(m) \in 1 .. len /\ place(m) # n
      BY <1>3
    <3> QED BY <2>1, <2>2, <3>1, <3>2
  <2> QED BY <2>3, <2>4
<1>5. \A k, m \in 1 .. len - 1 : less[k].addr = less[m].addr => k = m
  BY <1>1, <1>2, <1>3 DEF ArrayOk
<1>6. \A m \in 1 .. len - 1 :
        infos[less[m].addr] = [registered |-> TRUE, index |-> less[m].index]
  BY <1>1, <1>2, <1>3 DEF ArrayOk
<1>7. ArrayOk(less, enabled \ {array[n].addr}, infos)
  BY <1>2, <1>4, <1>5, <1>6 DEF ArrayOk
<1> QED BY <1>7 DEF less

\* Both agreements, for one integrator.
RegistryInv(i) ==
  /\ IndexesOk(registeredAdapters[i], adapterInfos[i])
  /\ \A c \in ChainIds :
       ArrayOk(sendAdapterArray[i][c], indexedSend[i][c], adapterInfos[i])

\* Nothing ever takes an index away from a registered adapter.
KeepsIndexes ==
  \A i \in Integrators, a \in Adapters :
    adapterInfos[i][a].registered => adapterInfos'[i][a] = adapterInfos[i][a]

\* A registry function for integrator i keeps both agreements, and changes
\* nothing of the other integrators.
LEMMA RegistryStep ==
  ASSUME TypeOK, \A j \in Integrators : RegistryInv(j),
         NEW i \in Integrators, NEW sender, AdapterCall(i, sender)
  PROVE  /\ \A j \in Integrators : RegistryInv(j)'
         /\ \A j \in Integrators : j # i => UNCHANGED ConfigOf(j)
         /\ KeepsIndexes
<1> USE DEF TypeOK, RegistryTypeOK
<1>1. ASSUME NEW j \in Integrators,
             UNCHANGED <<registeredAdapters[j], adapterInfos[j],
                         sendAdapterArray[j], indexedSend[j]>>
      PROVE  RegistryInv(j)'
  BY <1>1 DEF RegistryInv
<1>2. ASSUME NEW a \in Adapters, addAdapterInternal(i, a)
      PROVE  /\ \A j \in Integrators : RegistryInv(j)'
             /\ \A j \in Integrators : j # i => UNCHANGED ConfigOf(j)
             /\ KeepsIndexes
  <2> DEFINE array == registeredAdapters[i]
             infos == adapterInfos[i]
             after == [infos EXCEPT ![a] = [registered |-> TRUE,
                                            index |-> Len(array)]]
  <2>1. PICK len \in Nat : len = Len(array) /\ len <= MAX_ADAPTERS
    BY DEF RegistryInv, IndexesOk
  <2>2. uint8(len) = len
    BY <2>1, Uint8Is, RegistryAssumption
  <2>3. len < MAX_ADAPTERS /\ ~infos[a].registered
    BY <1>2, <2>1, <2>2 DEF addAdapterInternal, hasRoom
  <2>4. /\ adapterInfos' = [adapterInfos EXCEPT ![i] = after]
        /\ registeredAdapters' =
             [registeredAdapters EXCEPT ![i] = Append(array, a)]
        /\ UNCHANGED <<sendAdapterArray, recvAdapterBitmap, indexedSend>>
    BY <1>2, <2>1, <2>2 DEF addAdapterInternal, registeredAdaptersLength
  <2>5. IndexesOk(Append(array, a), after)
    BY <2>1, <2>3, AddKeepsIndexes DEF RegistryInv
  <2>6. \A b \in Adapters : infos[b].registered => after[b] = infos[b]
    BY <2>3
  <2>7. adapterInfos'[i] = after /\ registeredAdapters'[i] = Append(array, a)
    BY <2>4
  <2> HIDE DEF after
  <2>8. ASSUME NEW c \in ChainIds
        PROVE  ArrayOk(sendAdapterArray[i][c], indexedSend[i][c], after)
    <3> DEFINE entries == sendAdapterArray[i][c]
    <3>1. ArrayOk(entries, indexedSend[i][c], infos)
      BY DEF RegistryInv
    <3>2. ASSUME NEW n \in 1 .. Len(entries)
          PROVE  after[entries[n].addr] = infos[entries[n].addr]
      <4>1. entries[n].addr \in Adapters
        <5>1. entries \in Seq(PerSendAdapterInfo)
          OBVIOUS
        <5>2. entries[n] \in PerSendAdapterInfo
          BY <5>1
        <5> QED BY <5>2 DEF PerSendAdapterInfo
      <4>2. infos[entries[n].addr]
              = [registered |-> TRUE, index |-> entries[n].index]
        BY <3>1 DEF ArrayOk
      <4>3. infos[entries[n].addr].registered
        BY <4>2
      <4> QED BY <2>6, <4>1, <4>3
    <3> QED BY <3>1, <3>2 DEF ArrayOk
  <2>9. RegistryInv(i)'
    BY <2>4, <2>5, <2>7, <2>8 DEF RegistryInv
  <2>10. \A j \in Integrators : j # i =>
           /\ UNCHANGED <<registeredAdapters[j], adapterInfos[j],
                          sendAdapterArray[j], indexedSend[j]>>
           /\ UNCHANGED ConfigOf(j)
    BY <2>4 DEF ConfigOf
  <2>11. KeepsIndexes
    BY <2>4, <2>6, <2>7 DEF KeepsIndexes
  <2> QED BY <1>1, <2>9, <2>10, <2>11
<1>3. ASSUME NEW c \in ChainIds, NEW array, NEW enabled,
             sendAdapterArray' = [sendAdapterArray EXCEPT ![i][c] = array],
             indexedSend' = [indexedSend EXCEPT ![i][c] = enabled],
             ArrayOk(array, enabled, adapterInfos[i]),
             UNCHANGED <<adapterInfos, registeredAdapters, recvAdapterBitmap>>
      PROVE  /\ \A j \in Integrators : RegistryInv(j)'
             /\ \A j \in Integrators : j # i => UNCHANGED ConfigOf(j)
             /\ KeepsIndexes
  <2>1. /\ sendAdapterArray'[i][c] = array /\ indexedSend'[i][c] = enabled
        /\ \A d \in ChainIds : d # c =>
             /\ sendAdapterArray'[i][d] = sendAdapterArray[i][d]
             /\ indexedSend'[i][d] = indexedSend[i][d]
        /\ \A j \in Integrators : j # i =>
             UNCHANGED <<sendAdapterArray[j], indexedSend[j]>>
    BY <1>3
  <2>2. RegistryInv(i)'
    BY <1>3, <2>1 DEF RegistryInv
  <2>3. \A j \in Integrators : j # i => UNCHANGED ConfigOf(j)
    BY <1>3, <2>1 DEF ConfigOf
  <2> QED BY <1>1, <1>3, <2>1, <2>2, <2>3 DEF KeepsIndexes
<1>4. ASSUME NEW c \in ChainIds, NEW a \in Adapters,
             enableSendAdapterInternal(i, c, a)
      PROVE  /\ \A j \in Integrators : RegistryInv(j)'
             /\ \A j \in Integrators : j # i => UNCHANGED ConfigOf(j)
             /\ KeepsIndexes
  <2> DEFINE array   == sendAdapterArray[i][c]
             enabled == indexedSend[i][c]
             more    == Append(array, [addr |-> a,
                                       index |-> adapterInfos[i][a].index])
  <2>1. /\ adapterInfos[i][a].registered
        /\ ~ \E n \in 1 .. Len(array) : array[n].addr = a
        /\ sendAdapterArray' = [sendAdapterArray EXCEPT ![i][c] = more]
        /\ indexedSend' = [indexedSend EXCEPT ![i][c] = enabled \cup {a}]
        /\ UNCHANGED <<adapterInfos, registeredAdapters, recvAdapterBitmap>>
    BY <1>4 DEF enableSendAdapterInternal, onlyRegisteredAdapter,
      isRegistered, isSendAdapterEnabledForChain
  <2>2. ArrayOk(array, enabled, adapterInfos[i])
    BY DEF RegistryInv
  <2>3. ArrayOk(more, enabled \cup {a}, adapterInfos[i])
    <3>1. /\ array \in Seq(PerSendAdapterInfo)
          /\ adapterInfos[i] \in [Adapters -> AdapterInfo]
      BY DEF TypeOK, RegistryTypeOK
    <3> HIDE DEF array, enabled
    <3> QED BY <2>1, <2>2, <3>1, EnableKeepsArray
  <2> HIDE DEF more
  <2> QED BY <1>3, <2>1, <2>3
<1>5. ASSUME NEW c \in ChainIds, NEW a \in Adapters,
             disableSendAdapterInternal(i, c, a)
      PROVE  /\ \A j \in Integrators : RegistryInv(j)'
             /\ \A j \in Integrators : j # i => UNCHANGED ConfigOf(j)
             /\ KeepsIndexes
  <2> DEFINE array   == sendAdapterArray[i][c]
             enabled == indexedSend[i][c]
  <2>1. PICK n \in 1 .. Len(array) :
          /\ array[n].addr = a
          /\ sendAdapterArray' = [sendAdapterArray EXCEPT ![i][c] =
                                    SwapAndPop(array, n)]
    BY <1>5 DEF disableSendAdapterInternal
  <2>2. /\ indexedSend' = [indexedSend EXCEPT ![i][c] = enabled \ {a}]
        /\ UNCHANGED <<adapterInfos, registeredAdapters, recvAdapterBitmap>>
    BY <1>5 DEF disableSendAdapterInternal
  <2>3. ArrayOk(array, enabled, adapterInfos[i])
    BY DEF RegistryInv
  <2>4. ArrayOk(SwapAndPop(array, n), enabled \ {a}, adapterInfos[i])
    BY <2>1, <2>3, DisableKeepsArray
  <2> QED BY <1>3, <2>1, <2>2, <2>4
<1>6. ASSUME NEW c \in ChainIds, NEW a \in Adapters,
             \/ enableRecvAdapterInternal(i, c, a)
             \/ disableRecvAdapterInternal(i, c, a)
      PROVE  /\ \A j \in Integrators : RegistryInv(j)'
             /\ \A j \in Integrators : j # i => UNCHANGED ConfigOf(j)
             /\ KeepsIndexes
  <2>1. /\ UNCHANGED <<adapterInfos, registeredAdapters, sendAdapterArray,
                       indexedSend>>
        /\ \A j \in Integrators : j # i => UNCHANGED recvAdapterBitmap[j]
    BY <1>6 DEF enableRecvAdapterInternal, disableRecvAdapterInternal
  <2> QED BY <1>1, <2>1 DEF ConfigOf, KeepsIndexes
<1> QED
  BY <1>2, <1>4, <1>5, <1>6
  DEF AdapterCall, addAdapter, enableSendAdapter, enableRecvAdapter,
    disableSendAdapter, disableRecvAdapter

\* The other calls leave the registry alone.
LEMMA OthersLeaveRegistry ==
  ASSUME [Next]_vars,
         ~ \E i \in Integrators, sender \in Callers : AdapterCall(i, sender)
  PROVE  UNCHANGED registryVars
BY DEF Next, register, AdminCall, updateAdmin, transferAdmin, claimAdmin,
  discardAdmin, MessageCall, attestMessage, recvMessage, execMessage, vars,
  registryVars

\* Every step keeps both agreements and every index.
LEMMA StepKeepsRegistry ==
  ASSUME TypeOK, \A i \in Integrators : RegistryInv(i), [Next]_vars
  PROVE  (\A i \in Integrators : RegistryInv(i)') /\ KeepsIndexes
<1>1. CASE \E i \in Integrators, sender \in Callers : AdapterCall(i, sender)
  BY <1>1, RegistryStep
<1>2. CASE UNCHANGED registryVars
  BY <1>2 DEF registryVars, RegistryInv, KeepsIndexes
<1> QED BY <1>1, <1>2, OthersLeaveRegistry

\* Both agreements hold initially.
LEMMA InitRegistry == Init => \A i \in Integrators : RegistryInv(i)
<1> SUFFICES ASSUME Init, NEW i \in Integrators PROVE RegistryInv(i)
  OBVIOUS
<1>1. IndexesOk(registeredAdapters[i], adapterInfos[i])
  BY RegistryAssumption DEF Init, RegistryInit, IndexesOk
<1>2. ASSUME NEW c \in ChainIds
      PROVE  ArrayOk(sendAdapterArray[i][c], indexedSend[i][c],
                     adapterInfos[i])
  BY DEF Init, RegistryInit, ArrayOk
<1> QED BY <1>1, <1>2 DEF RegistryInv

\* Both agreements hold in every reachable state.
LEMMA RegistryInvariant == Spec => [](\A i \in Integrators : RegistryInv(i))
<1>1. TypeOK /\ (\A i \in Integrators : RegistryInv(i)) /\ [Next]_vars
        => (\A i \in Integrators : RegistryInv(i))'
  BY StepKeepsRegistry
<1> QED BY <1>1, InitRegistry, TypeCorrect, PTL DEF Spec

\* What both agreements say, as the properties state it.
LEMMA RegistryAgrees ==
  ASSUME \A i \in Integrators : RegistryInv(i)
  PROVE  RegistryIndexesAgree /\ SendArrayMatchesEvents
<1>1. RegistryIndexesAgree
  BY DEF RegistryInv, IndexesOk, RegistryIndexesAgree
<1>2. SendArrayMatchesEvents
  <2> SUFFICES ASSUME NEW i \in Integrators, NEW c \in ChainIds
               PROVE  LET array == sendAdapterArray[i][c] IN
                      {array[n].addr : n \in 1 .. Len(array)}
                        = indexedSend[i][c]
    BY DEF RegistryInv, ArrayOk, SendArrayMatchesEvents
  <2>1. ArrayOk(sendAdapterArray[i][c], indexedSend[i][c], adapterInfos[i])
    BY DEF RegistryInv
  <2> QED BY <2>1 DEF ArrayOk
<1> QED BY <1>1, <1>2

\* Indices and the array of registered adapters agree, and the uint8 length
\* never wraps: the registry stays within the positions of a bitmap.
THEOREM IndexesAgree == Spec => []RegistryIndexesAgree
<1>1. (\A i \in Integrators : RegistryInv(i)) => RegistryIndexesAgree
  BY RegistryAgrees
<1> QED BY <1>1, RegistryInvariant, PTL

\* The send array holds, once each and under its own index, exactly the
\* adapters the events say are enabled: swap-and-pop loses and doubles none.
THEOREM SendArrayMatches == Spec => []SendArrayMatchesEvents
<1>1. (\A i \in Integrators : RegistryInv(i)) => SendArrayMatchesEvents
  BY RegistryAgrees
<1> QED BY <1>1, RegistryInvariant, PTL

\* The bits of a receive bitmap are the indices of the adapters the events say
\* are enabled, all of them registered.
BitsOk(bits, enabled, infos) ==
  /\ \A a \in enabled : infos[a].registered
  /\ \A x : x \in bits <=> \E a \in enabled : x = infos[a].index

\* That for every chain of an integrator.
RecvInv(i) == \A c \in ChainIds :
  BitsOk(recvAdapterBitmap[i][c], indexedRecv[i][c], adapterInfos[i])

\* An index has its bit.
LEMMA BitOfIndex ==
  ASSUME NEW x \in Index
  PROVE  Bit(x) = {x}
BY DEF Bit

\* Enabling and disabling an adapter change its bit and no other.
LEMMA RecvStep ==
  ASSUME RegistryTypeOK, \A j \in Integrators : RegistryInv(j) /\ RecvInv(j),
         NEW i \in Integrators, NEW c \in ChainIds, NEW a \in Adapters,
         \/ enableRecvAdapterInternal(i, c, a)
         \/ disableRecvAdapterInternal(i, c, a)
  PROVE  \A j \in Integrators : RecvInv(j)'
<1> DEFINE infos   == adapterInfos[i]
           enabled == indexedRecv[i][c]
           bits    == recvAdapterBitmap[i][c]
<1>1. /\ infos \in [Adapters -> AdapterInfo] /\ enabled \subseteq Adapters
      /\ registeredAdapters[i] \in Seq(Adapters)
      /\ recvAdapterBitmap \in [Integrators -> [ChainIds -> SUBSET Index]]
      /\ indexedRecv \in [Integrators -> [ChainIds -> SUBSET Adapters]]
  BY DEF RegistryTypeOK
<1>2. infos[a].registered /\ UNCHANGED adapterInfos
  BY DEF enableRecvAdapterInternal, disableRecvAdapterInternal,
    onlyRegisteredAdapter, isRegistered
<1>3. infos[a].index \in Index /\ Bit(infos[a].index) = {infos[a].index}
  BY <1>1, RegisteredInfo, BitOfIndex
<1>4. BitsOk(bits, enabled, infos)
  BY DEF RecvInv
<1>5. \A b \in enabled : infos[b].index = infos[a].index => b = a
  BY <1>1, <1>2, <1>4, IndexIsInjective DEF BitsOk, RegistryInv
<1>6. PICK newBits, newEnabled :
        /\ recvAdapterBitmap' = [recvAdapterBitmap EXCEPT ![i][c] = newBits]
        /\ indexedRecv' = [indexedRecv EXCEPT ![i][c] = newEnabled]
        /\ BitsOk(newBits, newEnabled, infos)
  <2>1. CASE enableRecvAdapterInternal(i, c, a)
    <3>1. BitsOk(bits \cup {infos[a].index}, enabled \cup {a}, infos)
      BY <1>2, <1>4 DEF BitsOk
    <3> QED BY <1>3, <2>1, <3>1 DEF enableRecvAdapterInternal
  <2>2. CASE disableRecvAdapterInternal(i, c, a)
    <3>1. BitsOk(bits \ {infos[a].index}, enabled \ {a}, infos)
      BY <1>4, <1>5 DEF BitsOk
    <3> QED BY <1>3, <2>2, <3>1 DEF disableRecvAdapterInternal
  <2> QED BY <2>1, <2>2
<1>7. ASSUME NEW j \in Integrators, NEW d \in ChainIds
      PROVE  BitsOk(recvAdapterBitmap'[j][d], indexedRecv'[j][d],
                    adapterInfos'[j])
  <2>1. CASE j = i /\ d = c
    BY <1>1, <1>2, <1>6, <2>1
  <2>2. CASE ~(j = i /\ d = c)
    <3>1. /\ recvAdapterBitmap'[j][d] = recvAdapterBitmap[j][d]
          /\ indexedRecv'[j][d] = indexedRecv[j][d]
      BY <1>1, <1>6, <2>2
    <3> QED BY <1>2, <3>1 DEF RecvInv
  <2> QED BY <2>1, <2>2
<1> QED BY <1>7 DEF RecvInv

\* Every step keeps the receive bitmaps in line with the events.
LEMMA StepKeepsRecv ==
  ASSUME TypeOK, \A j \in Integrators : RegistryInv(j) /\ RecvInv(j),
         [Next]_vars
  PROVE  \A j \in Integrators : RecvInv(j)'
<1>1. RegistryTypeOK /\ KeepsIndexes
  BY StepKeepsRegistry DEF TypeOK
<1>2. ASSUME UNCHANGED <<recvAdapterBitmap, indexedRecv>>
      PROVE  \A j \in Integrators : RecvInv(j)'
  <2> SUFFICES ASSUME NEW j \in Integrators, NEW c \in ChainIds
               PROVE  BitsOk(recvAdapterBitmap[j][c], indexedRecv[j][c],
                             adapterInfos'[j])
    BY <1>2 DEF RecvInv
  <2>1. BitsOk(recvAdapterBitmap[j][c], indexedRecv[j][c], adapterInfos[j])
    BY DEF RecvInv
  <2>2. \A a \in indexedRecv[j][c] : adapterInfos'[j][a] = adapterInfos[j][a]
    BY <1>1, <2>1 DEF BitsOk, KeepsIndexes, RegistryTypeOK
  <2> QED BY <2>1, <2>2 DEF BitsOk
<1>3. ASSUME NEW i \in Integrators, NEW sender \in Callers,
             AdapterCall(i, sender)
      PROVE  \A j \in Integrators : RecvInv(j)'
  <2>1. \/ \E c \in ChainIds, a \in Adapters :
             \/ enableRecvAdapterInternal(i, c, a)
             \/ disableRecvAdapterInternal(i, c, a)
        \/ UNCHANGED <<recvAdapterBitmap, indexedRecv>>
    BY <1>3
    DEF AdapterCall, addAdapter, enableSendAdapter, enableRecvAdapter,
      disableSendAdapter, disableRecvAdapter, addAdapterInternal,
      enableSendAdapterInternal, disableSendAdapterInternal
  <2> QED BY <1>1, <1>2, <2>1, RecvStep
<1> QED BY <1>2, <1>3, OthersLeaveRegistry DEF registryVars

\* They agree initially.
LEMMA InitRecv == Init => \A i \in Integrators : RecvInv(i)
BY DEF Init, RegistryInit, RecvInv, BitsOk

\* The loop of getRecvAdaptersByChain, when an adapter passes its test exactly
\* if the bit of its position is set: one entry per bit, in order of position.
LEMMA GetterLoop ==
  ASSUME NEW i \in Integrators, NEW c \in ChainIds,
         registeredAdapters[i] \in Seq(Adapters),
         recvAdapterBitmap[i][c] \subseteq Index,
         \A n \in 1 .. Len(registeredAdapters[i]) :
           isRecvAdapterEnabledForChain(i, c, registeredAdapters[i][n])
             <=> n - 1 \in recvAdapterBitmap[i][c]
  PROVE  LET all    == registeredAdapters[i]
             bits   == recvAdapterBitmap[i][c]
             result == getRecvAdaptersByChain(i, c)
         IN  /\ Len(result) = Cardinality({x \in bits : x < Len(all)})
             /\ \A a : (\E n \in 1 .. Len(result) : result[n] = a) <=>
                       \E n \in 1 .. Len(all) : n - 1 \in bits /\ all[n] = a
<1> DEFINE all  == registeredAdapters[i]
           bits == recvAdapterBitmap[i][c]
           k    == Len(all)
           V    == Seq(Adapters)
           On(n) == isRecvAdapterEnabledForChain(i, c, all[n])
           Is(f) == f = [n \in 0 .. k |->
                           IF n = 0 THEN <<>>
                           ELSE IF On(n) THEN Append(f[n - 1], all[n])
                                         ELSE f[n - 1]]
           Result == CHOOSE f : Is(f)
           step == [n \in 1 .. k |-> [r \in V |->
                      IF On(n) THEN Append(r, all[n]) ELSE r]]
<1>1. k \in Nat /\ \A n \in 1 .. k : all[n] \in Adapters
  OBVIOUS
<1>2. step \in [1 .. k -> [V -> V]] /\ <<>> \in V
  <2> HIDE DEF On
  <2> QED BY <1>1
<1>3. \E f : Is(f)
  <2>1. PICK f \in [0 .. k -> V] : Solves(f, k, <<>>, step)
    <3> HIDE DEF step, V, k
    <3> QED BY <1>1, <1>2, RecursionExists
  <2>2. ASSUME NEW n \in 1 .. k
        PROVE  f[n] = IF On(n) THEN Append(f[n - 1], all[n]) ELSE f[n - 1]
    <3>1. n - 1 \in 0 .. k
      OBVIOUS
    <3>2. f[n - 1] \in V
      BY <3>1
    <3> HIDE DEF V, On
    <3> QED BY <2>1, <3>2 DEF Solves
  <2>3. \A n \in 0 .. k : n = 0 \/ n \in 1 .. k
    OBVIOUS
  <2>4. f[0] = <<>>
    BY <2>1 DEF Solves
  <2> HIDE DEF On, V
  <2> QED BY <2>1, <2>2, <2>3, <2>4
<1>4. Is(Result)
  BY <1>3
<1>5. getRecvAdaptersByChain(i, c) = Result[k]
  BY DEF getRecvAdaptersByChain
<1> HIDE DEF Result
<1>6. /\ Result[0] = <<>>
      /\ \A n \in 1 .. k : Result[n] =
           IF On(n) THEN Append(Result[n - 1], all[n]) ELSE Result[n - 1]
  <2> HIDE DEF On
  <2>1. 0 \in 0 .. k /\ 1 .. k \subseteq 0 .. k /\ \A n \in 1 .. k : n # 0
    BY <1>1
  <2> QED BY <1>4, <2>1
<1>7. \A n \in 1 .. k : On(n) <=> n - 1 \in bits
  OBVIOUS
<1> HIDE DEF On, Is
<1> DEFINE Below(n) == {x \in bits : x < n}
           Good(n) == /\ Result[n] \in V
                      /\ Len(Result[n]) = Cardinality(Below(n))
                      /\ \A a : (\E m \in 1 .. Len(Result[n]) :
                                   Result[n][m] = a) <=>
                           \E m \in 1 .. n : m - 1 \in bits /\ all[m] = a
           S == {n \in 0 .. k : Good(n)}
<1>8. 0 \in S
  <2>1. \A x \in bits : x \in Nat
    BY RegistryAssumption DEF Index
  <2>2. Below(0) = {}
    BY <2>1
  <2>3. Cardinality(Below(0)) = 0
    BY <2>2, FS_EmptySet
  <2>4. <<>> \in V /\ Len(<<>>) = 0 /\ 1 .. 0 = {} /\ 0 \in 0 .. k
    BY <1>1
  <2> HIDE DEF Below, V, all, k
  <2>5. Good(0)
    BY <1>6, <2>3, <2>4
  <2> QED BY <2>4, <2>5
<1>9. ASSUME NEW n \in 1 .. k, n - 1 \in S PROVE n \in S
  <2>1. n \in Nat /\ n - 1 \in Nat /\ n \in 0 .. k /\ Good(n - 1)
    BY <1>1, <1>9
  <2>2. bits \subseteq Nat
    BY RegistryAssumption DEF Index
  <2>3. IsFiniteSet(Below(n - 1))
    <3>1. IsFiniteSet(Index)
      BY RegistryAssumption, FS_Interval DEF Index
    <3> QED BY <3>1, FS_Subset
  <2>4. \A m \in 1 .. n : m = n \/ m \in 1 .. n - 1
    BY <2>1
  <2>5. 1 .. n - 1 \subseteq 1 .. n /\ n \in 1 .. n
    BY <2>1
  <2>6. CASE n - 1 \in bits
    <3>1. Result[n] = Append(Result[n - 1], all[n])
      BY <1>6, <1>7, <2>6
    <3>2. Below(n) = Below(n - 1) \cup {n - 1} /\ n - 1 \notin Below(n - 1)
      <4>1. \A x \in Nat : x < n <=> x < n - 1 \/ x = n - 1
        OBVIOUS
      <4>2. n - 1 < n /\ ~(n - 1 < n - 1)
        BY <2>1
      <4> QED BY <2>2, <2>6, <4>1, <4>2
    <3>3. Cardinality(Below(n)) = Cardinality(Below(n - 1)) + 1
      BY <2>3, <3>2, FS_AddElement
    <3> HIDE DEF Below
    <3>4. PICK r \in V : r = Result[n - 1]
      BY <2>1
    <3>5. PICK len \in Nat : len = Len(r)
      OBVIOUS
    <3>6. /\ Append(r, all[n]) \in V /\ Len(Append(r, all[n])) = len + 1
          /\ Append(r, all[n])[len + 1] = all[n]
          /\ \A m \in 1 .. len : Append(r, all[n])[m] = r[m]
      BY <1>1, <3>4, <3>5
    <3>7. ASSUME NEW a
          PROVE  (\E m \in 1 .. len + 1 : Append(r, all[n])[m] = a) <=>
                   \E m \in 1 .. n : m - 1 \in bits /\ all[m] = a
      <4>1. (\E m \in 1 .. len : r[m] = a) <=>
              \E m \in 1 .. n - 1 : m - 1 \in bits /\ all[m] = a
        BY <2>1, <3>4, <3>5
      <4>2. (\E m \in 1 .. len + 1 : Append(r, all[n])[m] = a) <=>
              all[n] = a \/ \E m \in 1 .. len : r[m] = a
        <5>1. \A m \in 1 .. len + 1 : m = len + 1 \/ m \in 1 .. len
          OBVIOUS
        <5>2. 1 .. len \subseteq 1 .. len + 1 /\ len + 1 \in 1 .. len + 1
          OBVIOUS
        <5> QED BY <3>6, <5>1, <5>2
      <4>3. (\E m \in 1 .. n : m - 1 \in bits /\ all[m] = a) <=>
              all[n] = a \/ \E m \in 1 .. n - 1 : m - 1 \in bits /\ all[m] = a
        BY <2>4, <2>5, <2>6
      <4> QED BY <4>1, <4>2, <4>3
    <3>8. Len(Result[n]) = Cardinality(Below(n))
      BY <2>1, <3>1, <3>3, <3>4, <3>5, <3>6
    <3>9. Result[n] = Append(r, all[n])
      BY <3>1, <3>4
    <3> HIDE DEF all, V
    <3>10. Good(n)
      <4>1. PICK t : t = Append(r, all[n])
        OBVIOUS
      <4>2. Result[n] = t /\ t \in V /\ Len(t) = len + 1
        BY <3>6, <3>9, <4>1
      <4>3. ASSUME NEW a
            PROVE  (\E m \in 1 .. Len(t) : t[m] = a) <=>
                     \E m \in 1 .. n : m - 1 \in bits /\ all[m] = a
        <5>1. (\E m \in 1 .. len + 1 : t[m] = a) <=>
                \E m \in 1 .. n : m - 1 \in bits /\ all[m] = a
          BY <3>7, <4>1, Zenon
        <5> QED BY <4>2, <5>1, Zenon
      <4> QED BY <3>8, <4>2, <4>3, Zenon
    <3> QED BY <2>1, <3>10
  <2>7. CASE n - 1 \notin bits
    <3>1. Result[n] = Result[n - 1]
      BY <1>6, <1>7, <2>7
    <3>2. Below(n) = Below(n - 1)
      <4>1. \A x \in bits : x < n <=> x < n - 1
        BY <2>1, <2>2, <2>7
      <4> QED BY <4>1
    <3>3. \A a : (\E m \in 1 .. n : m - 1 \in bits /\ all[m] = a) <=>
                 \E m \in 1 .. n - 1 : m - 1 \in bits /\ all[m] = a
      BY <2>4, <2>5, <2>7
    <3> HIDE DEF Below, all
    <3>4. Good(n)
      BY <2>1, <3>1, <3>2, <3>3
    <3> QED BY <2>1, <3>4
  <2> QED BY <2>6, <2>7
<1> HIDE DEF S
<1>10. 0 .. k \subseteq S
  BY <1>1, <1>8, <1>9, BoundedInduction
<1>11. k \in S
  BY <1>1, <1>10
<1> QED BY <1>5, <1>11 DEF S

\* getRecvAdaptersByChain fills its result exactly, with the adapters the
\* events say are enabled.
THEOREM RecvGetterMatches == Spec => []RecvGetterMatchesEvents
<1> DEFINE Reg == \A i \in Integrators : RegistryInv(i)
           Rec == \A i \in Integrators : RecvInv(i)
<1>1. TypeOK /\ Reg /\ Rec => RecvGetterMatchesEvents
  <2> SUFFICES ASSUME TypeOK, Reg, Rec,
                      NEW i \in Integrators, NEW c \in ChainIds \ {0}
               PROVE  LET result == getRecvAdaptersByChain(i, c) IN
                      /\ Len(result) = Cardinality(recvAdapterBitmap[i][c])
                      /\ {result[n] : n \in 1 .. Len(result)}
                           = indexedRecv[i][c]
    BY DEF RecvGetterMatchesEvents, getNumEnabledRecvAdaptersForChain
  <2> DEFINE all     == registeredAdapters[i]
             infos   == adapterInfos[i]
             bits    == recvAdapterBitmap[i][c]
             enabled == indexedRecv[i][c]
             result  == getRecvAdaptersByChain(i, c)
  <2>1. /\ all \in Seq(Adapters) /\ infos \in [Adapters -> AdapterInfo]
        /\ bits \subseteq Index /\ enabled \subseteq Adapters
    BY DEF TypeOK, RegistryTypeOK
  <2>2. IndexesOk(all, infos) /\ BitsOk(bits, enabled, infos)
    BY DEF RegistryInv, RecvInv
  <2>3. ASSUME NEW a \in Adapters
        PROVE  isRecvAdapterEnabledForChain(i, c, a) <=>
                 infos[a].index \in bits
    <3>1. infos[a].index \in Index
      BY <2>1, RegisteredInfo
    <3>2. Bit(infos[a].index) = {infos[a].index}
      BY <3>1, BitOfIndex
    <3> QED BY <3>2 DEF isRecvAdapterEnabledForChain
  <2>4. ASSUME NEW n \in 1 .. Len(all)
        PROVE  all[n] \in Adapters /\ infos[all[n]].index = n - 1
    <3>1. all[n] \in Adapters
      BY <2>1
    <3>2. infos[all[n]] = [registered |-> TRUE, index |-> n - 1]
      BY <2>2, <3>1 DEF IndexesOk
    <3> QED BY <3>1, <3>2
  <2>5. \A n \in 1 .. Len(all) :
          isRecvAdapterEnabledForChain(i, c, all[n]) <=> n - 1 \in bits
    BY <2>3, <2>4
  <2>6. ASSUME NEW a \in enabled
        PROVE  /\ infos[a].index < Len(all) /\ infos[a].index \in bits
               /\ \E n \in 1 .. Len(all) : n - 1 \in bits /\ all[n] = a
    <3>1. a \in Adapters /\ infos[a].registered /\ infos[a].index \in bits
      BY <2>1, <2>2 DEF BitsOk
    <3>2. PICK x \in Nat : x = infos[a].index /\ x < Len(all)
      BY <2>1, <2>2, <3>1, RegisteredInfo DEF IndexesOk, Index
    <3>3. x + 1 \in 1 .. Len(all) /\ (x + 1) - 1 = x
      BY <2>1, <3>2
    <3>4. infos[a] = [registered |-> TRUE, index |-> (x + 1) - 1]
      BY <2>1, <3>1, <3>2, <3>3, RegisteredInfo
    <3>5. all[x + 1] = a
      BY <2>2, <3>1, <3>3, <3>4 DEF IndexesOk
    <3> QED BY <3>1, <3>2, <3>3, <3>5
  <2>7. {x \in bits : x < Len(all)} = bits
    <3> SUFFICES ASSUME NEW x \in bits PROVE x < Len(all)
      OBVIOUS
    <3>1. PICK a \in enabled : x = infos[a].index
      BY <2>2 DEF BitsOk
    <3> QED BY <2>6, <3>1
  <2>8. ASSUME NEW n \in 1 .. Len(all), n - 1 \in bits
        PROVE  all[n] \in enabled
    <3>1. PICK a \in enabled : n - 1 = infos[a].index
      BY <2>2, <2>8 DEF BitsOk
    <3>2. PICK m \in 1 .. Len(all) : all[m] = a
      BY <2>6
    <3>3. m - 1 = n - 1
      BY <2>4, <3>1, <3>2
    <3>4. m = n
      BY <2>1, <3>3
    <3> QED BY <3>1, <3>2, <3>4
  <2>9. /\ Len(result) = Cardinality({x \in bits : x < Len(all)})
        /\ \A a : (\E n \in 1 .. Len(result) : result[n] = a) <=>
                  \E n \in 1 .. Len(all) : n - 1 \in bits /\ all[n] = a
    BY <2>1, <2>5, GetterLoop
  <2> HIDE DEF result, enabled, bits, all
  <2>10. \A a : (\E n \in 1 .. Len(result) : result[n] = a) <=> a \in enabled
    BY <2>6, <2>8, <2>9
  <2>11. {result[n] : n \in 1 .. Len(result)} = enabled
    BY <2>10
  <2> QED BY <2>7, <2>9, <2>11 DEF result, enabled, bits
<1>2. TypeOK /\ Reg /\ Rec /\ [Next]_vars => Rec'
  BY StepKeepsRecv
<1> QED
  BY <1>1, <1>2, InitRecv, TypeCorrect, RegistryInvariant, PTL DEF Spec

-----------------------------------------------------------------------------
(* Receiving *)

\* A message was delivered exactly when its executed flag is set.
ExecutedInv ==
  \A m \in Messages : attestationInfo[m].executed <=> deliveries[m] # <<>>

\* attestMessage adds one new voter.
LEMMA AttestIsAttest ==
  ASSUME TypeOK, NEW m \in Messages, NEW a \in Adapters, attestMessage(m, a)
  PROVE  LET index == adapterInfos[m.dst_addr][a].index IN
         /\ index \in Index /\ index \notin attestationInfo[m].attestedAdapters
         /\ attestationInfo'[m].attestedAdapters
              = attestationInfo[m].attestedAdapters \cup {index}
         /\ attestationInfo'[m].numAttested
              = attestationInfo[m].numAttested + 1
         /\ \A n \in Messages : n # m =>
              attestationInfo'[n] = attestationInfo[n]
         /\ \A n \in Messages :
              attestationInfo'[n].executed = attestationInfo[n].executed
         /\ \E v \in Index : Inbox!Attest(m, v)
<1> DEFINE i     == m.dst_addr
           index == adapterInfos[i][a].index
           info  == attestationInfo[m]
           bits  == info.attestedAdapters
           votes == [n \in Messages |-> attestationInfo[n].attestedAdapters]
<1> USE DEF TypeOK
<1>1. i \in Integrators
  BY DEF attestMessage, isEvmAddress
<1>2. index \in Index
  BY <1>1, RegisteredInfo DEF RegistryTypeOK
<1>3. Bit(index) = {index}
  BY <1>2 DEF Bit
<1>4. index \notin bits
  BY <1>3 DEF attestMessage, isNewAttestation
<1>5. info \in AttestationInfo
  OBVIOUS
<1>6. /\ attestationInfo'[m].attestedAdapters = bits \cup {index}
      /\ attestationInfo'[m].numAttested = info.numAttested + 1
      /\ attestationInfo'[m].executed = info.executed
      /\ \A n \in Messages : n # m => attestationInfo'[n] = attestationInfo[n]
  BY <1>3, <1>5 DEF attestMessage, AttestationInfo
<1>7. [n \in Messages |-> attestationInfo'[n].attestedAdapters]
        = [votes EXCEPT ![m] = @ \cup {index}]
  BY <1>6
<1>8. \E v \in Index : Inbox!Attest(m, v)
  <2>1. PICK v \in Index : v = index
    BY <1>2
  <2>2. Inbox!Attest(m, v)
    BY <1>4, <1>7, <2>1 DEF attestMessage, Inbox!Attest
  <2> QED BY <2>2
<1> QED BY <1>2, <1>4, <1>6, <1>8

\* recvMessage and execMessage set the executed flag of one message.
LEMMA ExecutedIsSet ==
  ASSUME TypeOK, NEW m \in Messages,
         attestationInfo' = [attestationInfo EXCEPT ![m].executed = TRUE]
  PROVE  /\ attestationInfo'[m].executed = TRUE
         /\ \A n \in Messages :
              /\ n # m => attestationInfo'[n] = attestationInfo[n]
              /\ attestationInfo'[n].attestedAdapters
                   = attestationInfo[n].attestedAdapters
              /\ attestationInfo'[n].numAttested
                   = attestationInfo[n].numAttested
<1>1. attestationInfo[m] \in AttestationInfo
  BY DEF TypeOK
<1> QED BY <1>1 DEF TypeOK, AttestationInfo

\* A delivery by recvMessage is one of Delivery.
LEMMA RecvIsReceive ==
  ASSUME TypeOK, ExecutedInv, NEW m \in Messages, NEW i, recvMessage(m, i)
  PROVE  Inbox!Receive(m)
<1>1. /\ attestationInfo[m].attestedAdapters # {}
      /\ ~attestationInfo[m].executed
  BY DEF recvMessage, isKnown
<1>2. deliveries[m] = <<>>
  BY <1>1 DEF ExecutedInv
<1>3. deliveries' = [deliveries EXCEPT ![m] = <<"recv">>]
  BY <1>2 DEF recvMessage, TypeOK
<1>4. [n \in Messages |-> attestationInfo'[n].attestedAdapters]
        = [n \in Messages |-> attestationInfo[n].attestedAdapters]
  BY ExecutedIsSet DEF recvMessage
<1> QED BY <1>1, <1>2, <1>3, <1>4 DEF Inbox!Receive

\* A delivery by execMessage is one of Delivery.
LEMMA ExecIsExecute ==
  ASSUME TypeOK, ExecutedInv, NEW m \in Messages, NEW i, execMessage(m, i)
  PROVE  Inbox!Execute(m)
<1>1. deliveries[m] = <<>>
  BY DEF ExecutedInv, execMessage
<1>2. deliveries' = [deliveries EXCEPT ![m] = <<"exec">>]
  BY <1>1 DEF execMessage, TypeOK
<1>3. [n \in Messages |-> attestationInfo'[n].attestedAdapters]
        = [n \in Messages |-> attestationInfo[n].attestedAdapters]
  BY ExecutedIsSet DEF execMessage
<1> QED BY <1>1, <1>2, <1>3 DEF Inbox!Execute

\* The calls about configuration leave the messages alone.
LEMMA OthersLeaveInbox ==
  ASSUME [Next]_vars, ~MessageCall
  PROVE  UNCHANGED inboxVars
BY DEF Next, register, AdminCall, updateAdmin, transferAdmin, claimAdmin,
  discardAdmin, AdapterCall, addAdapter, enableSendAdapter,
  enableRecvAdapter, disableSendAdapter, disableRecvAdapter, vars, inboxVars

\* The executed flag tells in every reachable state whether the message was
\* delivered.
LEMMA ExecutedInvariant == Spec => []ExecutedInv
<1>1. Init => ExecutedInv
  BY DEF Init, ExecutedInv
<1>2. TypeOK /\ ExecutedInv /\ [Next]_vars => ExecutedInv'
  <2> SUFFICES ASSUME TypeOK, ExecutedInv, [Next]_vars PROVE ExecutedInv'
    OBVIOUS
  <2>1. ASSUME NEW m \in Messages, NEW a \in Adapters, attestMessage(m, a)
        PROVE  ExecutedInv'
    <3>1. UNCHANGED deliveries
      BY <2>1 DEF attestMessage
    <3>2. \A n \in Messages :
            attestationInfo'[n].executed = attestationInfo[n].executed
      BY <2>1, AttestIsAttest
    <3> QED BY <3>1, <3>2 DEF ExecutedInv
  <2>2. ASSUME NEW m \in Messages, NEW how \in {"recv", "exec"},
               attestationInfo' =
                 [attestationInfo EXCEPT ![m].executed = TRUE],
               deliveries' = [deliveries EXCEPT ![m] = Append(@, how)]
        PROVE  ExecutedInv'
    <3>1. deliveries'[m] = Append(deliveries[m], how)
      BY <2>2 DEF TypeOK
    <3>2. deliveries'[m] # <<>>
      <4>1. deliveries[m] \in Seq({"recv", "exec"})
        BY DEF TypeOK
      <4> QED BY <3>1, <4>1
    <3>3. \A n \in Messages : n # m => deliveries'[n] = deliveries[n]
      BY <2>2 DEF TypeOK
    <3>4. /\ attestationInfo'[m].executed = TRUE
          /\ \A n \in Messages :
               n # m => attestationInfo'[n] = attestationInfo[n]
      BY <2>2, ExecutedIsSet
    <3> QED BY <3>2, <3>3, <3>4 DEF ExecutedInv
  <2>3. CASE UNCHANGED inboxVars
    BY <2>3 DEF inboxVars, ExecutedInv
  <2> QED
    BY <2>1, <2>2, <2>3, OthersLeaveInbox
    DEF MessageCall, recvMessage, execMessage
<1> QED BY <1>1, <1>2, TypeCorrect, PTL DEF Spec

\* The message functions implement Delivery: attestations accumulate, and a
\* message is delivered once, by recvMessage only after an attestation.
THEOREM DeliveryRefined == Spec => ImplementsDelivery
<1>1. Init => Inbox!Init
  BY DEF Init, Inbox!Init
<1>2. TypeOK /\ ExecutedInv /\ [Next]_vars => [Inbox!Next]_(Inbox!vars)
  <2> SUFFICES ASSUME TypeOK, ExecutedInv, [Next]_vars
               PROVE  [Inbox!Next]_(Inbox!vars)
    OBVIOUS
  <2>1. ASSUME NEW m \in Messages, NEW a \in Adapters, attestMessage(m, a)
        PROVE  Inbox!Next
    BY <2>1, AttestIsAttest DEF Inbox!Next
  <2>2. ASSUME NEW m \in Messages, NEW i \in Integrators, recvMessage(m, i)
        PROVE  Inbox!Next
    BY <2>2, RecvIsReceive DEF Inbox!Next
  <2>3. ASSUME NEW m \in Messages, NEW i \in Integrators, execMessage(m, i)
        PROVE  Inbox!Next
    BY <2>3, ExecIsExecute DEF Inbox!Next
  <2>4. CASE UNCHANGED inboxVars
    BY <2>4 DEF inboxVars, Inbox!vars
  <2> QED BY <2>1, <2>2, <2>3, <2>4, OthersLeaveInbox DEF MessageCall
<1> QED
  BY <1>1, <1>2, TypeCorrect, ExecutedInvariant, PTL
  DEF Spec, ImplementsDelivery, Inbox!Spec

\* A message is delivered at most once, and received only when some adapter
\* attested to it.
DeliveredInv ==
  \A m \in Messages :
    /\ deliveries[m] \in {<<>>, <<"recv">>, <<"exec">>}
    /\ deliveries[m] = <<"recv">> =>
         attestationInfo[m].attestedAdapters # {}

\* The steps of Delivery keep that.
LEMMA DeliveryKeepsDelivered ==
  ASSUME TypeOK, TypeOK', DeliveredInv, [Inbox!Next]_(Inbox!vars)
  PROVE  DeliveredInv'
<1> DEFINE Votes(m) == attestationInfo[m].attestedAdapters
           votes == [m \in Messages |-> Votes(m)]
<1>1. ASSUME NEW n \in Messages, NEW v, Inbox!Attest(n, v)
      PROVE  DeliveredInv'
  <2>1. votes' = [votes EXCEPT ![n] = @ \cup {v}] /\ UNCHANGED deliveries
    BY <1>1 DEF Inbox!Attest
  <2>2. \A m \in Messages : Votes(m) \subseteq Votes(m)'
    BY <2>1
  <2> QED BY <2>1, <2>2 DEF DeliveredInv
<1>2. ASSUME NEW n \in Messages, NEW log \in {<<"recv">>, <<"exec">>},
             deliveries' = [deliveries EXCEPT ![n] = log],
             UNCHANGED votes, log = <<"recv">> => votes[n] # {}
      PROVE  DeliveredInv'
  <2>1. \A m \in Messages : Votes(m) = Votes(m)'
    BY <1>2
  <2>2. /\ deliveries'[n] = log
        /\ \A m \in Messages : m # n => deliveries'[m] = deliveries[m]
    BY <1>2 DEF TypeOK
  <2> QED BY <1>2, <2>1, <2>2 DEF DeliveredInv
<1>3. CASE UNCHANGED Inbox!vars
  <2>1. UNCHANGED votes /\ UNCHANGED deliveries
    BY <1>3 DEF Inbox!vars
  <2>2. \A m \in Messages : Votes(m) = Votes(m)'
    BY <2>1
  <2> QED BY <2>1, <2>2 DEF DeliveredInv
<1> QED BY <1>1, <1>2, <1>3 DEF Inbox!Next, Inbox!Receive, Inbox!Execute

\* So the endpoint delivers a message at most once, and a message it received
\* was attested to.
LEMMA DeliveredInvariant == Spec => []DeliveredInv
<1>1. Init => DeliveredInv
  BY DEF Init, DeliveredInv
<1>2. TypeOK /\ TypeOK' /\ DeliveredInv /\ [Inbox!Next]_(Inbox!vars)
        => DeliveredInv'
  BY DeliveryKeepsDelivered
<1>3. Spec => Inbox!Spec
  BY DeliveryRefined DEF ImplementsDelivery
<1> QED BY <1>1, <1>2, <1>3, TypeCorrect, PTL DEF Spec, Inbox!Spec

-----------------------------------------------------------------------------
(* Attribution *)

\* The address has attested to message m.
Attested(m, a) == <<m, a>> \in attestedBy

\* The bits of a message are those of the adapters that attested, all of
\* them registered with its destination, and are counted beside the bitmap.
AttributedInv(m) ==
  /\ \A a \in Adapters : Attested(m, a) =>
       m.dst_addr \in Integrators /\ adapterInfos[m.dst_addr][a].registered
  /\ \A x : x \in attestationInfo[m].attestedAdapters <=>
       \E a \in Adapters :
         Attested(m, a) /\ x = adapterInfos[m.dst_addr][a].index
  /\ attestationInfo[m].numAttested
       = Cardinality(attestationInfo[m].attestedAdapters)

\* A set of indices is finite.
LEMMA BitsAreFinite ==
  ASSUME NEW bits \in SUBSET Index
  PROVE  IsFiniteSet(bits)
<1>1. IsFiniteSet(Index)
  BY FS_Interval, RegistryAssumption DEF Index
<1> QED BY <1>1, FS_Subset

\* Every step keeps the attribution of every message.
LEMMA StepKeepsAttribution ==
  ASSUME TypeOK, KeepsIndexes, [Next]_vars,
         NEW m \in Messages, AttributedInv(m)
  PROVE  AttributedInv(m)'
<1> USE DEF TypeOK
<1>1. \A a \in Adapters : Attested(m, a) =>
        adapterInfos'[m.dst_addr][a] = adapterInfos[m.dst_addr][a]
  BY DEF AttributedInv, KeepsIndexes
<1>2. ASSUME \A a \in Adapters : Attested(m, a)' <=> Attested(m, a),
             attestationInfo'[m].attestedAdapters
               = attestationInfo[m].attestedAdapters,
             attestationInfo'[m].numAttested = attestationInfo[m].numAttested
      PROVE  AttributedInv(m)'
  BY <1>1, <1>2 DEF AttributedInv
<1>3. ASSUME NEW n \in Messages, NEW b \in Adapters, attestMessage(n, b)
      PROVE  AttributedInv(m)'
  <2>1. /\ attestedBy' = attestedBy \cup {<<n, b>>}
        /\ UNCHANGED adapterInfos
    BY <1>3 DEF attestMessage, registryVars
  <2>2. CASE n # m
    <3>1. \A a \in Adapters : Attested(m, a)' <=> Attested(m, a)
      BY <2>1, <2>2 DEF Attested
    <3>2. attestationInfo'[m] = attestationInfo[m]
      BY <1>3, <2>2, AttestIsAttest
    <3> QED BY <1>2, <3>1, <3>2
  <2>3. CASE n = m
    <3> DEFINE index == adapterInfos[m.dst_addr][b].index
               bits  == attestationInfo[m].attestedAdapters
    <3>1. \A a \in Adapters : Attested(m, a)' <=> Attested(m, a) \/ a = b
      BY <2>1, <2>3 DEF Attested
    <3>2. /\ index \notin bits /\ index \in Index
          /\ attestationInfo'[m].attestedAdapters = bits \cup {index}
          /\ attestationInfo'[m].numAttested
               = attestationInfo[m].numAttested + 1
      BY <1>3, <2>3, AttestIsAttest
    <3>3. /\ m.dst_addr \in Integrators
          /\ adapterInfos[m.dst_addr][b].registered
      BY <1>3, <2>3 DEF attestMessage, isEvmAddress, isRegistered
    <3>4. \A a \in Adapters : Attested(m, a)' =>
            /\ m.dst_addr \in Integrators
            /\ adapterInfos'[m.dst_addr][a].registered
      BY <2>1, <3>1, <3>3 DEF AttributedInv
    <3>5. \A x : x \in attestationInfo'[m].attestedAdapters <=>
            \E a \in Adapters :
              Attested(m, a)' /\ x = adapterInfos'[m.dst_addr][a].index
      <4> SUFFICES ASSUME NEW x
                   PROVE  x \in bits \cup {index} <=>
                            \E a \in Adapters :
                              /\ Attested(m, a) \/ a = b
                              /\ x = adapterInfos[m.dst_addr][a].index
        BY <2>1, <3>1, <3>2
      <4> QED BY DEF AttributedInv
    <3>6. IsFiniteSet(bits)
      BY BitsAreFinite, AttestationInfoTyped
    <3>7. Cardinality(bits \cup {index}) = Cardinality(bits) + 1
      BY <3>2, <3>6, FS_AddElement
    <3> QED BY <3>2, <3>4, <3>5, <3>7 DEF AttributedInv
  <2> QED BY <2>2, <2>3
<1>4. ASSUME NEW n \in Messages, NEW i,
             recvMessage(n, i) \/ execMessage(n, i)
      PROVE  AttributedInv(m)'
  <2>1. /\ attestationInfo' = [attestationInfo EXCEPT ![n].executed = TRUE]
        /\ UNCHANGED attestedBy
    BY <1>4 DEF recvMessage, execMessage
  <2> QED BY <1>2, <2>1, ExecutedIsSet DEF Attested
<1>5. CASE UNCHANGED inboxVars
  BY <1>2, <1>5 DEF inboxVars, Attested
<1> QED BY <1>3, <1>4, <1>5, OthersLeaveInbox DEF MessageCall

\* The attribution holds in every reachable state.
LEMMA AttributedInvariant == Spec => [](\A m \in Messages : AttributedInv(m))
<1> DEFINE Inv == \A m \in Messages : AttributedInv(m)
           Reg == \A i \in Integrators : RegistryInv(i)
<1>1. Init => Inv
  <2> SUFFICES ASSUME Init, NEW m \in Messages PROVE AttributedInv(m)
    OBVIOUS
  <2>1. /\ attestationInfo[m].attestedAdapters = {}
        /\ attestationInfo[m].numAttested = 0
        /\ attestedBy = {}
    BY DEF Init
  <2> QED BY <2>1, FS_EmptySet DEF AttributedInv, Attested
<1>2. TypeOK /\ Reg /\ Inv /\ [Next]_vars => Inv'
  BY StepKeepsRegistry, StepKeepsAttribution
<1> QED BY <1>1, <1>2, TypeCorrect, RegistryInvariant, PTL DEF Spec

\* The attestations of a message come from registered adapters of its
\* destination, one bit each, and numAttested counts the bits.
THEOREM AttestationsAttributed == Spec => []AttestationsAreAttributed
<1> DEFINE Inv == \A m \in Messages : AttributedInv(m)
           Reg == \A i \in Integrators : RegistryInv(i)
<1>1. TypeOK /\ Reg /\ Inv => AttestationsAreAttributed
  <2> SUFFICES ASSUME TypeOK, Reg, Inv PROVE AttestationsAreAttributed
    OBVIOUS
  <2>1. ASSUME NEW p \in attestedBy
        PROVE  /\ p = <<p[1], p[2]>> /\ p[1] \in Messages /\ p[2] \in Adapters
               /\ Attested(p[1], p[2]) /\ p[1].dst_addr \in Integrators
               /\ adapterInfos[p[1].dst_addr][p[2]].registered
    <3>1. p = <<p[1], p[2]>> /\ p[1] \in Messages /\ p[2] \in Adapters
      BY DEF TypeOK
    <3>2. Attested(p[1], p[2])
      BY <3>1 DEF Attested
    <3> QED BY <3>1, <3>2 DEF AttributedInv
  <2>2. ASSUME NEW m \in Messages, NEW x
        PROVE  x \in attestationInfo[m].attestedAdapters <=>
                 \E p \in {q \in attestedBy : q[1] = m} :
                   x = adapterInfos[m.dst_addr][p[2]].index
    <3>1. \A a \in Adapters : Attested(m, a) <=>
            \E p \in attestedBy : p[1] = m /\ p[2] = a
      BY <2>1 DEF Attested
    <3> QED BY <2>1, <3>1 DEF AttributedInv
  <2>3. ASSUME NEW m \in Messages, NEW p \in attestedBy, NEW q \in attestedBy,
               p[1] = m, q[1] = m,
               adapterInfos[m.dst_addr][p[2]].index
                 = adapterInfos[m.dst_addr][q[2]].index
        PROVE  p = q
    <3>1. PICK i \in Integrators : i = m.dst_addr
      BY <2>1, <2>3
    <3>2. /\ registeredAdapters[i] \in Seq(Adapters)
          /\ adapterInfos[i] \in [Adapters -> AdapterInfo]
          /\ IndexesOk(registeredAdapters[i], adapterInfos[i])
      BY DEF TypeOK, RegistryTypeOK, RegistryInv
    <3>3. p[2] = q[2]
      BY <2>1, <2>3, <3>1, <3>2, IndexIsInjective
    <3> QED BY <2>1, <2>3, <3>3
  <2>4. ASSUME NEW m \in Messages
        PROVE  attestationInfo[m].attestedAdapters =
                 {adapterInfos[m.dst_addr][p[2]].index :
                    p \in {q \in attestedBy : q[1] = m}}
    BY <2>2
  <2> QED
    BY <2>1, <2>3, <2>4
    DEF AttestationsAreAttributed, AttributedInv, isEvmAddress
<1> QED
  BY <1>1, TypeCorrect, RegistryInvariant, AttributedInvariant, PTL

-----------------------------------------------------------------------------
(* The admin functions implement AdminRole. *)

\* A transfer is only pending while there is an admin, so that claimAdmin,
\* which checks neither, never brings a discarded admin back.
TransferInv ==
  \A i \in Integrators : pending_admin[i] # ZeroAddress =>
    isInitialized[i] /\ admin[i] # ZeroAddress

\* TransferInv holds in every reachable state.
LEMMA TransferInvariant == Spec => []TransferInv
<1>1. Init => TransferInv
  BY DEF Init, TransferInv
<1>2. TypeOK /\ TransferInv /\ [Next]_vars => TransferInv'
  <2> SUFFICES ASSUME TypeOK, TransferInv, [Next]_vars PROVE TransferInv'
    OBVIOUS
  <2> USE DEF TypeOK, TransferInv
  <2>1. ASSUME NEW i \in Integrators, NEW u \in Users, register(i, u)
        PROVE  TransferInv'
    BY <2>1 DEF register
  <2>2. ASSUME NEW i \in Integrators, NEW sender \in Callers,
               AdminCall(i, sender)
        PROVE  TransferInv'
    <3>1. sender # ZeroAddress
      BY DEF Callers
    <3>2. ASSUME NEW u \in Users, updateAdmin(i, sender, u)
          PROVE  TransferInv'
      BY <3>2 DEF updateAdmin
    <3>3. ASSUME NEW u \in Users, transferAdmin(i, sender, u)
          PROVE  TransferInv'
      BY <3>1, <3>3 DEF transferAdmin, onlyAdmin
    <3>4. ASSUME claimAdmin(i, sender) PROVE TransferInv'
      BY <3>1, <3>4 DEF claimAdmin
    <3>5. ASSUME discardAdmin(i, sender) PROVE TransferInv'
      BY <3>5 DEF discardAdmin, noTransferInProgress
    <3> QED BY <2>2, <3>2, <3>3, <3>4, <3>5 DEF AdminCall
  <2>3. CASE UNCHANGED roleVars
    BY <2>3 DEF roleVars
  <2>4. ASSUME NEW i \in Integrators, NEW sender \in Callers,
               AdapterCall(i, sender)
        PROVE  UNCHANGED roleVars
    BY <2>4 DEF AdapterCall, addAdapter, enableSendAdapter,
      enableRecvAdapter, disableSendAdapter, disableRecvAdapter
  <2>5. MessageCall \/ UNCHANGED vars => UNCHANGED roleVars
    BY DEF MessageCall, attestMessage, recvMessage, execMessage, vars,
      roleVars
  <2> QED BY <2>1, <2>2, <2>3, <2>4, <2>5 DEF Next
<1> QED BY <1>1, <1>2, TypeCorrect, PTL DEF Spec

\* The refinement mapping of the role, by its four cases.
LEMMA RoleCases ==
  ASSUME NEW i
  PROVE  /\ ~isInitialized[i] => RoleOf(i) = [phase |-> "unregistered"]
         /\ isInitialized[i] /\ admin[i] = ZeroAddress =>
              RoleOf(i) = [phase |-> "discarded"]
         /\ isInitialized[i] /\ admin[i] # ZeroAddress
            /\ pending_admin[i] = ZeroAddress =>
              RoleOf(i) = [phase |-> "owned", admin |-> admin[i]]
         /\ isInitialized[i] /\ admin[i] # ZeroAddress
            /\ pending_admin[i] # ZeroAddress =>
              RoleOf(i) = [phase |-> "transferring", admin |-> admin[i],
                           pending |-> pending_admin[i]]
BY DEF RoleOf

\* The same in the next state.
LEMMA NextRoleCases ==
  ASSUME NEW i
  PROVE  /\ isInitialized'[i] /\ admin'[i] = ZeroAddress =>
              RoleOf(i)' = [phase |-> "discarded"]
         /\ isInitialized'[i] /\ admin'[i] # ZeroAddress
            /\ pending_admin'[i] = ZeroAddress =>
              RoleOf(i)' = [phase |-> "owned", admin |-> admin'[i]]
         /\ isInitialized'[i] /\ admin'[i] # ZeroAddress
            /\ pending_admin'[i] # ZeroAddress =>
              RoleOf(i)' = [phase |-> "transferring", admin |-> admin'[i],
                            pending |-> pending_admin'[i]]
BY DEF RoleOf

\* A step that changes one integrator's role to r and no settings.
LEMMA RoleBecomes ==
  ASSUME NEW i \in Integrators, NEW r, RoleOf(i)' = r,
         \A j \in Integrators : j # i =>
           UNCHANGED <<isInitialized[j], admin[j], pending_admin[j]>>,
         UNCHANGED registryVars
  PROVE  Role!Become(i, r)
<1> DEFINE roles == [j \in Integrators |-> RoleOf(j)]
<1>1. \A j \in Integrators : j # i => RoleOf(j)' = RoleOf(j)
  BY DEF RoleOf
<1>2. [j \in Integrators |-> RoleOf(j)'] = [roles EXCEPT ![i] = r]
  BY <1>1
<1>3. [j \in Integrators |-> ConfigOf(j)']
        = [j \in Integrators |-> ConfigOf(j)]
  BY DEF ConfigOf, registryVars
<1> QED BY <1>2, <1>3 DEF Role!Become

\* The admin functions are steps of AdminRole.
LEMMA AdminCallIsRoleStep ==
  ASSUME TypeOK, TransferInv, NEW i \in Integrators, NEW sender \in Callers,
         AdminCall(i, sender)
  PROVE  Role!Next
<1> USE DEF TypeOK
<1>1. /\ UNCHANGED <<isInitialized, registryVars>>
      /\ \A j \in Integrators : j # i =>
           UNCHANGED <<isInitialized[j], admin[j], pending_admin[j]>>
  BY DEF AdminCall, updateAdmin, transferAdmin, claimAdmin, discardAdmin
<1>2. sender # ZeroAddress
  BY DEF Callers
<1>3. onlyAdmin(i, sender) /\ noTransferInProgress(i) =>
        /\ isInitialized[i] /\ admin[i] = sender
        /\ pending_admin[i] = ZeroAddress
        /\ RoleOf(i) = [phase |-> "owned", admin |-> sender]
  BY <1>2, RoleCases DEF onlyAdmin, noTransferInProgress
<1>4. ASSUME NEW u \in Users, updateAdmin(i, sender, u)
      PROVE  Role!Update(i)
  <2>1. /\ onlyAdmin(i, sender) /\ noTransferInProgress(i)
        /\ u \in Callers /\ u # ZeroAddress
        /\ admin'[i] = u /\ pending_admin'[i] = pending_admin[i]
    BY <1>4 DEF updateAdmin, Callers
  <2>2. RoleOf(i)' = Role!Owned(u)
    BY <1>1, <1>3, <2>1, NextRoleCases DEF Role!Owned
  <2>3. Role!Become(i, Role!Owned(u))
    BY <1>1, <2>2, RoleBecomes
  <2> QED BY <1>3, <2>1, <2>3 DEF Role!Update
<1>5. ASSUME NEW u \in Users, transferAdmin(i, sender, u)
      PROVE  Role!Transfer(i)
  <2>1. /\ onlyAdmin(i, sender) /\ noTransferInProgress(i)
        /\ u \in Callers /\ u # ZeroAddress
        /\ admin'[i] = admin[i] /\ pending_admin'[i] = u
    BY <1>5 DEF transferAdmin, Callers
  <2>2. RoleOf(i)' = Role!Transferring(sender, u)
    BY <1>1, <1>2, <1>3, <2>1, NextRoleCases DEF Role!Transferring
  <2>3. Role!Become(i, Role!Transferring(sender, u))
    BY <1>1, <2>2, RoleBecomes
  <2> QED BY <1>3, <2>1, <2>3 DEF Role!Transfer
<1>6. ASSUME claimAdmin(i, sender) PROVE Role!Claim(i)
  <2>1. /\ pending_admin[i] # ZeroAddress
        /\ sender \in {admin[i], pending_admin[i]}
        /\ admin'[i] = sender /\ pending_admin'[i] = ZeroAddress
    BY <1>6 DEF claimAdmin, mayClaim
  <2>2. isInitialized[i] /\ admin[i] # ZeroAddress
    BY <2>1 DEF TransferInv
  <2>3. RoleOf(i)' = Role!Owned(sender)
    BY <1>1, <1>2, <2>1, <2>2, NextRoleCases DEF Role!Owned
  <2>4. Role!Become(i, Role!Owned(sender))
    BY <1>1, <2>3, RoleBecomes
  <2>5. RoleOf(i) = [phase |-> "transferring", admin |-> admin[i],
                     pending |-> pending_admin[i]]
    BY <2>1, <2>2, RoleCases
  <2> QED BY <2>1, <2>4, <2>5 DEF Role!Claim
<1>7. ASSUME discardAdmin(i, sender) PROVE Role!Discard(i)
  <2>1. /\ onlyAdmin(i, sender) /\ noTransferInProgress(i)
        /\ admin'[i] = ZeroAddress
    BY <1>7 DEF discardAdmin
  <2>2. RoleOf(i)' = Role!Discarded
    BY <1>1, <1>3, <2>1, NextRoleCases DEF Role!Discarded
  <2>3. Role!Become(i, Role!Discarded)
    BY <1>1, <2>2, RoleBecomes
  <2> QED BY <1>3, <2>1, <2>3 DEF Role!Discard
<1> QED BY <1>4, <1>5, <1>6, <1>7 DEF AdminCall, Role!Next

\* An adapter function is a change of settings by the admin.
LEMMA AdapterCallIsConfigure ==
  ASSUME TypeOK, \A j \in Integrators : RegistryInv(j),
         NEW i \in Integrators, NEW sender \in Callers, AdapterCall(i, sender)
  PROVE  Role!Configure(i)
<1>1. onlyAdmin(i, sender) /\ UNCHANGED roleVars
  BY DEF AdapterCall, addAdapter, enableSendAdapter, enableRecvAdapter,
    disableSendAdapter, disableRecvAdapter
<1>2. isInitialized[i] /\ admin[i] # ZeroAddress
  BY <1>1 DEF onlyAdmin, Callers
<1>3. RoleOf(i).phase = "owned" \/ RoleOf(i).phase = "transferring"
  BY <1>2, RoleCases
<1>4. [j \in Integrators |-> RoleOf(j)'] = [j \in Integrators |-> RoleOf(j)]
  BY <1>1 DEF RoleOf, roleVars
<1>5. \A j \in Integrators : j # i => UNCHANGED ConfigOf(j)
  BY RegistryStep
<1> DEFINE settings == [j \in Integrators |-> ConfigOf(j)]
           next     == [j \in Integrators |-> ConfigOf(j)']
<1>6. next = [settings EXCEPT ![i] = next[i]]
  BY <1>5
<1> QED BY <1>3, <1>4, <1>6 DEF Role!Configure

\* The admin functions implement AdminRole with the settings open during a
\* transfer: one admin at a time, and a discarded admin never comes back.
THEOREM AdminRoleRefined == Spec => ImplementsAdminRole
<1> DEFINE Reg == \A i \in Integrators : RegistryInv(i)
<1>1. Init => Role!Init
  <2> SUFFICES ASSUME Init PROVE Role!Init
    OBVIOUS
  <2>1. \A i \in Integrators : RoleOf(i) = Role!Unregistered
    BY RoleCases DEF Init, Role!Unregistered
  <2> QED BY <2>1 DEF Role!Init
<1>2. TypeOK /\ TransferInv /\ Reg /\ [Next]_vars => [Role!Next]_(Role!vars)
  <2> SUFFICES ASSUME TypeOK, TransferInv, Reg, [Next]_vars
               PROVE  [Role!Next]_(Role!vars)
    OBVIOUS
  <2>1. ASSUME NEW i \in Integrators, NEW u \in Users, register(i, u)
        PROVE  Role!Register(i)
    <3>1. /\ ~isInitialized[i] /\ isInitialized'[i] = TRUE
          /\ admin'[i] = u /\ u # ZeroAddress /\ u \in Callers
          /\ pending_admin'[i] = ZeroAddress
          /\ UNCHANGED registryVars
      BY <2>1 DEF register, TypeOK, Callers
    <3>2. RoleOf(i) = Role!Unregistered
      BY <3>1, RoleCases DEF Role!Unregistered
    <3>3. RoleOf(i)' = Role!Owned(u)
      BY <3>1, NextRoleCases DEF Role!Owned
    <3>4. \A j \in Integrators : j # i =>
            UNCHANGED <<isInitialized[j], admin[j], pending_admin[j]>>
      BY <2>1 DEF register, TypeOK
    <3>5. Role!Become(i, Role!Owned(u))
      BY <3>1, <3>3, <3>4, RoleBecomes
    <3> QED BY <3>1, <3>2, <3>5 DEF Role!Register
  <2>2. ASSUME NEW i \in Integrators, NEW sender \in Callers,
               AdminCall(i, sender)
        PROVE  Role!Next
    BY <2>2, AdminCallIsRoleStep
  <2>3. ASSUME NEW i \in Integrators, NEW sender \in Callers,
               AdapterCall(i, sender)
        PROVE  Role!Next
    BY <2>3, AdapterCallIsConfigure DEF Role!Next
  <2>4. CASE MessageCall \/ UNCHANGED vars
    <3>1. UNCHANGED <<roleVars, registryVars>>
      BY <2>4 DEF MessageCall, attestMessage, recvMessage, execMessage, vars,
        roleVars, registryVars
    <3> QED
      BY <3>1 DEF roleVars, registryVars, RoleOf, ConfigOf, Role!vars
  <2> QED
    BY <2>1, <2>2, <2>3, <2>4 DEF Next, Role!Next
<1> QED
  BY <1>1, <1>2, TypeCorrect, TransferInvariant, RegistryInvariant, PTL
  DEF Spec, ImplementsAdminRole, Role!Spec

=============================================================================
