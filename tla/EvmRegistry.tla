---------------------------- MODULE EvmRegistry ----------------------------
(***************************************************************************)
(* AdapterRegistry.sol: the adapters of each integrator on EVM, the array  *)
(* of its send adapters and the bitmap of its receive adapters per chain.  *)
(* The operators are the contract's internal functions; the endpoint calls *)
(* them from its external ones.  A call is atomic: a revert undoes it, so  *)
(* the conditions under which the code reverts are negated guards.         *)
(***************************************************************************)
EXTENDS Naturals, Sequences, FiniteSets

CONSTANTS
  Integrators,    \* integrator contracts
  Adapters,       \* addresses callers pass as adapters
  ZeroAddress,    \* address(0)
  ChainIds,       \* chain ids callers pass, 0 among them
  MAX_ADAPTERS    \* 128: the limit of the registry and the bits of a bitmap

ASSUME RegistryAssumption ==
  /\ ChainIds \subseteq Nat
  /\ MAX_ADAPTERS \in 1 .. 128

VARIABLES
  adapterInfos,         \* (integrator, adapter) -> {registered, index}
  registeredAdapters,   \* integrator -> append-only array of adapters
  sendAdapterArray,     \* (integrator, chain) -> array of {addr, index}
  recvAdapterBitmap,    \* (integrator, chain) -> set of the one bits
  indexedSend,          \* history: what an indexer of the SendAdapter...
  indexedRecv           \* ... and RecvAdapter... events takes for enabled

registryVars == <<adapterInfos, registeredAdapters, sendAdapterArray,
                  recvAdapterBitmap, indexedSend, indexedRecv>>

Index == 0 .. MAX_ADAPTERS - 1

AdapterInfo == [registered : BOOLEAN, index : Index]

PerSendAdapterInfo == [addr : Adapters, index : Index]

RegistryTypeOK ==
  /\ adapterInfos \in [Integrators -> [Adapters -> AdapterInfo]]
  /\ registeredAdapters \in [Integrators -> Seq(Adapters)]
  /\ sendAdapterArray \in
       [Integrators -> [ChainIds -> Seq(PerSendAdapterInfo)]]
  /\ recvAdapterBitmap \in [Integrators -> [ChainIds -> SUBSET Index]]
  /\ indexedSend \in [Integrators -> [ChainIds -> SUBSET Adapters]]
  /\ indexedRecv \in [Integrators -> [ChainIds -> SUBSET Adapters]]

\* Storage reads as zero until it is written.
RegistryInit ==
  /\ adapterInfos = [i \in Integrators |->
       [a \in Adapters |-> [registered |-> FALSE, index |-> 0]]]
  /\ registeredAdapters = [i \in Integrators |-> <<>>]
  /\ sendAdapterArray = [i \in Integrators |-> [c \in ChainIds |-> <<>>]]
  /\ recvAdapterBitmap = [i \in Integrators |-> [c \in ChainIds |-> {}]]
  /\ indexedSend = [i \in Integrators |-> [c \in ChainIds |-> {}]]
  /\ indexedRecv = [i \in Integrators |-> [c \in ChainIds |-> {}]]

-----------------------------------------------------------------------------
uint8(n) == n % 256

\* uint128(1 << index): no bit at all past the last one.
Bit(index) == {index} \cap Index

\* Mutant: registration is not checked.
isRegistered_Unchecked(i, a) == TRUE

isRegistered(i, a) == adapterInfos[i][a].registered

onlyRegisteredAdapter(i, c, a) ==
  /\ a # ZeroAddress
  /\ c # 0
  /\ isRegistered(i, a)

isSendAdapterEnabledForChain(i, c, a) ==
  LET array == sendAdapterArray[i][c]
  IN  \E n \in 1 .. Len(array) : array[n].addr = a

\* An adapter that is not registered reads index 0.
isRecvAdapterEnabledForChain(i, c, a) ==
  /\ c # 0
  /\ recvAdapterBitmap[i][c] \cap Bit(adapterInfos[i][a].index) # {}

\* Mutant: the index is the length after the push.
registeredAdaptersLength_AfterPush(i) == uint8(Len(registeredAdapters[i]) + 1)

registeredAdaptersLength(i) == uint8(Len(registeredAdapters[i]))

\* Mutant: one adapter too many.
hasRoom_OffByOne(i) == Len(registeredAdapters[i]) <= MAX_ADAPTERS

hasRoom(i) == uint8(Len(registeredAdapters[i])) < MAX_ADAPTERS

addAdapterInternal(i, a) ==
  /\ a # ZeroAddress
  /\ ~adapterInfos[i][a].registered
  /\ hasRoom(i)
  /\ adapterInfos' = [adapterInfos EXCEPT ![i][a] =
                        [registered |-> TRUE,
                         index |-> registeredAdaptersLength(i)]]
  /\ registeredAdapters' = [registeredAdapters EXCEPT ![i] = Append(@, a)]
  /\ UNCHANGED <<sendAdapterArray, recvAdapterBitmap, indexedSend,
                 indexedRecv>>

enableSendAdapterInternal(i, c, a) ==
  /\ onlyRegisteredAdapter(i, c, a)
  /\ ~isSendAdapterEnabledForChain(i, c, a)
  /\ sendAdapterArray' = [sendAdapterArray EXCEPT ![i][c] =
       Append(@, [addr |-> a, index |-> adapterInfos[i][a].index])]
  /\ indexedSend' = [indexedSend EXCEPT ![i][c] = @ \cup {a}]
  /\ UNCHANGED <<adapterInfos, registeredAdapters, recvAdapterBitmap,
                 indexedRecv>>

enableRecvAdapterInternal(i, c, a) ==
  /\ onlyRegisteredAdapter(i, c, a)
  /\ ~isRecvAdapterEnabledForChain(i, c, a)
  /\ recvAdapterBitmap' = [recvAdapterBitmap EXCEPT ![i][c] =
                             @ \cup Bit(adapterInfos[i][a].index)]
  /\ indexedRecv' = [indexedRecv EXCEPT ![i][c] = @ \cup {a}]
  /\ UNCHANGED <<adapterInfos, registeredAdapters, sendAdapterArray,
                 indexedSend>>

\* Mutant: the last entry is popped without being moved.
SwapAndPop_NoSwap(array, n) == SubSeq(array, 1, Len(array) - 1)

\* The entry at position n is overwritten by the last, which is popped.
SwapAndPop(array, n) ==
  SubSeq([array EXCEPT ![n] = array[Len(array)]], 1, Len(array) - 1)

\* The loop stops at the first entry for the adapter, and reverts without one.
disableSendAdapterInternal(i, c, a) ==
  LET array == sendAdapterArray[i][c] IN
  /\ onlyRegisteredAdapter(i, c, a)
  /\ \E n \in 1 .. Len(array) :
       /\ array[n].addr = a
       /\ \A m \in 1 .. n - 1 : array[m].addr # a
       /\ sendAdapterArray' = [sendAdapterArray EXCEPT ![i][c] =
                                 SwapAndPop(array, n)]
  /\ indexedSend' = [indexedSend EXCEPT ![i][c] = @ \ {a}]
  /\ UNCHANGED <<adapterInfos, registeredAdapters, recvAdapterBitmap,
                 indexedRecv>>

\* Clearing a bit makes the number smaller; it reverts when nothing changed.
disableRecvAdapterInternal(i, c, a) ==
  LET updated == recvAdapterBitmap[i][c] \ Bit(adapterInfos[i][a].index) IN
  /\ onlyRegisteredAdapter(i, c, a)
  /\ updated # recvAdapterBitmap[i][c]
  /\ recvAdapterBitmap' = [recvAdapterBitmap EXCEPT ![i][c] = updated]
  /\ indexedRecv' = [indexedRecv EXCEPT ![i][c] = @ \ {a}]
  /\ UNCHANGED <<adapterInfos, registeredAdapters, sendAdapterArray,
                 indexedSend>>

\* getRecvAdaptersByChain: the registered adapters whose bit is set, in a
\* result array whose size is the number of one bits.
getNumEnabledRecvAdaptersForChain(i, c) == Cardinality(recvAdapterBitmap[i][c])

getRecvAdaptersByChain(i, c) ==
  LET all == registeredAdapters[i]
      Result[n \in 0 .. Len(all)] ==
        IF n = 0 THEN <<>>
        ELSE IF isRecvAdapterEnabledForChain(i, c, all[n])
             THEN Append(Result[n - 1], all[n])
             ELSE Result[n - 1]
  IN  Result[Len(all)]

-----------------------------------------------------------------------------
\* Indices and the array of registered adapters agree; the registry stays
\* within the 128 positions a bitmap has (_addAdapter).
RegistryIndexesAgree ==
  \A i \in Integrators :
    /\ Len(registeredAdapters[i]) <= MAX_ADAPTERS
    /\ \A a \in Adapters, n \in 1 .. Len(registeredAdapters[i]) :
         registeredAdapters[i][n] = a <=>
           adapterInfos[i][a] = [registered |-> TRUE, index |-> n - 1]
    /\ \A a \in Adapters : adapterInfos[i][a].registered =>
         adapterInfos[i][a].index < Len(registeredAdapters[i])

\* The send array holds, once each and under its own index, exactly the
\* adapters the events say are enabled, whatever order they were enabled and
\* disabled in: sendMessage pays and calls each entry of this array.
SendArrayMatchesEvents ==
  \A i \in Integrators, c \in ChainIds :
    LET array == sendAdapterArray[i][c] IN
    /\ {array[n].addr : n \in 1 .. Len(array)} = indexedSend[i][c]
    /\ \A m, n \in 1 .. Len(array) : array[m].addr = array[n].addr => m = n
    /\ \A n \in 1 .. Len(array) :
         adapterInfos[i][array[n].addr]
           = [registered |-> TRUE, index |-> array[n].index]

\* getRecvAdaptersByChain fills its result exactly: it neither writes past the
\* end of the array sized by the bit count (a revert) nor leaves zero entries,
\* and it returns the adapters the events say are enabled.
RecvGetterMatchesEvents ==
  \A i \in Integrators : \A c \in ChainIds \ {0} :
    LET result == getRecvAdaptersByChain(i, c) IN
    /\ Len(result) = getNumEnabledRecvAdaptersForChain(i, c)
    /\ {result[n] : n \in 1 .. Len(result)} = indexedRecv[i][c]

=============================================================================
