------------------------------- MODULE Bridge -------------------------------
(***************************************************************************)
(* The two ends of a route: integrators on the SVM endpoint send messages  *)
(* to a contract on the EVM endpoint.  In between are the adapters' relay  *)
(* networks, which are external: an adapter that picked a message up may   *)
(* attest to it on EVM at any time later, as often as it likes, in any     *)
(* order or never.  The endpoints know nothing of each other but the       *)
(* fields of the message.                                                  *)
(***************************************************************************)
EXTENDS SvmEndpoint

CONSTANTS
  Contract,      \* the destination contract on EVM
  ZeroAddress,   \* address(0)
  EvmChain       \* the chain id of the EVM endpoint

ASSUME BridgeAssumption ==
  /\ MaxAdapters \in 1 .. 128
  /\ EvmChain \in ChainIds
  /\ ZeroAddress \notin Users

VARIABLES
  adapterInfos, registeredAdapters, sendAdapterArray, recvAdapterBitmap,
  indexedSend, indexedRecv, isInitialized, evm_admin, evm_pending_admin,
  attestationInfo, messageReceived, evm_deliveries, attestedBy

evmVars == <<adapterInfos, registeredAdapters, sendAdapterArray,
             recvAdapterBitmap, indexedSend, indexedRecv, isInitialized,
             evm_admin, evm_pending_admin, attestationInfo,
             messageReceived, evm_deliveries, attestedBy>>

bridgeVars == <<vars, evmVars>>

\* A message of integrator i for the contract, as attestMessage, recvMessage
\* and execMessage on EVM are told of it.
Message(i, n) == [src_chain |-> CHAIN_ID, src_addr |-> i, sequence |-> n,
                  dst_chain |-> EvmChain, dst_addr |-> Contract]

Route == {Message(i, n) : i \in Integrators, n \in 0 .. MaxSequence}

Evm == INSTANCE EvmEndpoint WITH
  Integrators <- {Contract},
  Users <- Users \cup {ZeroAddress},
  MAX_ADAPTERS <- MaxAdapters,
  Messages <- Route,
  ourChain <- EvmChain,
  admin <- evm_admin,
  pending_admin <- evm_pending_admin,
  deliveries <- evm_deliveries

\* The adapters of the route: those that picked message m up.
Carriers(m) ==
  {a \in Adapters : [src_addr |-> m.src_addr, sequence |-> m.sequence,
                     adapter |-> a] \in picked_up}

-----------------------------------------------------------------------------
Send ==
  /\ \E i \in Integrators, k \in OutboxKeys : send_message(i, k, EvmChain)
  /\ UNCHANGED <<configVars, inboxVars, evmVars>>

PickUpBy(k, a) ==
  /\ pick_up_message(k, a)
  /\ UNCHANGED <<configVars, inboxVars, evmVars>>

\* The counterpart of an adapter on EVM, here under the same name.
Relay(m, a) ==
  /\ a \in Carriers(m)
  /\ Evm!attestMessage(m, a)
  /\ UNCHANGED vars

Receive(m) == Evm!recvMessage(m, Contract) /\ UNCHANGED vars

\* The contract may execute any message, sent or not.
Execute(m) == Evm!execMessage(m, Contract) /\ UNCHANGED vars

\* The admin on the SVM side changes the send adapters at any time.
ReconfigureSend ==
  /\ \E i \in Integrators, u \in Users, a \in Adapters :
       \/ enable_send_adapter(i, u, EvmChain, a)
       \/ disable_send_adapter(i, u, EvmChain, a)
  /\ UNCHANGED <<outboxVars, inboxVars, evmVars>>

\* The contract's admin changes its receive adapters at any time.
ReconfigureRecv ==
  /\ \E u \in Users, a \in Adapters :
       \/ Evm!enableRecvAdapter(Contract, u, CHAIN_ID, a)
       \/ Evm!disableRecvAdapter(Contract, u, CHAIN_ID, a)
  /\ UNCHANGED vars

BridgeNext ==
  \/ Send
  \/ \E k \in OutboxKeys, a \in Adapters : PickUpBy(k, a)
  \/ \E m \in Route, a \in Adapters : Relay(m, a)
  \/ \E m \in Route : Receive(m)
  \/ \E m \in Route : Execute(m)
  \/ ReconfigureSend
  \/ ReconfigureRecv

\* The route between two whole endpoints, from their deployment on: everything
\* the SVM endpoint can do, messages to other chains included, and every call
\* of the contract, its admins and its adapters on EVM.
RouteInit == Init /\ Evm!Init

Configure ==
  /\ \/ \E u \in Users : Evm!register(Contract, u)
     \/ \E u \in Users : Evm!AdminCall(Contract, u)
     \/ \E u \in Users : Evm!AdapterCall(Contract, u)
  /\ UNCHANGED vars

RouteNext ==
  \/ Next /\ UNCHANGED evmVars
  \/ Configure
  \/ \E m \in Route, a \in Adapters : Relay(m, a)
  \/ \E m \in Route : Receive(m)
  \/ \E m \in Route : Execute(m)

RouteSpec == RouteInit /\ [][RouteNext]_bridgeVars

\* Adapters that keep picking up and relaying, and a contract that keeps
\* asking for its messages.
RouteFairness ==
  /\ \A k \in OutboxKeys, a \in Adapters : WF_bridgeVars(PickUpBy(k, a))
  /\ \A m \in Route, a \in Adapters : WF_bridgeVars(Relay(m, a))
  /\ \A m \in Route : WF_bridgeVars(Receive(m))

-----------------------------------------------------------------------------
\* The number of attestations EVM counts for a message never exceeds the
\* number of adapters that carried it, a message the contract received was
\* sent and carried, and none is delivered twice: duplicated and late relays,
\* before or after an execution, add nothing.
NothingFromNowhere ==
  \A m \in Route :
    /\ attestationInfo[m].numAttested <= Cardinality(Carriers(m))
    /\ Len(evm_deliveries[m]) <= 1
    /\ evm_deliveries[m] = <<"recv">> =>
         /\ Carriers(m) # {}
         /\ \E s \in sent : /\ s.src_addr = m.src_addr
                            /\ s.sequence = m.sequence

\* The contract accepts attestations of all its registered adapters.
AllAccepted ==
  Evm!getRecvAdaptersByChain(Contract, CHAIN_ID)
    = registeredAdapters[Contract]

\* If the contract's admin, whatever it disabled before, in the end leaves all
\* receive adapters enabled, every message sent is received or executed, and
\* every adapter enabled when it was sent attests to it: also after the
\* delivery, and although the sender may disable adapters or reuse the outbox
\* account meanwhile.
SentIsReceivedAndAttested ==
  <>[]AllAccepted =>
    \A i \in Integrators, n \in 0 .. MaxSequence :
      LET Sent == {s \in sent : s.src_addr = i /\ s.sequence = n}
          m    == Message(i, n)
      IN  Sent # {} ~>
            /\ evm_deliveries[m] # <<>>
            /\ attestationInfo[m].attestedAdapters =
                 UNION {s.adapters : s \in Sent}

=============================================================================
