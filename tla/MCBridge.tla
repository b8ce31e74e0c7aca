------------------------------ MODULE MCBridge ------------------------------
(* Instances of Bridge for TLC. *)
EXTENDS Bridge

CONSTANTS u1, a1, a2

NoMessages == {}

Order == <<a1, a2>>

Both == {0, 1}

\* The state after register, two add_adapter and two enable_send_adapter on
\* SVM, and the corresponding calls for receiving on EVM.
ConfiguredInit ==
  LET IndexOf(a) == IF a = a1 THEN 0 ELSE 1
      At(c, d, value, none) == IF c = d THEN value ELSE none
  IN
  /\ registered = Integrators
  /\ admin = [i \in Integrators |-> u1]
  /\ pending_admin = [i \in Integrators |-> None]
  /\ admin_updated = [integrator |-> None, old_admin |-> None,
                      new_admin |-> None]
  /\ adapter_infos = [i \in Integrators |-> Order]
  /\ adapter_info = [i \in Integrators |-> [a \in Adapters |-> IndexOf(a)]]
  /\ chain_config = [i \in Integrators |-> [c \in ChainIds |->
       At(c, EvmChain, [exists |-> TRUE, chain_id |-> EvmChain,
                        send_adapter_bitmap |-> Both,
                        recv_adapter_bitmap |-> {}], NoChainConfig)]]
  /\ sequence_tracker = [i \in Integrators |-> 0]
  /\ outbox_message = [k \in OutboxKeys |-> None]
  /\ message_sent = [sender |-> None, sequence |-> 0]
  /\ sent = {}
  /\ picked_up = {}
  /\ InboxInit
  /\ adapterInfos = [i \in {Contract} |-> [a \in Adapters |->
                       [registered |-> TRUE, index |-> IndexOf(a)]]]
  /\ registeredAdapters = [i \in {Contract} |-> Order]
  /\ sendAdapterArray = [i \in {Contract} |-> [c \in ChainIds |-> <<>>]]
  /\ recvAdapterBitmap = [i \in {Contract} |-> [c \in ChainIds |->
                            At(c, CHAIN_ID, Both, {})]]
  /\ indexedSend = [i \in {Contract} |-> [c \in ChainIds |-> {}]]
  /\ indexedRecv = [i \in {Contract} |-> [c \in ChainIds |->
                      At(c, CHAIN_ID, Adapters, {})]]
  /\ isInitialized = [i \in {Contract} |-> TRUE]
  /\ evm_admin = [i \in {Contract} |-> u1]
  /\ evm_pending_admin = [i \in {Contract} |-> ZeroAddress]
  /\ attestationInfo = [m \in Route |->
       [executed |-> FALSE, numAttested |-> 0, attestedAdapters |-> {}]]
  /\ messageReceived = {}
  /\ evm_deliveries = [m \in Route |-> <<>>]
  /\ attestedBy = {}

BridgeSpec == ConfiguredInit /\ [][BridgeNext]_bridgeVars /\ RouteFairness

=============================================================================
