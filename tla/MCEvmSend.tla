----------------------------- MODULE MCEvmSend -----------------------------
(* Instances of EvmSend for TLC. *)
EXTENDS EvmSend

CONSTANTS i1, u1, a1, a2

OneMessage == {[src_chain |-> 2, dst_chain |-> ourChain, dst_addr |-> i1]}

\* The state after register(i1, u1), addAdapter(i1, a1), addAdapter(i1, a2),
\* enableSendAdapter(i1, 2, a1), enableSendAdapter(i1, 2, a2) and
\* enableRecvAdapter(i1, 2, a1).
ConfiguredInit ==
  LET Info(a) == IF a = a1 THEN [registered |-> TRUE, index |-> 0] ELSE
                 IF a = a2 THEN [registered |-> TRUE, index |-> 1] ELSE
                                [registered |-> FALSE, index |-> 0]
      At(c, value, none) == IF c = 2 THEN value ELSE none
  IN
  /\ adapterInfos = [i \in Integrators |-> [a \in Adapters |-> Info(a)]]
  /\ registeredAdapters = [i \in Integrators |-> <<a1, a2>>]
  /\ sendAdapterArray = [i \in Integrators |-> [c \in ChainIds |-> At(c,
       <<[addr |-> a1, index |-> 0], [addr |-> a2, index |-> 1]>>, <<>>)]]
  /\ recvAdapterBitmap = [i \in Integrators |-> [c \in ChainIds |->
       At(c, {0}, {})]]
  /\ indexedSend = [i \in Integrators |-> [c \in ChainIds |->
       At(c, {a1, a2}, {})]]
  /\ indexedRecv = [i \in Integrators |-> [c \in ChainIds |->
       At(c, {a1}, {})]]
  /\ isInitialized = [i \in Integrators |-> TRUE]
  /\ admin = [i \in Integrators |-> u1]
  /\ pending_admin = [i \in Integrators |-> ZeroAddress]
  /\ attestationInfo = [m \in Messages |->
       [executed |-> FALSE, numAttested |-> 0, attestedAdapters |-> {}]]
  /\ messageReceived = {}
  /\ deliveries = [m \in Messages |-> <<>>]
  /\ attestedBy = {}
  /\ messageSequence = [i \in Integrators |-> 0]
  /\ balance = 0
  /\ stack = <<>>
  /\ received = 0
  /\ carried = <<>>
  /\ messageSent = <<>>

\* Of the other functions, those that change what sendMessage works on, and
\* attestMessage, which recvMessage waits for.
Callback ==
  \/ \E c \in ChainIds, a \in Adapters :
       \/ enableSendAdapter(i1, u1, c, a)
       \/ disableSendAdapter(i1, u1, c, a)
  \/ \E m \in Messages : attestMessage(m, a1)

ConfiguredSpec == ConfiguredInit /\ [][SendAmong(Callback)]_allVars

=============================================================================
