------------------------------ MODULE EvmSend ------------------------------
(***************************************************************************)
(* Endpoint.sol, sendMessage.  It calls the adapter contracts one after    *)
(* the other, and an adapter that has control may call any function of the *)
(* endpoint before it returns, sendMessage included.  The calls that wait  *)
(* for an adapter form a stack.  A revert of the adapter, or a balance     *)
(* that does not cover the price it quoted, reverts the sendMessage that   *)
(* called it with everything done since it began; the caller of that       *)
(* sendMessage may go on.  quoteDeliveryPrice is a static call.            *)
(***************************************************************************)
EXTENDS EvmEndpoint

CONSTANTS
  Prices,        \* delivery prices an adapter may quote, values callers send
  MaxSequence,   \* the last uint64: its increment reverts
  MaxValue,      \* bound: total value callers send to the endpoint
  MaxDepth       \* bound: nested calls of sendMessage

ASSUME SendAssumption ==
  Prices \subseteq Nat /\ MaxSequence \in Nat /\ MaxValue \in Nat

VARIABLES
  messageSequence,   \* integrator -> next sequence
  balance,           \* native token the endpoint holds
  stack,             \* the sendMessage calls under way, the innermost last
  received,          \* history: total value callers sent
  carried,           \* history: the calls of IAdapter.sendMessage
  messageSent        \* the MessageSent events

sendVars == <<messageSequence, balance, received, carried, messageSent>>

\* Everything a revert restores.
Storage ==
  [adapterInfos |-> adapterInfos, registeredAdapters |-> registeredAdapters,
   sendAdapterArray |-> sendAdapterArray,
   recvAdapterBitmap |-> recvAdapterBitmap, indexedSend |-> indexedSend,
   indexedRecv |-> indexedRecv, isInitialized |-> isInitialized,
   admin |-> admin, pending_admin |-> pending_admin,
   attestationInfo |-> attestationInfo,
   messageReceived |-> messageReceived, deliveries |-> deliveries,
   attestedBy |-> attestedBy,
   messageSequence |-> messageSequence, balance |-> balance,
   received |-> received, carried |-> carried, messageSent |-> messageSent]

Restore(s) ==
  /\ adapterInfos' = s.adapterInfos
  /\ registeredAdapters' = s.registeredAdapters
  /\ sendAdapterArray' = s.sendAdapterArray
  /\ recvAdapterBitmap' = s.recvAdapterBitmap
  /\ indexedSend' = s.indexedSend
  /\ indexedRecv' = s.indexedRecv
  /\ isInitialized' = s.isInitialized
  /\ admin' = s.admin
  /\ pending_admin' = s.pending_admin
  /\ attestationInfo' = s.attestationInfo
  /\ messageReceived' = s.messageReceived
  /\ deliveries' = s.deliveries
  /\ attestedBy' = s.attestedBy
  /\ messageSequence' = s.messageSequence
  /\ balance' = s.balance
  /\ received' = s.received
  /\ carried' = s.carried
  /\ messageSent' = s.messageSent

SendInit ==
  /\ Init
  /\ messageSequence = [i \in Integrators |-> 0]
  /\ balance = 0
  /\ stack = <<>>
  /\ received = 0
  /\ carried = <<>>
  /\ messageSent = <<>>

-----------------------------------------------------------------------------
Top == stack[Len(stack)]

Pop == SubSeq(stack, 1, Len(stack) - 1)

InLoop == stack # <<>> /\ ~Top.inAdapter

InAdapter == stack # <<>> /\ Top.inAdapter

\* Somebody can call the endpoint: between transactions, or an adapter.
CanBeCalled == ~InLoop

Accept(value) ==
  /\ received + value <= MaxValue
  /\ received' = received + value
  /\ balance' = balance + value

\* parseInstructions reverts on an index past the registered adapters.
InstructionsOk(i, instructed) ==
  \A k \in instructed : k < Len(registeredAdapters[i])

\* Mutant: the counter is not stored.
useMessageSequence_NotStored(i) == UNCHANGED messageSequence

useMessageSequence(i) ==
  /\ messageSequence[i] < MaxSequence
  /\ messageSequence' = [messageSequence EXCEPT ![i] = @ + 1]

\* What sendMessage holds in memory when its loop begins: `instructed` are the
\* indices for which the caller passes an instruction, and the send adapters
\* are copied.  enabled and toWhom are history: the adapters the caller means.
InMemory(i, c, instructed) ==
  [integrator |-> i, dstChain |-> c, sequence |-> messageSequence[i],
   instructed |-> instructed, sendAdapters |-> sendAdapterArray[i][c],
   n |-> 1, inAdapter |-> FALSE, undo |-> Storage,
   enabled |-> indexedSend[i][c],
   toWhom |-> {registeredAdapters[i][k + 1] : k \in instructed}]

\* sendMessage up to its loop.
sendMessage(i, c, value, instructed) ==
  /\ CanBeCalled
  /\ Len(stack) < MaxDepth
  /\ InstructionsOk(i, instructed)
  /\ c # 0
  /\ sendAdapterArray[i][c] # <<>>
  /\ useMessageSequence(i)
  /\ Accept(value)
  /\ stack' = Append(stack, InMemory(i, c, instructed))
  /\ UNCHANGED <<vars, carried, messageSent>>

\* Mutant: the loop reads storage, which the adapters can change.
LoopAdapters_FromStorage == sendAdapterArray[Top.integrator][Top.dstChain]

LoopAdapters == Top.sendAdapters

\* Mutant: the adapter gets all the endpoint holds.
PayAdapter_AllOfIt(price) == balance' = 0

PayAdapter(price) == balance' = balance - price

\* One turn of the loop, up to the call of the adapter.
CallAdapter(price) ==
  /\ InLoop
  /\ Top.n <= Len(LoopAdapters)
  /\ price <= balance
  /\ PayAdapter(price)
  /\ LET to == LoopAdapters[Top.n]
     IN  carried' = Append(carried,
           [integrator |-> Top.integrator, sequence |-> Top.sequence,
            adapter |-> to.addr, price |-> price,
            instructed |-> to.index \in Top.instructed])
  /\ stack' = [stack EXCEPT ![Len(stack)].inAdapter = TRUE]
  /\ UNCHANGED <<vars, messageSequence, received, messageSent>>

RevertSend == Restore(Top.undo) /\ stack' = Pop

\* The endpoint's balance does not cover the price.
PriceNotCovered ==
  /\ InLoop
  /\ Top.n <= Len(LoopAdapters)
  /\ \E price \in Prices : price > balance
  /\ RevertSend

AdapterReverts == InAdapter /\ RevertSend

AdapterReturns ==
  /\ InAdapter
  /\ stack' = [stack EXCEPT ![Len(stack)].inAdapter = FALSE,
                            ![Len(stack)].n = @ + 1]
  /\ UNCHANGED <<vars, sendVars>>

FinishSend ==
  /\ InLoop
  /\ Top.n > Len(LoopAdapters)
  /\ messageSent' = Append(messageSent,
       [integrator |-> Top.integrator, sequence |-> Top.sequence,
        enabled |-> Top.enabled, toWhom |-> Top.toWhom])
  /\ stack' = Pop
  /\ UNCHANGED <<vars, messageSequence, balance, received, carried>>

\* Any other function of the endpoint, called by anybody.
OtherCall(call) ==
  /\ CanBeCalled
  /\ call
  /\ UNCHANGED <<stack, sendVars>>

\* recvMessage is payable.
recvMessagePaying(m, i, value) ==
  /\ CanBeCalled
  /\ recvMessage(m, i)
  /\ Accept(value)
  /\ UNCHANGED <<stack, messageSequence, carried, messageSent>>

SendStep ==
  \/ \E i \in Integrators, c \in ChainIds, value \in Prices,
        instructed \in SUBSET Index : sendMessage(i, c, value, instructed)
  \/ \E price \in Prices : CallAdapter(price)
  \/ PriceNotCovered
  \/ AdapterReverts
  \/ AdapterReturns
  \/ FinishSend

\* The steps of sendMessage among the calls of others: `call` is what else is
\* called, and recvMessage with a value.
SendAmong(call) ==
  \/ SendStep
  \/ OtherCall(call)
  \/ \E m \in Messages, i \in Integrators, value \in Prices \ {0} :
       recvMessagePaying(m, i, value)

SendNext == SendAmong(Next)

allVars == <<vars, stack, sendVars>>

SendSpec == SendInit /\ [][SendNext]_allVars

-----------------------------------------------------------------------------
Committed == stack = <<>>

\* The MessageSent events, and the adapter calls, by position.
Events == 1 .. Len(messageSent)

Calls == 1 .. Len(carried)

\* Two records, of an event or of a call of an adapter, of the same message.
SameMessage(x, y) == x.integrator = y.integrator /\ x.sequence = y.sequence

\* MessageSequence.sol: "The message sequence needs to be unique for each
\* sender."  Between transactions the MessageSent events of an integrator carry
\* each sequence below its counter exactly once, whatever was sent from within
\* an adapter and whatever was reverted.
SentSequencesDense ==
  Committed =>
    /\ \A i \in Integrators :
         {messageSent[n].sequence :
            n \in {e \in Events : messageSent[e].integrator = i}}
           = 0 .. messageSequence[i] - 1
    /\ \A m, n \in Events :
         SameMessage(messageSent[m], messageSent[n]) => m = n

\* Between transactions a message with a MessageSent event was handed once to
\* each adapter that was enabled for its chain when sendMessage was called,
\* with the instruction meant for that adapter and for no other, although an
\* adapter can reconfigure the integrator during the loop; and no adapter keeps
\* a message whose sendMessage was reverted.
SentIsCarriedByAll ==
  Committed =>
    LET Of(e) == {n \in Calls : SameMessage(messageSent[e], carried[n])}
    IN  /\ \A e \in Events :
             /\ {carried[n].adapter : n \in Of(e)} = messageSent[e].enabled
             /\ \A m, n \in Of(e) : carried[m].adapter = carried[n].adapter
                                       => m = n
             /\ \A n \in Of(e) :
                  carried[n].instructed =
                    (carried[n].adapter \in messageSent[e].toWhom)
        /\ Calls = UNION {Of(e) : e \in Events}

\* What the adapters were paid for these calls.
Paid(calls) ==
  LET Sum[n \in 0 .. Len(calls)] ==
        IF n = 0 THEN 0 ELSE Sum[n - 1] + calls[n].price
  IN  Sum[Len(calls)]

\* The endpoint holds what callers sent less what the adapters quoted for the
\* messages they keep: a revert takes every payment back.
FundsConserved == balance + Paid(carried) = received

=============================================================================
