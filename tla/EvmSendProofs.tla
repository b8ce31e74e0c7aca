--------------------------- MODULE EvmSendProofs ---------------------------
(***************************************************************************)
(* Theorems about sendMessage, with every other function of the endpoint   *)
(* called from within the adapters: for every depth of the stack, every    *)
(* set of integrators, adapters, chains, messages and prices, and every    *)
(* bound on the sequences.                                                 *)
(***************************************************************************)
EXTENDS EvmSend, EvmEndpointProofs

-----------------------------------------------------------------------------
(* Type correctness *)

Call == [integrator : Integrators, sequence : Nat, adapter : Adapters,
         price : Nat, instructed : BOOLEAN]

Event == [integrator : Integrators, sequence : Nat,
          enabled : SUBSET Adapters, toWhom : SUBSET Adapters]

\* The storage a revert restores.
Saved ==
  [adapterInfos : [Integrators -> [Adapters -> AdapterInfo]],
   registeredAdapters : [Integrators -> Seq(Adapters)],
   sendAdapterArray : [Integrators -> [ChainIds -> Seq(PerSendAdapterInfo)]],
   recvAdapterBitmap : [Integrators -> [ChainIds -> SUBSET Index]],
   indexedSend : [Integrators -> [ChainIds -> SUBSET Adapters]],
   indexedRecv : [Integrators -> [ChainIds -> SUBSET Adapters]],
   isInitialized : [Integrators -> BOOLEAN],
   admin : [Integrators -> Users], pending_admin : [Integrators -> Users],
   attestationInfo : [Messages -> AttestationInfo],
   messageReceived : SUBSET Messages,
   deliveries : [Messages -> Seq({"recv", "exec"})],
   attestedBy : SUBSET (Messages \X Adapters),
   messageSequence : [Integrators -> Nat], balance : Nat, received : Nat,
   carried : Seq(Call), messageSent : Seq(Event)]

Frame == [integrator : Integrators, dstChain : ChainIds, sequence : Nat,
          instructed : SUBSET Index, sendAdapters : Seq(PerSendAdapterInfo),
          n : Nat \ {0}, inAdapter : BOOLEAN, undo : Saved,
          enabled : SUBSET Adapters, toWhom : SUBSET Adapters]

SendTypeOK ==
  /\ TypeOK
  /\ messageSequence \in [Integrators -> Nat]
  /\ balance \in Nat /\ received \in Nat
  /\ carried \in Seq(Call) /\ messageSent \in Seq(Event)
  /\ stack \in Seq(Frame)

\* The fields of the storage, and their types.
LEMMA StorageIs ==
  /\ Storage.adapterInfos = adapterInfos
  /\ Storage.registeredAdapters = registeredAdapters
  /\ Storage.sendAdapterArray = sendAdapterArray
  /\ Storage.indexedSend = indexedSend
  /\ Storage.recvAdapterBitmap = recvAdapterBitmap
  /\ Storage.indexedRecv = indexedRecv
  /\ Storage.messageSequence = messageSequence
  /\ Storage.balance = balance
  /\ Storage.received = received
  /\ Storage.carried = carried
  /\ Storage.messageSent = messageSent
  /\ SendTypeOK => Storage \in Saved
<1>1. SendTypeOK => Storage \in Saved
  BY DEF Storage, Saved, SendTypeOK, TypeOK, RegistryTypeOK
<1> QED BY <1>1 DEF Storage

\* What is restored is well typed.
LEMMA RestoreIsTyped ==
  ASSUME NEW u \in Saved, Restore(u)
  PROVE  /\ TypeOK'
         /\ messageSequence' \in [Integrators -> Nat]
         /\ balance' \in Nat /\ received' \in Nat
         /\ carried' \in Seq(Call) /\ messageSent' \in Seq(Event)
<1>1. /\ u.adapterInfos \in [Integrators -> [Adapters -> AdapterInfo]]
      /\ u.registeredAdapters \in [Integrators -> Seq(Adapters)]
      /\ u.sendAdapterArray \in
           [Integrators -> [ChainIds -> Seq(PerSendAdapterInfo)]]
      /\ u.recvAdapterBitmap \in [Integrators -> [ChainIds -> SUBSET Index]]
      /\ u.indexedSend \in [Integrators -> [ChainIds -> SUBSET Adapters]]
      /\ u.indexedRecv \in [Integrators -> [ChainIds -> SUBSET Adapters]]
  BY DEF Saved
<1>2. /\ u.isInitialized \in [Integrators -> BOOLEAN]
      /\ u.admin \in [Integrators -> Users]
      /\ u.pending_admin \in [Integrators -> Users]
      /\ u.attestationInfo \in [Messages -> AttestationInfo]
      /\ u.messageReceived \subseteq Messages
      /\ u.deliveries \in [Messages -> Seq({"recv", "exec"})]
      /\ u.attestedBy \subseteq Messages \X Adapters
  BY DEF Saved
<1>3. /\ u.messageSequence \in [Integrators -> Nat]
      /\ u.balance \in Nat /\ u.received \in Nat
      /\ u.carried \in Seq(Call) /\ u.messageSent \in Seq(Event)
  BY DEF Saved
<1> QED BY <1>1, <1>2, <1>3 DEF Restore, TypeOK, RegistryTypeOK

\* The innermost call, and what is left when it is over.
LEMMA TopAndPop ==
  ASSUME stack \in Seq(Frame), stack # <<>>
  PROVE  /\ Len(stack) \in Nat \ {0} /\ Top \in Frame
         /\ Top = stack[Len(stack)]
         /\ Pop \in Seq(Frame) /\ Len(Pop) = Len(stack) - 1
         /\ \A k \in 1 .. Len(stack) - 1 : Pop[k] = stack[k]
<1>1. Len(stack) \in Nat /\ Len(stack) >= 1
  OBVIOUS
<1>2. Top \in Frame /\ Top = stack[Len(stack)]
  BY <1>1 DEF Top
<1> DEFINE len == Len(stack) - 1
<1>3. len \in Nat /\ len <= Len(stack)
  BY <1>1
<1> HIDE DEF len
<1>4. SubSeq(stack, 1, len) \in Seq(Frame) /\ Len(SubSeq(stack, 1, len)) = len
  BY <1>1, <1>3
<1>5. \A k \in 1 .. len : SubSeq(stack, 1, len)[k] = stack[k]
  BY <1>1, <1>3
<1> QED BY <1>1, <1>2, <1>4, <1>5 DEF Pop, len

\* The types of a frame's fields, and of a frame whose loop has moved on.
LEMMA FrameIs ==
  ASSUME NEW f \in Frame
  PROVE  /\ f.integrator \in Integrators /\ f.dstChain \in ChainIds
         /\ f.sequence \in Nat /\ f.n \in Nat \ {0} /\ f.inAdapter \in BOOLEAN
         /\ f.instructed \subseteq Index
         /\ f.sendAdapters \in Seq(PerSendAdapterInfo)
         /\ f.undo \in Saved
         /\ f.enabled \subseteq Adapters /\ f.toWhom \subseteq Adapters
         /\ \A b \in BOOLEAN, m \in Nat \ {0} :
              /\ [f EXCEPT !.inAdapter = b] \in Frame
              /\ [f EXCEPT !.inAdapter = b, !.n = m] \in Frame
BY DEF Frame

\* The innermost call replaced.
LEMMA ReplaceTop ==
  ASSUME NEW s \in Seq(Frame), Len(s) >= 1, NEW f \in Frame
  PROVE  /\ [s EXCEPT ![Len(s)] = f] \in Seq(Frame)
         /\ Len([s EXCEPT ![Len(s)] = f]) = Len(s)
         /\ [s EXCEPT ![Len(s)] = f][Len(s)] = f
         /\ \A k \in 1 .. Len(s) - 1 : [s EXCEPT ![Len(s)] = f][k] = s[k]
OBVIOUS

\* What sendMessage holds in memory when its loop begins is a frame.
LEMMA InMemoryIs ==
  ASSUME SendTypeOK, NEW i \in Integrators, NEW c \in ChainIds,
         NEW instructed \in SUBSET Index, InstructionsOk(i, instructed)
  PROVE  InMemory(i, c, instructed) \in Frame
<1> DEFINE toWhom == {registeredAdapters[i][k + 1] : k \in instructed}
<1>1. toWhom \subseteq Adapters
  <2>1. registeredAdapters[i] \in Seq(Adapters)
    BY DEF SendTypeOK, TypeOK, RegistryTypeOK
  <2>2. \A k \in instructed : k \in Nat /\ k < Len(registeredAdapters[i])
    BY RegistryAssumption DEF InstructionsOk, Index
  <2>3. \A k \in instructed : k + 1 \in 1 .. Len(registeredAdapters[i])
    BY <2>1, <2>2
  <2> QED BY <2>1, <2>3
<1>2. /\ messageSequence[i] \in Nat
      /\ sendAdapterArray[i][c] \in Seq(PerSendAdapterInfo)
      /\ indexedSend[i][c] \subseteq Adapters
  BY DEF SendTypeOK, TypeOK, RegistryTypeOK
<1>3. Storage \in Saved
  BY StorageIs
<1> HIDE DEF toWhom
<1> QED BY <1>1, <1>2, <1>3 DEF Frame, InMemory, toWhom

\* The loop calls the adapter at its position.
LEMMA CallIs ==
  ASSUME SendTypeOK, NEW price \in Prices, CallAdapter(price)
  PROVE  \E call \in Call :
           /\ Top.n \in 1 .. Len(Top.sendAdapters)
           /\ call.integrator = Top.integrator
           /\ call.sequence = Top.sequence
           /\ call.adapter = Top.sendAdapters[Top.n].addr
           /\ call.price = price
           /\ call.instructed =
                (Top.sendAdapters[Top.n].index \in Top.instructed)
           /\ carried' = Append(carried, call)
           /\ [Top EXCEPT !.inAdapter = TRUE] \in Frame
           /\ stack' = [stack EXCEPT ![Len(stack)] =
                          [Top EXCEPT !.inAdapter = TRUE]]
<1> DEFINE to == Top.sendAdapters[Top.n]
           call == [integrator |-> Top.integrator, sequence |-> Top.sequence,
                    adapter |-> to.addr, price |-> price,
                    instructed |-> to.index \in Top.instructed]
<1>1. stack \in Seq(Frame) /\ stack # <<>>
  BY DEF SendTypeOK, CallAdapter, InLoop
<1>2. Top \in Frame /\ Top = stack[Len(stack)]
  BY <1>1, TopAndPop
<1>3. /\ Top.integrator \in Integrators /\ Top.sequence \in Nat
      /\ Top.sendAdapters \in Seq(PerSendAdapterInfo)
      /\ [Top EXCEPT !.inAdapter = TRUE] \in Frame
  BY <1>2, FrameIs
<1>4. Top.n \in 1 .. Len(Top.sendAdapters)
  <2>1. Top.n \in Nat \ {0} /\ Top.n <= Len(Top.sendAdapters)
    BY <1>2, FrameIs DEF CallAdapter, LoopAdapters
  <2>2. Len(Top.sendAdapters) \in Nat
    BY <1>3
  <2> QED BY <2>1, <2>2
<1>5. to.addr \in Adapters
  <2>1. to \in PerSendAdapterInfo
    BY <1>3, <1>4
  <2> QED BY <2>1 DEF PerSendAdapterInfo
<1>6. carried' = Append(carried, call)
  BY DEF CallAdapter, LoopAdapters
<1>7. stack' = [stack EXCEPT ![Len(stack)] = [Top EXCEPT !.inAdapter = TRUE]]
  BY <1>2 DEF CallAdapter
<1> HIDE DEF to
<1>8. call \in Call
  BY <1>3, <1>5, SendAssumption DEF Call
<1>9. /\ call.integrator = Top.integrator /\ call.sequence = Top.sequence
      /\ call.adapter = to.addr /\ call.price = price
      /\ call.instructed = (to.index \in Top.instructed)
  OBVIOUS
<1> HIDE DEF call
<1> QED BY <1>3, <1>6, <1>7, <1>8, <1>9, <1>4 DEF to

\* An adapter that returns hands the control back to the loop.
LEMMA ReturnIs ==
  ASSUME SendTypeOK, AdapterReturns
  PROVE  /\ [Top EXCEPT !.inAdapter = FALSE, !.n = @ + 1] \in Frame
         /\ stack' = [stack EXCEPT ![Len(stack)] =
                        [Top EXCEPT !.inAdapter = FALSE, !.n = @ + 1]]
<1>1. stack \in Seq(Frame) /\ stack # <<>>
  BY DEF SendTypeOK, AdapterReturns, InAdapter
<1>2. Len(stack) \in Nat \ {0} /\ Top \in Frame /\ Top = stack[Len(stack)]
  BY <1>1, TopAndPop
<1>3. [Top EXCEPT !.inAdapter = FALSE, !.n = @ + 1] \in Frame
  <2>1. [Top EXCEPT !.inAdapter = FALSE, !.n = Top.n + 1] \in Frame
    <3>1. Top.n \in Nat
      BY <1>2, FrameIs
    <3>2. Top.n + 1 \in Nat \ {0}
      BY <3>1
    <3> QED BY <1>2, <3>2, FrameIs
  <2>2. [Top EXCEPT !.inAdapter = FALSE, !.n = @ + 1]
          = [Top EXCEPT !.inAdapter = FALSE, !.n = Top.n + 1]
    BY <1>2 DEF Frame
  <2> QED BY <2>1, <2>2
<1>4. stack' = [stack EXCEPT ![Len(stack)].inAdapter = FALSE,
                             ![Len(stack)].n = @ + 1]
  BY DEF AdapterReturns
<1>5. [stack EXCEPT ![Len(stack)].inAdapter = FALSE,
                    ![Len(stack)].n = @ + 1]
        = [stack EXCEPT ![Len(stack)] =
             [Top EXCEPT !.inAdapter = FALSE, !.n = @ + 1]]
  BY <1>1, <1>2 DEF Frame
<1> QED BY <1>3, <1>4, <1>5

\* The last turn of the loop emits the event.
LEMMA FinishIs ==
  ASSUME SendTypeOK, FinishSend
  PROVE  \E event \in Event :
           /\ event.integrator = Top.integrator
           /\ event.sequence = Top.sequence
           /\ event.enabled = Top.enabled
           /\ event.toWhom = Top.toWhom
           /\ messageSent' = Append(messageSent, event)
<1> DEFINE event == [integrator |-> Top.integrator,
                     sequence |-> Top.sequence,
                     enabled |-> Top.enabled, toWhom |-> Top.toWhom]
<1>1. Top \in Frame
  BY TopAndPop DEF SendTypeOK, FinishSend, InLoop
<1>2. event \in Event
  BY <1>1, FrameIs DEF Event
<1>3. messageSent' = Append(messageSent, event)
  BY DEF FinishSend
<1>4. /\ event.integrator = Top.integrator /\ event.sequence = Top.sequence
      /\ event.enabled = Top.enabled /\ event.toWhom = Top.toWhom
  OBVIOUS
<1> HIDE DEF event
<1> QED BY <1>2, <1>3, <1>4

\* A call of another function, between transactions or from an adapter.
LEMMA OtherIs ==
  ASSUME \/ OtherCall(Next)
         \/ \E m \in Messages, i \in Integrators, value \in Prices \ {0} :
              recvMessagePaying(m, i, value)
  PROVE  /\ [Next]_vars
         /\ UNCHANGED <<stack, messageSequence, carried, messageSent>>
<1>1. CASE OtherCall(Next)
  BY <1>1 DEF OtherCall, sendVars
<1>2. ASSUME NEW m \in Messages, NEW i \in Integrators, NEW value,
             recvMessagePaying(m, i, value)
      PROVE  Next /\ UNCHANGED <<stack, messageSequence, carried, messageSent>>
  BY <1>2 DEF recvMessagePaying, Next, MessageCall
<1> QED BY <1>1, <1>2

\* A revert restores what the innermost call saved.
LEMMA RevertIs ==
  ASSUME SendTypeOK, PriceNotCovered \/ AdapterReverts
  PROVE  /\ stack # <<>> /\ Top \in Frame /\ Top.undo \in Saved
         /\ Restore(Top.undo) /\ stack' = Pop /\ Pop \in Seq(Frame)
<1>1. stack # <<>> /\ Restore(Top.undo) /\ stack' = Pop
  BY DEF PriceNotCovered, AdapterReverts, RevertSend, InLoop, InAdapter
<1>2. Top \in Frame /\ Pop \in Seq(Frame)
  BY <1>1, TopAndPop DEF SendTypeOK
<1> QED BY <1>1, <1>2, FrameIs

\* Every step of sendMessage, and of what is called meanwhile, keeps the
\* storage, the stack and what the stack has saved well typed.
LEMMA SendTypeStep ==
  ASSUME SendTypeOK, [SendNext]_allVars
  PROVE  SendTypeOK'
<1>1. /\ TypeOK /\ messageSequence \in [Integrators -> Nat]
      /\ balance \in Nat /\ received \in Nat
      /\ carried \in Seq(Call) /\ messageSent \in Seq(Event)
      /\ stack \in Seq(Frame)
  BY DEF SendTypeOK
<1>2. UNCHANGED vars => TypeOK'
  BY <1>1, TypeStep
<1>3. ASSUME NEW value \in Prices, Accept(value)
      PROVE  balance' \in Nat /\ received' \in Nat
  BY <1>1, <1>3, SendAssumption DEF Accept
<1>4. ASSUME NEW i \in Integrators, NEW c \in ChainIds, NEW value \in Prices,
             NEW instructed \in SUBSET Index,
             sendMessage(i, c, value, instructed)
      PROVE  SendTypeOK'
  <2>1. PICK f \in Frame : stack' = Append(stack, f)
    BY <1>4, InMemoryIs DEF sendMessage
  <2>2. stack' \in Seq(Frame)
    BY <1>1, <2>1
  <2>3. messageSequence' \in [Integrators -> Nat]
    BY <1>1, <1>4 DEF sendMessage, useMessageSequence
  <2>4. Accept(value) /\ UNCHANGED <<vars, carried, messageSent>>
    BY <1>4 DEF sendMessage
  <2> QED BY <1>1, <1>2, <1>3, <2>2, <2>3, <2>4 DEF SendTypeOK
<1>5. ASSUME NEW price \in Prices, CallAdapter(price) PROVE SendTypeOK'
  <2>1. PICK call \in Call :
          /\ carried' = Append(carried, call)
          /\ [Top EXCEPT !.inAdapter = TRUE] \in Frame
          /\ stack' = [stack EXCEPT ![Len(stack)] =
                         [Top EXCEPT !.inAdapter = TRUE]]
    BY <1>5, CallIs
  <2>2. carried' \in Seq(Call)
    BY <1>1, <2>1
  <2>3. stack' \in Seq(Frame)
    <3>1. Len(stack) >= 1
      BY <1>1, <1>5 DEF CallAdapter, InLoop
    <3> QED BY <1>1, <2>1, <3>1, ReplaceTop
  <2>4. /\ UNCHANGED <<vars, messageSequence, received, messageSent>>
        /\ price <= balance /\ balance' = balance - price
    BY <1>5 DEF CallAdapter, PayAdapter
  <2>5. balance' \in Nat
    BY <1>1, <2>4, SendAssumption
  <2> QED BY <1>1, <1>2, <2>2, <2>3, <2>4, <2>5 DEF SendTypeOK
<1>6. CASE PriceNotCovered \/ AdapterReverts
  BY <1>6, RevertIs, RestoreIsTyped DEF SendTypeOK
<1>7. CASE AdapterReturns
  <2>1. Len(stack) >= 1
    BY <1>1, <1>7 DEF AdapterReturns, InAdapter
  <2>2. stack' \in Seq(Frame)
    BY <1>1, <1>7, <2>1, ReturnIs, ReplaceTop
  <2>3. UNCHANGED <<vars, sendVars>>
    BY <1>7 DEF AdapterReturns
  <2> QED BY <1>1, <1>2, <2>2, <2>3 DEF SendTypeOK, sendVars
<1>8. CASE FinishSend
  <2>1. PICK event \in Event : messageSent' = Append(messageSent, event)
    BY <1>8, FinishIs
  <2>2. messageSent' \in Seq(Event)
    BY <1>1, <2>1
  <2>3. /\ stack # <<>> /\ stack' = Pop
        /\ UNCHANGED <<vars, messageSequence, balance, received, carried>>
    BY <1>8 DEF FinishSend, InLoop
  <2>4. stack' \in Seq(Frame)
    BY <1>1, <2>3, TopAndPop
  <2> QED BY <1>1, <1>2, <2>2, <2>3, <2>4 DEF SendTypeOK
<1>9. ASSUME \/ OtherCall(Next)
             \/ \E m \in Messages, i \in Integrators,
                   value \in Prices \ {0} : recvMessagePaying(m, i, value)
      PROVE  SendTypeOK'
  <2>1. /\ [Next]_vars
        /\ UNCHANGED <<stack, messageSequence, carried, messageSent>>
    BY <1>9, OtherIs
  <2>2. TypeOK'
    BY <1>1, <2>1, TypeStep
  <2>3. balance' \in Nat /\ received' \in Nat
    BY <1>1, <1>3, <1>9 DEF OtherCall, sendVars, recvMessagePaying
  <2> QED BY <1>1, <2>1, <2>2, <2>3 DEF SendTypeOK
<1>10. CASE UNCHANGED allVars
  BY <1>1, <1>2, <1>10 DEF allVars, sendVars, SendTypeOK
<1> QED
  BY <1>4, <1>5, <1>6, <1>7, <1>8, <1>9, <1>10
  DEF SendNext, SendAmong, SendStep

\* The types hold initially.
LEMMA SendInitIsTyped == SendInit => SendTypeOK
BY InitIsTyped DEF SendInit, SendTypeOK

\* The storage, the calls under way and what they would restore are well
\* typed, whatever the adapters call and whatever is reverted.
THEOREM SendTypeCorrect == SendSpec => []SendTypeOK
BY SendInitIsTyped, SendTypeStep, PTL DEF SendSpec

-----------------------------------------------------------------------------
(* The invariant.  Its parts speak of storage `u`, the present one or one a
   revert may restore, and of the calls under way at depths 1 .. depth. *)

\* The events and the calls under way use up the sequences, each once.
SequencesOk(frames, depth, counters, events) ==
  /\ \A e \in 1 .. Len(events) :
       events[e].sequence < counters[events[e].integrator]
  /\ \A k \in 1 .. depth :
       frames[k].sequence < counters[frames[k].integrator]
  /\ \A i \in Integrators : \A n \in 0 .. counters[i] - 1 :
       LET x == [integrator |-> i, sequence |-> n]
       IN  \/ \E e \in 1 .. Len(events) : SameMessage(events[e], x)
           \/ \E k \in 1 .. depth : SameMessage(frames[k], x)
  /\ \A d, e \in 1 .. Len(events) :
       SameMessage(events[d], events[e]) => d = e
  /\ \A j, k \in 1 .. depth : SameMessage(frames[j], frames[k]) => j = k
  /\ \A e \in 1 .. Len(events), k \in 1 .. depth :
       ~SameMessage(events[e], frames[k])

\* Message x was handed once to each of the adapters `to`, with the right
\* instructions.
Handed(x, to, calls) ==
  /\ \A a \in Adapters : a \in to <=>
       \E n \in 1 .. Len(calls) :
         SameMessage(x, calls[n]) /\ calls[n].adapter = a
  /\ \A m, n \in 1 .. Len(calls) :
       /\ SameMessage(x, calls[m]) /\ SameMessage(x, calls[n])
       /\ calls[m].adapter = calls[n].adapter
       => m = n
  /\ \A n \in 1 .. Len(calls) : SameMessage(x, calls[n]) =>
       calls[n].instructed = (calls[n].adapter \in x.toWhom)

\* The position in the send adapters up to which the loop has called them.
Done(f) == IF f.inAdapter THEN f.n ELSE f.n - 1

Reached(f) == {f.sendAdapters[m].addr : m \in 1 .. Done(f)}

\* Each call of an adapter is of a message sent or under way; what was sent was
\* handed to all its adapters, and what is under way to the first of them.
CallsOk(frames, depth, events, calls) ==
  /\ \A n \in 1 .. Len(calls) :
       \/ \E e \in 1 .. Len(events) : SameMessage(events[e], calls[n])
       \/ \E k \in 1 .. depth : SameMessage(frames[k], calls[n])
  /\ \A e \in 1 .. Len(events) : Handed(events[e], events[e].enabled, calls)
  /\ \A k \in 1 .. depth : Handed(frames[k], Reached(frames[k]), calls)

\* The copy of the send adapters a loop works on.
LoopOk(f) ==
  /\ Done(f) \in 0 .. Len(f.sendAdapters)
  /\ \A a \in Adapters : a \in f.enabled <=>
       \E m \in 1 .. Len(f.sendAdapters) : f.sendAdapters[m].addr = a
  /\ \A m, n \in 1 .. Len(f.sendAdapters) :
       f.sendAdapters[m].addr = f.sendAdapters[n].addr => m = n
  /\ \A m \in 1 .. Len(f.sendAdapters) :
       (f.sendAdapters[m].index \in f.instructed)
         = (f.sendAdapters[m].addr \in f.toWhom)

\* Storage u is in order when the calls at depths 1 .. depth are under way.
StorageOk(frames, depth, u) ==
  /\ \A i \in Integrators :
       /\ IndexesOk(u.registeredAdapters[i], u.adapterInfos[i])
       /\ \A c \in ChainIds :
            ArrayOk(u.sendAdapterArray[i][c], u.indexedSend[i][c],
                    u.adapterInfos[i])
  /\ SequencesOk(frames, depth, u.messageSequence, u.messageSent)
  /\ CallsOk(frames, depth, u.messageSent, u.carried)
  /\ u.balance + Paid(u.carried) = u.received

SendInv ==
  /\ StorageOk(stack, Len(stack), Storage)
  /\ \A k \in 1 .. Len(stack) :
       LoopOk(stack[k]) /\ StorageOk(stack, k - 1, stack[k].undo)

-----------------------------------------------------------------------------
(* What a step does to the sequences and to the calls *)

\* The calls under way matter by their integrator and sequence only.
LEMMA SequencesOfOthers ==
  ASSUME NEW frames, NEW others, NEW depth, NEW counters, NEW events,
         SequencesOk(frames, depth, counters, events),
         \A k \in 1 .. depth : SameMessage(others[k], frames[k])
  PROVE  SequencesOk(others, depth, counters, events)
BY DEF SequencesOk, SameMessage

\* Calls deeper than `depth` do not matter.
LEMMA StorageOfPrefix ==
  ASSUME NEW frames, NEW others, NEW depth, NEW u,
         StorageOk(frames, depth, u),
         \A k \in 1 .. depth : others[k] = frames[k]
  PROVE  StorageOk(others, depth, u)
<1>1. SequencesOk(others, depth, u.messageSequence, u.messageSent)
  BY DEF StorageOk, SequencesOk
<1>2. CallsOk(others, depth, u.messageSent, u.carried)
  BY DEF StorageOk, CallsOk
<1> QED BY <1>1, <1>2 DEF StorageOk

\* A new call of sendMessage takes the next sequence.
LEMMA SendTakesSequence ==
  ASSUME NEW frames \in Seq(Frame), NEW counters \in [Integrators -> Nat],
         NEW events \in Seq(Event),
         SequencesOk(frames, Len(frames), counters, events),
         NEW f \in Frame, f.sequence = counters[f.integrator]
  PROVE  SequencesOk(Append(frames, f), Len(frames) + 1,
                     [counters EXCEPT ![f.integrator] = @ + 1], events)
<1> DEFINE i     == f.integrator
           more  == Append(frames, f)
           after == [counters EXCEPT ![i] = @ + 1]
<1>1. PICK len \in Nat : len = Len(frames)
  OBVIOUS
<1>2. /\ more[len + 1] = f /\ \A k \in 1 .. len : more[k] = frames[k]
  BY <1>1
<1>3. \A k \in 1 .. len + 1 : k = len + 1 \/ k \in 1 .. len
  OBVIOUS
<1>4. i \in Integrators /\ counters[i] \in Nat
  BY FrameIs
<1>5. /\ after[i] = counters[i] + 1
      /\ \A j \in Integrators : j # i => after[j] = counters[j]
  BY <1>4
<1>6. \A e \in 1 .. Len(events) :
        events[e].integrator \in Integrators /\ events[e].sequence \in Nat
  <2>1. \A e \in 1 .. Len(events) : events[e] \in Event
    OBVIOUS
  <2> QED BY <2>1 DEF Event
<1>7. \A k \in 1 .. len :
        frames[k].integrator \in Integrators /\ frames[k].sequence \in Nat
  <2>1. \A k \in 1 .. len : frames[k] \in Frame
    BY <1>1
  <2> QED BY <2>1, FrameIs
<1>8. SequencesOk(frames, len, counters, events)
  BY <1>1
<1> HIDE DEF more, after, i
<1>9. ASSUME NEW j \in Integrators, NEW s \in Nat, s < counters[j]
      PROVE  s < after[j]
  <2>1. counters[j] \in Nat /\ (after[j] = counters[j]
                                \/ after[j] = counters[j] + 1)
    BY <1>5
  <2> QED BY <1>9, <2>1
<1>10. \A e \in 1 .. Len(events) :
         events[e].sequence < after[events[e].integrator]
  BY <1>6, <1>8, <1>9 DEF SequencesOk
<1>11. \A k \in 1 .. len + 1 :
         more[k].sequence < after[more[k].integrator]
  <2>1. f.sequence < after[f.integrator]
    BY <1>4, <1>5 DEF i
  <2>2. \A k \in 1 .. len : frames[k].sequence < after[frames[k].integrator]
    BY <1>7, <1>8, <1>9 DEF SequencesOk
  <2> QED BY <1>2, <1>3, <2>1, <2>2
<1>12. ASSUME NEW j \in Integrators, NEW n \in 0 .. after[j] - 1
       PROVE  LET x == [integrator |-> j, sequence |-> n]
              IN  \/ \E e \in 1 .. Len(events) : SameMessage(events[e], x)
                  \/ \E k \in 1 .. len + 1 : SameMessage(more[k], x)
  <2> DEFINE x == [integrator |-> j, sequence |-> n]
  <2>1. x.integrator = j /\ x.sequence = n
    OBVIOUS
  <2>2. CASE j = i /\ n = counters[i]
    <3>1. SameMessage(more[len + 1], x)
      BY <1>2, <2>1, <2>2 DEF SameMessage, i
    <3>2. len + 1 \in 1 .. len + 1
      OBVIOUS
    <3> QED BY <3>1, <3>2
  <2>3. CASE ~(j = i /\ n = counters[i])
    <3>1. n \in 0 .. counters[j] - 1
      <4>1. counters[j] \in Nat
        OBVIOUS
      <4> QED BY <1>5, <2>3, <4>1
    <3>2. \/ \E e \in 1 .. Len(events) : SameMessage(events[e], x)
          \/ \E k \in 1 .. len : SameMessage(frames[k], x)
      BY <1>8, <3>1 DEF SequencesOk
    <3>3. 1 .. len \subseteq 1 .. len + 1
      OBVIOUS
    <3> QED BY <1>2, <3>2, <3>3
  <2> QED BY <2>2, <2>3
<1>13. ASSUME NEW k \in 1 .. len PROVE ~SameMessage(frames[k], f)
  BY <1>4, <1>7, <1>8, <1>13 DEF SequencesOk, SameMessage, i
<1>14. ASSUME NEW e \in 1 .. Len(events) PROVE ~SameMessage(events[e], f)
  BY <1>4, <1>6, <1>8, <1>14 DEF SequencesOk, SameMessage, i
<1>15. \A j, k \in 1 .. len + 1 : SameMessage(more[j], more[k]) => j = k
  <2>1. \A j, k \in 1 .. len : SameMessage(frames[j], frames[k]) => j = k
    BY <1>8 DEF SequencesOk
  <2>2. \A k \in 1 .. len : ~SameMessage(f, frames[k])
    BY <1>13 DEF SameMessage
  <2> QED BY <1>2, <1>3, <1>13, <2>1, <2>2
<1>16. \A e \in 1 .. Len(events), k \in 1 .. len + 1 :
         ~SameMessage(events[e], more[k])
  <2>1. \A e \in 1 .. Len(events), k \in 1 .. len :
          ~SameMessage(events[e], frames[k])
    BY <1>8 DEF SequencesOk
  <2> QED BY <1>2, <1>3, <1>14, <2>1
<1>17. \A d, e \in 1 .. Len(events) :
         SameMessage(events[d], events[e]) => d = e
  BY <1>8 DEF SequencesOk
<1>18. SequencesOk(more, len + 1, after, events)
  BY <1>10, <1>11, <1>12, <1>15, <1>16, <1>17 DEF SequencesOk
<1> QED BY <1>1, <1>18 DEF more, after, i

\* Nothing was called for the message whose sendMessage begins.
LEMMA SendHasNoCalls ==
  ASSUME NEW frames \in Seq(Frame), NEW counters \in [Integrators -> Nat],
         NEW events \in Seq(Event), NEW calls \in Seq(Call),
         SequencesOk(frames, Len(frames), counters, events),
         CallsOk(frames, Len(frames), events, calls),
         NEW f \in Frame, f.sequence = counters[f.integrator],
         f.n = 1, f.inAdapter = FALSE
  PROVE  CallsOk(Append(frames, f), Len(frames) + 1, events, calls)
<1> DEFINE more == Append(frames, f)
<1>1. PICK len \in Nat : len = Len(frames)
  OBVIOUS
<1>2. /\ more[len + 1] = f /\ \A k \in 1 .. len : more[k] = frames[k]
  BY <1>1
<1>3. /\ \A k \in 1 .. len + 1 : k = len + 1 \/ k \in 1 .. len
      /\ 1 .. len \subseteq 1 .. len + 1
  OBVIOUS
<1>4. CallsOk(frames, len, events, calls)
  BY <1>1
<1> HIDE DEF more
<1>5. ASSUME NEW n \in 1 .. Len(calls) PROVE ~SameMessage(f, calls[n])
  <2> SUFFICES ASSUME SameMessage(f, calls[n]) PROVE FALSE
    OBVIOUS
  <2>1. counters[f.integrator] \in Nat
    BY FrameIs
  <2>2. CASE \E e \in 1 .. Len(events) : SameMessage(events[e], calls[n])
    <3>1. PICK e \in 1 .. Len(events) : SameMessage(events[e], calls[n])
      BY <2>2
    <3>2. events[e].sequence < counters[events[e].integrator]
      BY DEF SequencesOk
    <3> QED BY <2>1, <3>1, <3>2 DEF SameMessage
  <2>3. CASE \E k \in 1 .. len : SameMessage(frames[k], calls[n])
    <3>1. PICK k \in 1 .. len : SameMessage(frames[k], calls[n])
      BY <2>3
    <3>2. frames[k].sequence < counters[frames[k].integrator]
      BY <1>1 DEF SequencesOk
    <3> QED BY <2>1, <3>1, <3>2 DEF SameMessage
  <2> QED BY <1>4, <2>2, <2>3 DEF CallsOk
<1>6. Handed(f, Reached(f), calls)
  <2>1. Reached(f) = {}
    <3>1. Done(f) = 0
      BY DEF Done
    <3> QED BY <3>1 DEF Reached
  <2> QED BY <1>5, <2>1 DEF Handed
<1>7. CallsOk(more, len + 1, events, calls)
  BY <1>2, <1>3, <1>4, <1>6 DEF CallsOk
<1> QED BY <1>1, <1>7 DEF more

\* A record of the same message, for the same adapters.
LEMMA HandedSame ==
  ASSUME NEW x, NEW y, NEW to, NEW others, NEW calls,
         Handed(x, to, calls), SameMessage(x, y), y.toWhom = x.toWhom,
         \A a \in Adapters : a \in to <=> a \in others
  PROVE  Handed(y, others, calls)
BY DEF Handed, SameMessage

\* An adapter is called for another message.
LEMMA HandedAnother ==
  ASSUME NEW x, NEW to, NEW calls \in Seq(Call), NEW call \in Call,
         Handed(x, to, calls), ~SameMessage(x, call)
  PROVE  Handed(x, to, Append(calls, call))
<1> DEFINE more == Append(calls, call)
<1>1. PICK len \in Nat : len = Len(calls)
  OBVIOUS
<1>2. /\ Len(more) = len + 1 /\ more[len + 1] = call
      /\ \A n \in 1 .. len : more[n] = calls[n]
  BY <1>1
<1>3. /\ \A n \in 1 .. len + 1 : n = len + 1 \/ n \in 1 .. len
      /\ 1 .. len \subseteq 1 .. len + 1
  OBVIOUS
<1> HIDE DEF more
<1>4. \A n \in 1 .. len + 1 : SameMessage(x, more[n]) =>
        n \in 1 .. len /\ more[n] = calls[n]
  BY <1>2, <1>3
<1>5. Handed(x, to, more)
  BY <1>1, <1>2, <1>3, <1>4 DEF Handed
<1> QED BY <1>5 DEF more

\* One more adapter is called for the message.
LEMMA HandedOneMore ==
  ASSUME NEW x, NEW to, NEW calls \in Seq(Call), NEW call \in Call,
         Handed(x, to, calls), SameMessage(x, call), call.adapter \notin to,
         call.instructed = (call.adapter \in x.toWhom)
  PROVE  Handed(x, to \cup {call.adapter}, Append(calls, call))
<1> DEFINE more == Append(calls, call)
<1>1. PICK len \in Nat : len = Len(calls)
  OBVIOUS
<1>2. /\ Len(more) = len + 1 /\ more[len + 1] = call
      /\ \A n \in 1 .. len : more[n] = calls[n]
  BY <1>1
<1>3. /\ \A n \in 1 .. len + 1 : n = len + 1 \/ n \in 1 .. len
      /\ 1 .. len \subseteq 1 .. len + 1 /\ len + 1 \in 1 .. len + 1
  OBVIOUS
<1>4. call.adapter \in Adapters
  BY DEF Call
<1> HIDE DEF more
<1>5. ASSUME NEW a \in Adapters
      PROVE  a \in to \cup {call.adapter} <=>
               \E n \in 1 .. len + 1 :
                 SameMessage(x, more[n]) /\ more[n].adapter = a
  <2>1. a \in to <=> \E n \in 1 .. len :
                       SameMessage(x, calls[n]) /\ calls[n].adapter = a
    BY <1>1 DEF Handed
  <2> QED BY <1>2, <1>3, <2>1
<1>6. ASSUME NEW n \in 1 .. len, SameMessage(x, calls[n])
      PROVE  calls[n].adapter # call.adapter
  BY <1>1, <1>4, <1>6 DEF Handed
<1>7. ASSUME NEW m \in 1 .. len + 1, NEW n \in 1 .. len + 1,
             SameMessage(x, more[m]), SameMessage(x, more[n]),
             more[m].adapter = more[n].adapter
      PROVE  m = n
  <2>1. CASE m \in 1 .. len /\ n \in 1 .. len
    BY <1>1, <1>2, <1>7, <2>1 DEF Handed
  <2>2. CASE m = len + 1 /\ n \in 1 .. len
    BY <1>2, <1>6, <1>7, <2>2
  <2>3. CASE m \in 1 .. len /\ n = len + 1
    BY <1>2, <1>6, <1>7, <2>3
  <2> QED BY <1>3, <2>1, <2>2, <2>3
<1>8. \A n \in 1 .. len + 1 : SameMessage(x, more[n]) =>
        more[n].instructed = (more[n].adapter \in x.toWhom)
  <2>1. \A n \in 1 .. len : SameMessage(x, calls[n]) =>
          calls[n].instructed = (calls[n].adapter \in x.toWhom)
    BY <1>1 DEF Handed
  <2> QED BY <1>2, <1>3, <2>1
<1>9. Handed(x, to \cup {call.adapter}, more)
  BY <1>2, <1>5, <1>7, <1>8 DEF Handed
<1> QED BY <1>9 DEF more

\* The loop calls its next adapter: f is the innermost call before, g after.
LEMMA CallIsHanded ==
  ASSUME NEW frames, NEW others, NEW depth \in Nat, NEW events, NEW counters,
         NEW calls \in Seq(Call), NEW call \in Call, NEW f \in Frame, NEW g,
         SequencesOk(frames, depth + 1, counters, events),
         CallsOk(frames, depth + 1, events, calls), LoopOk(f),
         frames[depth + 1] = f, others[depth + 1] = g,
         \A k \in 1 .. depth : others[k] = frames[k],
         SameMessage(f, g), g.toWhom = f.toWhom,
         g.sendAdapters = f.sendAdapters, Done(g) = Done(f) + 1,
         Done(g) \in 1 .. Len(f.sendAdapters),
         SameMessage(f, call),
         call.adapter = f.sendAdapters[Done(g)].addr,
         call.instructed = (f.sendAdapters[Done(g)].index \in f.instructed)
  PROVE  CallsOk(others, depth + 1, events, Append(calls, call))
<1> DEFINE more == Append(calls, call)
<1>1. /\ depth + 1 \in 1 .. depth + 1 /\ 1 .. depth \subseteq 1 .. depth + 1
      /\ \A k \in 1 .. depth + 1 : k = depth + 1 \/ k \in 1 .. depth
      /\ depth + 1 \notin 1 .. depth
  OBVIOUS
<1>2. Handed(g, Reached(g), more)
  <2> DEFINE a == f.sendAdapters[Done(g)].addr
  <2>1. PICK n \in Nat : n = Done(f) /\ Done(g) = n + 1
    BY DEF LoopOk
  <2>2. Reached(g) = Reached(f) \cup {a}
    <3>1. \A m : m \in 1 .. n + 1 <=> m \in 1 .. n \/ m = n + 1
      BY <2>1
    <3> QED BY <2>1, <3>1 DEF Reached
  <2>3. a \notin Reached(f)
    <3> SUFFICES ASSUME NEW m \in 1 .. n, f.sendAdapters[m].addr = a
                 PROVE  FALSE
      BY <2>1 DEF Reached
    <3>1. /\ m \in 1 .. Len(f.sendAdapters)
          /\ n + 1 \in 1 .. Len(f.sendAdapters) /\ m # n + 1
      <4>1. Len(f.sendAdapters) \in Nat
        <5>1. f.sendAdapters \in Seq(PerSendAdapterInfo)
          BY FrameIs
        <5> QED BY <5>1
      <4> QED BY <2>1, <4>1
    <3> QED BY <2>1, <3>1 DEF LoopOk
  <2>4. call.instructed = (call.adapter \in f.toWhom)
    BY DEF LoopOk
  <2>5. Handed(f, Reached(f), calls)
    BY <1>1 DEF CallsOk
  <2>6. Handed(f, Reached(f) \cup {a}, more)
    <3> HIDE DEF a
    <3>1. call.adapter = a
      BY DEF a
    <3> QED BY <2>3, <2>4, <2>5, <3>1, HandedOneMore
  <2> QED BY <2>2, <2>6, HandedSame
<1>3. ASSUME NEW k \in 1 .. depth
      PROVE  Handed(others[k], Reached(others[k]), more)
  <2>1. Handed(frames[k], Reached(frames[k]), calls)
    BY <1>1 DEF CallsOk
  <2>2. ~SameMessage(frames[k], frames[depth + 1])
    BY <1>1 DEF SequencesOk
  <2>3. ~SameMessage(frames[k], call)
    BY <2>2 DEF SameMessage
  <2> QED BY <2>1, <2>3, HandedAnother
<1>4. ASSUME NEW e \in 1 .. Len(events)
      PROVE  Handed(events[e], events[e].enabled, more)
  <2>1. Handed(events[e], events[e].enabled, calls)
    BY DEF CallsOk
  <2>2. ~SameMessage(events[e], frames[depth + 1])
    BY <1>1 DEF SequencesOk
  <2>3. ~SameMessage(events[e], call)
    BY <2>2 DEF SameMessage
  <2> QED BY <2>1, <2>3, HandedAnother
<1>5. ASSUME NEW n \in 1 .. Len(more)
      PROVE  \/ \E e \in 1 .. Len(events) : SameMessage(events[e], more[n])
             \/ \E k \in 1 .. depth + 1 : SameMessage(others[k], more[n])
  <2>1. CASE n = Len(calls) + 1
    <3>1. more[n] = call
      BY <2>1
    <3>2. SameMessage(others[depth + 1], call)
      BY DEF SameMessage
    <3> QED BY <1>1, <3>1, <3>2
  <2>2. CASE n # Len(calls) + 1
    <3>1. n \in 1 .. Len(calls) /\ more[n] = calls[n]
      BY <2>2
    <3>2. \/ \E e \in 1 .. Len(events) : SameMessage(events[e], calls[n])
          \/ \E k \in 1 .. depth + 1 : SameMessage(frames[k], calls[n])
      BY <3>1 DEF CallsOk
    <3>3. \A k \in 1 .. depth + 1 : SameMessage(frames[k], others[k])
      BY <1>1 DEF SameMessage
    <3> QED BY <3>1, <3>2, <3>3 DEF SameMessage
  <2> QED BY <2>1, <2>2
<1> HIDE DEF more
<1>6. CallsOk(others, depth + 1, events, more)
  BY <1>1, <1>2, <1>3, <1>4, <1>5 DEF CallsOk
<1> QED BY <1>6 DEF more

\* The adapter returns: nothing changes for the message.
LEMMA ReturnIsHanded ==
  ASSUME NEW frames, NEW others, NEW depth \in Nat, NEW events, NEW calls,
         NEW f, NEW g,
         CallsOk(frames, depth + 1, events, calls),
         frames[depth + 1] = f, others[depth + 1] = g,
         \A k \in 1 .. depth : others[k] = frames[k],
         SameMessage(f, g), g.toWhom = f.toWhom,
         g.sendAdapters = f.sendAdapters, Done(g) = Done(f)
  PROVE  CallsOk(others, depth + 1, events, calls)
<1>1. /\ depth + 1 \in 1 .. depth + 1 /\ 1 .. depth \subseteq 1 .. depth + 1
      /\ \A k \in 1 .. depth + 1 : k = depth + 1 \/ k \in 1 .. depth
  OBVIOUS
<1>2. Reached(g) = Reached(f)
  BY DEF Reached
<1>3. Handed(g, Reached(g), calls)
  BY <1>1, <1>2, HandedSame DEF CallsOk
<1>4. \A k \in 1 .. depth + 1 : SameMessage(frames[k], others[k])
  BY <1>1 DEF SameMessage
<1>5. \A n \in 1 .. Len(calls) :
        \/ \E e \in 1 .. Len(events) : SameMessage(events[e], calls[n])
        \/ \E k \in 1 .. depth + 1 : SameMessage(others[k], calls[n])
  BY <1>4 DEF CallsOk, SameMessage
<1>6. \A k \in 1 .. depth : Handed(others[k], Reached(others[k]), calls)
  BY <1>1 DEF CallsOk
<1> QED BY <1>1, <1>3, <1>5, <1>6 DEF CallsOk

\* sendMessage ends: its message moves from the stack to the events.
LEMMA FinishMovesMessage ==
  ASSUME NEW frames, NEW depth \in Nat, NEW events \in Seq(Event),
         NEW counters, NEW calls, NEW f \in Frame, NEW event \in Event,
         SequencesOk(frames, depth + 1, counters, events),
         CallsOk(frames, depth + 1, events, calls), LoopOk(f),
         frames[depth + 1] = f, Done(f) = Len(f.sendAdapters),
         SameMessage(f, event), event.toWhom = f.toWhom,
         event.enabled = f.enabled
  PROVE  /\ SequencesOk(frames, depth, counters, Append(events, event))
         /\ CallsOk(frames, depth, Append(events, event), calls)
<1> DEFINE more == Append(events, event)
<1>1. PICK len \in Nat : len = Len(events)
  OBVIOUS
<1>2. /\ Len(more) = len + 1 /\ more[len + 1] = event
      /\ \A e \in 1 .. len : more[e] = events[e]
  BY <1>1
<1>3. /\ \A e \in 1 .. len + 1 : e = len + 1 \/ e \in 1 .. len
      /\ 1 .. len \subseteq 1 .. len + 1 /\ len + 1 \in 1 .. len + 1
  OBVIOUS
<1>4. /\ depth + 1 \in 1 .. depth + 1 /\ 1 .. depth \subseteq 1 .. depth + 1
      /\ \A k \in 1 .. depth + 1 : k = depth + 1 \/ k \in 1 .. depth
      /\ depth + 1 \notin 1 .. depth
  OBVIOUS
<1> HIDE DEF more
<1>5. ASSUME NEW x,
             \/ \E e \in 1 .. len : SameMessage(events[e], x)
             \/ \E k \in 1 .. depth + 1 : SameMessage(frames[k], x)
      PROVE  \/ \E e \in 1 .. len + 1 : SameMessage(more[e], x)
             \/ \E k \in 1 .. depth : SameMessage(frames[k], x)
  BY <1>2, <1>3, <1>4, <1>5 DEF SameMessage
<1>6. SequencesOk(frames, depth, counters, more)
  <2>1. \A e \in 1 .. len + 1 :
          more[e].sequence < counters[more[e].integrator]
    BY <1>1, <1>2, <1>3, <1>4 DEF SequencesOk, SameMessage
  <2>2. \A k \in 1 .. depth :
          frames[k].sequence < counters[frames[k].integrator]
    BY <1>4 DEF SequencesOk
  <2>3. \A i \in Integrators : \A n \in 0 .. counters[i] - 1 :
          LET x == [integrator |-> i, sequence |-> n]
          IN  \/ \E e \in 1 .. len + 1 : SameMessage(more[e], x)
              \/ \E k \in 1 .. depth : SameMessage(frames[k], x)
    BY <1>1, <1>5 DEF SequencesOk
  <2>4. \A e \in 1 .. len : /\ ~SameMessage(events[e], event)
                            /\ ~SameMessage(event, events[e])
    BY <1>1, <1>4 DEF SequencesOk, SameMessage
  <2>5. \A d, e \in 1 .. len + 1 : SameMessage(more[d], more[e]) => d = e
    <3>1. \A d, e \in 1 .. len : SameMessage(events[d], events[e]) => d = e
      BY <1>1 DEF SequencesOk
    <3> QED BY <1>2, <1>3, <2>4, <3>1
  <2>6. \A j, k \in 1 .. depth : SameMessage(frames[j], frames[k]) => j = k
    BY <1>4 DEF SequencesOk
  <2>7. \A k \in 1 .. depth : ~SameMessage(event, frames[k])
    <3>1. \A k \in 1 .. depth : ~SameMessage(frames[depth + 1], frames[k])
      BY <1>4 DEF SequencesOk
    <3> QED BY <3>1 DEF SameMessage
  <2>8. \A e \in 1 .. len, k \in 1 .. depth :
          ~SameMessage(events[e], frames[k])
    BY <1>1, <1>4 DEF SequencesOk
  <2>9. \A e \in 1 .. len + 1, k \in 1 .. depth :
          ~SameMessage(more[e], frames[k])
    BY <1>2, <1>3, <2>7, <2>8
  <2> QED BY <1>2, <2>1, <2>2, <2>3, <2>5, <2>6, <2>9 DEF SequencesOk
<1>7. CallsOk(frames, depth, more, calls)
  <2>1. \A n \in 1 .. Len(calls) :
          \/ \E e \in 1 .. len + 1 : SameMessage(more[e], calls[n])
          \/ \E k \in 1 .. depth : SameMessage(frames[k], calls[n])
    BY <1>1, <1>5 DEF CallsOk
  <2>2. Handed(event, event.enabled, calls)
    <3>1. \A a \in Adapters : a \in Reached(f) <=> a \in event.enabled
      BY DEF LoopOk, Reached
    <3>2. Handed(f, Reached(f), calls)
      BY <1>4 DEF CallsOk
    <3> QED BY <3>1, <3>2, HandedSame
  <2>3. \A e \in 1 .. len + 1 : Handed(more[e], more[e].enabled, calls)
    BY <1>1, <1>2, <1>3, <2>2 DEF CallsOk
  <2>4. \A k \in 1 .. depth : Handed(frames[k], Reached(frames[k]), calls)
    BY <1>4 DEF CallsOk
  <2> QED BY <1>2, <2>1, <2>3, <2>4 DEF CallsOk
<1> QED BY <1>6, <1>7 DEF more

-----------------------------------------------------------------------------
(* What is paid *)

\* Paid adds the prices up.
LEMMA PaidIs ==
  ASSUME NEW calls \in Seq(Call)
  PROVE  \E f \in [0 .. Len(calls) -> Nat] :
           /\ f[0] = 0
           /\ \A n \in 1 .. Len(calls) : f[n] = f[n - 1] + calls[n].price
           /\ Paid(calls) = f[Len(calls)]
<1> DEFINE k     == Len(calls)
           Is(f) == f = [n \in 0 .. k |->
                           IF n = 0 THEN 0 ELSE f[n - 1] + calls[n].price]
           Sum   == CHOOSE f : Is(f)
           step  == [n \in 1 .. k |-> [s \in Nat |-> s + calls[n].price]]
<1>1. k \in Nat /\ \A n \in 1 .. k : calls[n].price \in Nat
  <2>1. k \in Nat /\ \A n \in 1 .. k : calls[n] \in Call
    OBVIOUS
  <2> QED BY <2>1 DEF Call
<1>2. step \in [1 .. k -> [Nat -> Nat]]
  BY <1>1
<1>3. PICK f \in [0 .. k -> Nat] : Solves(f, k, 0, step)
  <2> HIDE DEF step, k
  <2> QED BY <1>1, <1>2, RecursionExists
<1>4. f[0] = 0 /\ \A n \in 1 .. k : f[n] = f[n - 1] + calls[n].price
  <2>1. \A n \in 1 .. k : n - 1 \in 0 .. k
    BY <1>1
  <2>2. \A n \in 1 .. k : f[n - 1] \in Nat
    BY <1>3, <2>1
  <2> HIDE DEF k
  <2> QED BY <1>3, <2>2 DEF Solves
<1>5. Is(f)
  <2>1. \A n \in 0 .. k : n = 0 \/ n \in 1 .. k
    BY <1>1
  <2> HIDE DEF k
  <2> QED BY <1>3, <1>4, <2>1
<1>6. Is(Sum)
  BY <1>5
<1>7. Paid(calls) = Sum[k]
  BY DEF Paid
<1> HIDE DEF Sum
<1>8. /\ Sum[0] = 0
      /\ \A n \in 1 .. k : Sum[n] = Sum[n - 1] + calls[n].price
  <2>1. 0 \in 0 .. k /\ \A n \in 1 .. k : n \in 0 .. k /\ n # 0
    BY <1>1
  <2> HIDE DEF k
  <2> QED BY <1>6, <2>1
<1>9. Sum \in [0 .. k -> Nat]
  <2> DEFINE S == {n \in 0 .. k : Sum[n] \in Nat}
  <2>1. 0 \in S
    BY <1>1, <1>8
  <2>2. ASSUME NEW n \in 1 .. k, n - 1 \in S PROVE n \in S
    <3>1. Sum[n - 1] \in Nat /\ calls[n].price \in Nat /\ n \in 0 .. k
      BY <1>1, <2>2
    <3>2. Sum[n] = Sum[n - 1] + calls[n].price
      BY <1>8
    <3> QED BY <3>1, <3>2
  <2> HIDE DEF S
  <2>3. 0 .. k \subseteq S
    BY <1>1, <2>1, <2>2, BoundedInduction
  <2>4. \A n \in 0 .. k : Sum[n] \in Nat
    BY <2>3 DEF S
  <2> HIDE DEF k
  <2>5. DOMAIN Sum = 0 .. k /\ Sum = [n \in 0 .. k |-> Sum[n]]
    BY <1>6
  <2> QED BY <2>4, <2>5
<1> HIDE DEF k, Is
<1> QED BY <1>7, <1>8, <1>9 DEF k

\* It is a natural number, and nothing is paid for no calls.
LEMMA PaidTyped ==
  /\ \A calls \in Seq(Call) : Paid(calls) \in Nat
  /\ Paid(<<>>) = 0
<1>1. ASSUME NEW calls \in Seq(Call) PROVE Paid(calls) \in Nat
  <2>1. Len(calls) \in 0 .. Len(calls)
    OBVIOUS
  <2> QED BY <2>1, PaidIs
<1>2. Paid(<<>>) = 0
  <2>1. <<>> \in Seq(Call) /\ Len(<<>>) = 0
    OBVIOUS
  <2> QED BY <2>1, PaidIs
<1> QED BY <1>1, <1>2

\* One more call adds its price.
LEMMA PaidMore ==
  ASSUME NEW calls \in Seq(Call), NEW call \in Call
  PROVE  Paid(Append(calls, call)) = Paid(calls) + call.price
<1> DEFINE more == Append(calls, call)
<1>1. PICK len \in Nat : len = Len(calls)
  OBVIOUS
<1>2. /\ more \in Seq(Call) /\ Len(more) = len + 1 /\ more[len + 1] = call
      /\ \A n \in 1 .. len : more[n] = calls[n]
  BY <1>1
<1> HIDE DEF more
<1>3. PICK f \in [0 .. len -> Nat] :
        /\ f[0] = 0
        /\ \A n \in 1 .. len : f[n] = f[n - 1] + calls[n].price
        /\ Paid(calls) = f[len]
  BY <1>1, PaidIs
<1>4. PICK g \in [0 .. len + 1 -> Nat] :
        /\ g[0] = 0
        /\ \A n \in 1 .. len + 1 : g[n] = g[n - 1] + more[n].price
        /\ Paid(more) = g[len + 1]
  BY <1>2, PaidIs
<1> DEFINE S == {n \in 0 .. len : f[n] = g[n]}
<1>5. 0 \in S
  BY <1>3, <1>4
<1>6. ASSUME NEW n \in 1 .. len, n - 1 \in S PROVE n \in S
  <2>1. n \in 1 .. len + 1 /\ n \in 0 .. len
    OBVIOUS
  <2>2. f[n - 1] = g[n - 1]
    BY <1>6
  <2> QED BY <1>2, <1>3, <1>4, <2>1, <2>2
<1> HIDE DEF S
<1>7. 0 .. len \subseteq S
  BY <1>5, <1>6, BoundedInduction
<1>8. f[len] = g[len] /\ f[len] \in Nat
  BY <1>7 DEF S
<1>9. g[len + 1] = g[len] + call.price
  <2>1. len + 1 \in 1 .. len + 1 /\ (len + 1) - 1 = len
    OBVIOUS
  <2> QED BY <1>2, <1>4, <2>1
<1> QED BY <1>3, <1>4, <1>8, <1>9 DEF more

-----------------------------------------------------------------------------
(* The invariant is inductive *)

\* The invariant of the present storage, in terms of the variables.
LEMMA PresentIs ==
  StorageOk(stack, Len(stack), Storage) <=>
    /\ \A i \in Integrators : RegistryInv(i)
    /\ SequencesOk(stack, Len(stack), messageSequence, messageSent)
    /\ CallsOk(stack, Len(stack), messageSent, carried)
    /\ FundsConserved
BY StorageIs DEF StorageOk, RegistryInv, FundsConserved

\* The same in the next state.
LEMMA NextPresentIs ==
  StorageOk(stack', Len(stack'), Storage') <=>
    /\ \A i \in Integrators : RegistryInv(i)'
    /\ SequencesOk(stack', Len(stack'), messageSequence', messageSent')
    /\ CallsOk(stack', Len(stack'), messageSent', carried')
    /\ FundsConserved'
<1>1. /\ Storage'.adapterInfos = adapterInfos'
      /\ Storage'.registeredAdapters = registeredAdapters'
      /\ Storage'.sendAdapterArray = sendAdapterArray'
      /\ Storage'.indexedSend = indexedSend'
      /\ Storage'.messageSequence = messageSequence'
      /\ Storage'.balance = balance'
      /\ Storage'.received = received'
      /\ Storage'.carried = carried'
      /\ Storage'.messageSent = messageSent'
  BY DEF Storage
<1> QED BY <1>1 DEF StorageOk, RegistryInv, FundsConserved

\* A frame of sendMessage begins with a copy of the send adapters that says
\* whom the instructions are for.
LEMMA SendLoopOk ==
  ASSUME SendTypeOK, \A j \in Integrators : RegistryInv(j),
         NEW i \in Integrators, NEW c \in ChainIds,
         NEW instructed \in SUBSET Index, InstructionsOk(i, instructed)
  PROVE  LoopOk(InMemory(i, c, instructed))
<1> DEFINE f == InMemory(i, c, instructed)
<1>1. /\ f.sendAdapters = sendAdapterArray[i][c]
      /\ f.n = 1 /\ f.inAdapter = FALSE /\ f.enabled = indexedSend[i][c]
      /\ f.instructed = instructed
  BY DEF InMemory
<1>2. \A a : a \in f.toWhom <=>
               \E k \in instructed : registeredAdapters[i][k + 1] = a
  BY DEF InMemory
<1> HIDE DEF f
<1> DEFINE array == sendAdapterArray[i][c]
           infos == adapterInfos[i]
           all   == registeredAdapters[i]
<1>3. /\ ArrayOk(array, f.enabled, infos) /\ IndexesOk(all, infos)
  BY <1>1 DEF RegistryInv
<1>4. /\ array \in Seq(PerSendAdapterInfo) /\ all \in Seq(Adapters)
  BY DEF SendTypeOK, TypeOK, RegistryTypeOK
<1>5. Done(f) \in 0 .. Len(array)
  BY <1>1, <1>4 DEF Done
<1>6. \A k \in f.instructed : k \in Nat /\ k + 1 \in 1 .. Len(all)
  <2>1. \A k \in instructed : k \in Nat /\ k < Len(all)
    BY RegistryAssumption DEF InstructionsOk, Index
  <2>2. Len(all) \in Nat
    BY <1>4
  <2> QED BY <1>1, <2>1, <2>2
<1>7. ASSUME NEW m \in 1 .. Len(array)
      PROVE  (array[m].index \in f.instructed)
               = (array[m].addr \in f.toWhom)
  <2>1. array[m] \in PerSendAdapterInfo
    BY <1>4
  <2>2. PICK a \in Adapters, x \in Index : array[m].addr = a
                                           /\ array[m].index = x
    BY <2>1 DEF PerSendAdapterInfo
  <2>3. infos[a] = [registered |-> TRUE, index |-> x]
    BY <1>3, <2>2 DEF ArrayOk
  <2>4. ASSUME NEW k \in f.instructed PROVE all[k + 1] = a <=> k = x
    <3>1. k + 1 \in 1 .. Len(all) /\ (k + 1) - 1 = k
      BY <1>6
    <3>2. all[k + 1] = a <=> infos[a] = [registered |-> TRUE, index |-> k]
      BY <1>3, <3>1 DEF IndexesOk
    <3>3. [registered |-> TRUE, index |-> x].index = x
          /\ [registered |-> TRUE, index |-> k].index = k
      OBVIOUS
    <3> QED BY <2>3, <3>2, <3>3
  <2>5. x \in f.instructed <=> a \in f.toWhom
    BY <1>1, <1>2, <2>4
  <2> QED BY <2>2, <2>5
<1>8. LoopOk(f)
  BY <1>1, <1>3, <1>5, <1>7 DEF LoopOk, ArrayOk
<1> QED BY <1>8 DEF f

\* What the calls below the innermost one saved is left alone when the
\* innermost call changes or ends.
LEMMA BelowIsKept ==
  ASSUME SendInv, NEW len \in Nat, NEW others, len + 1 = Len(stack),
         \A k \in 1 .. len : others[k] = stack[k]
  PROVE  /\ \A k \in 1 .. len :
              LoopOk(others[k]) /\ StorageOk(others, k - 1, others[k].undo)
         /\ StorageOk(others, len, stack[len + 1].undo)
<1>1. \A k \in 1 .. len + 1 : k - 1 \in Nat /\ 1 .. k - 1 \subseteq 1 .. len
  OBVIOUS
<1>2. ASSUME NEW k \in 1 .. len + 1
      PROVE  StorageOk(others, k - 1, stack[k].undo)
  <2>1. StorageOk(stack, k - 1, stack[k].undo)
    BY DEF SendInv
  <2>2. \A j \in 1 .. k - 1 : others[j] = stack[j]
    BY <1>1
  <2> QED BY <2>1, <2>2, StorageOfPrefix
<1>3. 1 .. len \subseteq 1 .. len + 1 /\ len + 1 \in 1 .. len + 1
  OBVIOUS
<1>4. StorageOk(others, len, stack[len + 1].undo)
  <2>1. (len + 1) - 1 = len
    OBVIOUS
  <2> QED BY <1>2, <1>3, <2>1
<1> QED BY <1>2, <1>3, <1>4 DEF SendInv

\* The parts of the invariant for the next state.
LEMMA NextSendInv ==
  ASSUME \A i \in Integrators : RegistryInv(i)',
         SequencesOk(stack', Len(stack'), messageSequence', messageSent'),
         CallsOk(stack', Len(stack'), messageSent', carried'),
         FundsConserved',
         \A k \in 1 .. Len(stack') :
           LoopOk(stack'[k]) /\ StorageOk(stack', k - 1, stack'[k].undo)
  PROVE  SendInv'
BY NextPresentIs DEF SendInv

\* sendMessage up to its loop keeps the invariant.
LEMMA SendKeepsInv ==
  ASSUME SendTypeOK, SendInv, NEW i \in Integrators, NEW c \in ChainIds,
         NEW value \in Prices, NEW instructed \in SUBSET Index,
         sendMessage(i, c, value, instructed)
  PROVE  SendInv'
<1>1. /\ stack \in Seq(Frame) /\ messageSequence \in [Integrators -> Nat]
      /\ messageSent \in Seq(Event) /\ carried \in Seq(Call)
      /\ balance \in Nat /\ received \in Nat
  BY DEF SendTypeOK
<1> DEFINE f == InMemory(i, c, instructed)
<1>2. /\ f \in Frame /\ f.integrator = i
      /\ f.sequence = messageSequence[i] /\ f.undo = Storage
      /\ f.n = 1 /\ f.inAdapter = FALSE
  <2>1. f \in Frame
    BY InMemoryIs DEF sendMessage
  <2> QED BY <2>1 DEF InMemory
<1>3. /\ InstructionsOk(i, instructed) /\ stack' = Append(stack, f)
      /\ messageSequence' = [messageSequence EXCEPT ![i] = @ + 1]
      /\ received' = received + value /\ balance' = balance + value
      /\ UNCHANGED <<vars, carried, messageSent>>
  BY DEF sendMessage, useMessageSequence, Accept
<1>4. /\ \A j \in Integrators : RegistryInv(j)
      /\ SequencesOk(stack, Len(stack), messageSequence, messageSent)
      /\ CallsOk(stack, Len(stack), messageSent, carried)
      /\ FundsConserved
  BY PresentIs DEF SendInv
<1>5. LoopOk(f)
  BY <1>3, <1>4, SendLoopOk
<1> HIDE DEF f
<1>6. PICK len \in Nat : len = Len(stack)
  BY <1>1
<1>7. /\ Len(stack') = len + 1 /\ stack'[len + 1] = f
      /\ \A k \in 1 .. len : stack'[k] = stack[k]
  BY <1>1, <1>2, <1>3, <1>6
<1>8. \A j \in Integrators : RegistryInv(j)'
  BY <1>3, <1>4 DEF vars, RegistryInv
<1>9. SequencesOk(stack', len + 1, messageSequence', messageSent')
  BY <1>1, <1>2, <1>3, <1>4, <1>6, SendTakesSequence
<1>10. CallsOk(stack', len + 1, messageSent', carried')
  BY <1>1, <1>2, <1>3, <1>4, <1>6, SendHasNoCalls
<1>11. FundsConserved'
  <2>1. PICK paid \in Nat : paid = Paid(carried)
    BY <1>1, PaidTyped
  <2>2. value \in Nat
    BY SendAssumption
  <2>3. balance + paid = received /\ Paid(carried') = paid
    BY <1>3, <1>4, <2>1 DEF FundsConserved
  <2>4. (balance + value) + paid = received + value
    BY <1>1, <2>2, <2>3
  <2> QED BY <1>3, <2>3, <2>4 DEF FundsConserved
<1>12. StorageOk(stack', len, Storage)
  <2>1. StorageOk(stack, len, Storage)
    BY <1>6 DEF SendInv
  <2> QED BY <1>7, <2>1, StorageOfPrefix
<1>13. ASSUME NEW k \in 1 .. len + 1
       PROVE  LoopOk(stack'[k]) /\ StorageOk(stack', k - 1, stack'[k].undo)
  <2>1. CASE k = len + 1
    <3>1. k - 1 = len
      BY <2>1
    <3> QED BY <1>2, <1>5, <1>7, <1>12, <2>1, <3>1
  <2>2. CASE k # len + 1
    <3>1. k \in 1 .. len /\ 1 .. k - 1 \subseteq 1 .. len
      BY <2>2
    <3>2. LoopOk(stack[k]) /\ StorageOk(stack, k - 1, stack[k].undo)
      BY <1>6, <3>1 DEF SendInv
    <3>3. StorageOk(stack', k - 1, stack[k].undo)
      BY <1>7, <3>1, <3>2, StorageOfPrefix
    <3> QED BY <1>7, <3>1, <3>2, <3>3
  <2> QED BY <2>1, <2>2
<1> QED BY <1>7, <1>8, <1>9, <1>10, <1>11, <1>13,
           NextSendInv

\* The call of an adapter, and its return, keep the invariant.
LEMMA LoopKeepsInv ==
  ASSUME SendTypeOK, SendInv,
         (\E price \in Prices : CallAdapter(price)) \/ AdapterReturns
  PROVE  SendInv'
<1>1. /\ stack \in Seq(Frame) /\ messageSequence \in [Integrators -> Nat]
      /\ messageSent \in Seq(Event) /\ carried \in Seq(Call)
      /\ balance \in Nat /\ received \in Nat /\ stack # <<>>
  BY DEF SendTypeOK, CallAdapter, InLoop, AdapterReturns, InAdapter
<1>2. Len(stack) \in Nat \ {0} /\ Top \in Frame /\ Top = stack[Len(stack)]
  BY <1>1, TopAndPop
<1>3. PICK len \in Nat : Len(stack) = len + 1
  BY <1>2
<1>4. PICK f \in Frame : f = Top /\ f = stack[len + 1]
  BY <1>2, <1>3
<1>5. LoopOk(f)
  BY <1>2, <1>3, <1>4 DEF SendInv
<1>6. /\ \A j \in Integrators : RegistryInv(j)
      /\ SequencesOk(stack, len + 1, messageSequence, messageSent)
      /\ CallsOk(stack, len + 1, messageSent, carried)
      /\ FundsConserved
  BY <1>3, PresentIs DEF SendInv
<1>7. UNCHANGED <<vars, messageSequence, messageSent>>
  BY DEF CallAdapter, AdapterReturns, sendVars
<1>8. ASSUME NEW g \in Frame, stack' = [stack EXCEPT ![Len(stack)] = g],
             SameMessage(f, g), LoopOk(g), g.undo = f.undo,
             CallsOk(stack', len + 1, messageSent, carried'),
             FundsConserved'
      PROVE  SendInv'
  <2>1. /\ Len(stack') = len + 1 /\ stack'[len + 1] = g
        /\ \A k \in 1 .. len : stack'[k] = stack[k]
    <3>1. Len(stack) >= 1 /\ Len(stack) - 1 = len
      BY <1>3
    <3> QED BY <1>1, <1>3, <1>8, <3>1, ReplaceTop
  <2>2. \A k \in 1 .. len + 1 : k = len + 1 \/ k \in 1 .. len
    OBVIOUS
  <2>3. \A k \in 1 .. len + 1 : SameMessage(stack'[k], stack[k])
    BY <1>4, <1>8, <2>1, <2>2 DEF SameMessage
  <2>4. SequencesOk(stack', len + 1, messageSequence, messageSent)
    BY <1>6, <2>3, SequencesOfOthers
  <2>5. /\ \A k \in 1 .. len : /\ LoopOk(stack'[k])
                               /\ StorageOk(stack', k - 1, stack'[k].undo)
        /\ StorageOk(stack', len, f.undo)
    BY <1>3, <1>4, <2>1, BelowIsKept
  <2>6. ASSUME NEW k \in 1 .. len + 1
        PROVE  LoopOk(stack'[k]) /\ StorageOk(stack', k - 1, stack'[k].undo)
    <3>1. CASE k = len + 1
      <4>1. k - 1 = len
        BY <3>1
      <4> QED BY <1>8, <2>1, <2>5, <3>1, <4>1
    <3>2. CASE k \in 1 .. len
      BY <2>5, <3>2
    <3> QED BY <2>2, <3>1, <3>2
  <2>7. \A j \in Integrators : RegistryInv(j)'
    BY <1>6, <1>7 DEF vars, RegistryInv
  <2> QED BY <1>7, <1>8, <2>1, <2>4, <2>6, <2>7, NextSendInv
<1>9. ASSUME NEW price \in Prices, CallAdapter(price) PROVE SendInv'
  <2> DEFINE g == [Top EXCEPT !.inAdapter = TRUE]
  <2>1. PICK call \in Call :
          /\ Top.n \in 1 .. Len(Top.sendAdapters)
          /\ call.integrator = Top.integrator
          /\ call.sequence = Top.sequence
          /\ call.adapter = Top.sendAdapters[Top.n].addr
          /\ call.price = price
          /\ call.instructed =
               (Top.sendAdapters[Top.n].index \in Top.instructed)
          /\ carried' = Append(carried, call)
          /\ g \in Frame
          /\ stack' = [stack EXCEPT ![Len(stack)] = g]
    BY <1>9, CallIs
  <2>2. /\ g.integrator = f.integrator /\ g.sequence = f.sequence
        /\ g.sendAdapters = f.sendAdapters /\ g.toWhom = f.toWhom
        /\ g.n = f.n /\ g.inAdapter = TRUE /\ g.undo = f.undo
        /\ g.enabled = f.enabled /\ g.instructed = f.instructed
    BY <1>4 DEF Frame
  <2> HIDE DEF g
  <2>3. f.n \in Nat \ {0} /\ ~f.inAdapter /\ f.n \in 1 .. Len(f.sendAdapters)
    BY <1>4, <1>9, <2>1, FrameIs DEF CallAdapter, InLoop
  <2>4. Done(g) = f.n /\ Done(f) = f.n - 1 /\ Done(g) = Done(f) + 1
    BY <2>2, <2>3 DEF Done
  <2>5. LoopOk(g)
    <3>1. Done(g) \in 0 .. Len(g.sendAdapters)
      BY <2>2, <2>3, <2>4
    <3> QED BY <1>5, <2>2, <3>1 DEF LoopOk
  <2>6. SameMessage(f, g) /\ SameMessage(f, call)
    BY <1>4, <2>1, <2>2 DEF SameMessage
  <2>7. /\ stack'[len + 1] = g /\ \A k \in 1 .. len : stack'[k] = stack[k]
    <3>1. Len(stack) >= 1 /\ Len(stack) - 1 = len
      BY <1>3
    <3> QED BY <1>1, <1>3, <2>1, <3>1, ReplaceTop
  <2>8. CallsOk(stack', len + 1, messageSent, carried')
    <3>1. /\ Done(g) \in 1 .. Len(f.sendAdapters)
          /\ call.adapter = f.sendAdapters[Done(g)].addr
          /\ call.instructed =
               (f.sendAdapters[Done(g)].index \in f.instructed)
      BY <1>4, <2>1, <2>3, <2>4
    <3>2. CallsOk(stack', len + 1, messageSent, Append(carried, call))
      BY <1>1, <1>4, <1>5, <1>6, <2>2, <2>4, <2>6, <2>7, <3>1, CallIsHanded
    <3> QED BY <2>1, <3>2
  <2>9. FundsConserved'
    <3>1. /\ balance' = balance - price /\ received' = received
          /\ price \in Nat
      BY <1>9, SendAssumption DEF CallAdapter, PayAdapter
    <3>2. Paid(carried) \in Nat /\ Paid(carried') = Paid(carried) + price
      BY <1>1, <2>1, PaidTyped, PaidMore
    <3> QED BY <1>1, <1>6, <3>1, <3>2 DEF FundsConserved
  <2> QED BY <1>8, <2>1, <2>2, <2>5, <2>6, <2>8, <2>9
<1>10. CASE AdapterReturns
  <2> DEFINE g == [Top EXCEPT !.inAdapter = FALSE, !.n = @ + 1]
  <2>1. g \in Frame /\ stack' = [stack EXCEPT ![Len(stack)] = g]
    BY <1>10, ReturnIs
  <2>2. /\ g.integrator = f.integrator /\ g.sequence = f.sequence
        /\ g.sendAdapters = f.sendAdapters /\ g.toWhom = f.toWhom
        /\ g.n = f.n + 1 /\ g.inAdapter = FALSE /\ g.undo = f.undo
        /\ g.enabled = f.enabled /\ g.instructed = f.instructed
    BY <1>4 DEF Frame
  <2> HIDE DEF g
  <2>3. f.n \in Nat \ {0} /\ f.inAdapter
    BY <1>4, <1>10, FrameIs DEF AdapterReturns, InAdapter
  <2>4. Done(g) = Done(f)
    BY <2>2, <2>3 DEF Done
  <2>5. LoopOk(g)
    BY <1>5, <2>2, <2>4 DEF LoopOk
  <2>6. SameMessage(f, g)
    BY <2>2 DEF SameMessage
  <2>7. /\ stack'[len + 1] = g /\ \A k \in 1 .. len : stack'[k] = stack[k]
    <3>1. Len(stack) >= 1 /\ Len(stack) - 1 = len
      BY <1>3
    <3> QED BY <1>1, <1>3, <2>1, <3>1, ReplaceTop
  <2>8. UNCHANGED <<carried, balance, received>>
    BY <1>10 DEF AdapterReturns, sendVars
  <2>9. CallsOk(stack', len + 1, messageSent, carried')
    BY <1>4, <1>6, <2>2, <2>4, <2>6, <2>7, <2>8, ReturnIsHanded
  <2>10. FundsConserved'
    BY <1>6, <2>8 DEF FundsConserved
  <2> QED BY <1>8, <2>1, <2>2, <2>5, <2>6, <2>9, <2>10
<1> QED BY <1>9, <1>10

\* The end of a call, with its event or with a revert, keeps the invariant.
LEMMA EndKeepsInv ==
  ASSUME SendTypeOK, SendInv, FinishSend \/ PriceNotCovered \/ AdapterReverts
  PROVE  SendInv'
<1>1. /\ stack \in Seq(Frame) /\ messageSent \in Seq(Event)
      /\ stack # <<>> /\ stack' = Pop
  BY RevertIs DEF SendTypeOK, FinishSend, InLoop
<1>2. Len(stack) \in Nat \ {0} /\ Top \in Frame /\ Top = stack[Len(stack)]
  BY <1>1, TopAndPop
<1>3. PICK len \in Nat : Len(stack) = len + 1
  BY <1>2
<1>4. PICK f \in Frame : f = Top /\ f = stack[len + 1]
  BY <1>2, <1>3
<1>5. Len(stack') = len /\ \A k \in 1 .. len : stack'[k] = stack[k]
  <2>1. Len(stack) - 1 = len
    BY <1>3
  <2> QED BY <1>1, <2>1, TopAndPop
<1>6. /\ \A k \in 1 .. len : /\ LoopOk(stack'[k])
                             /\ StorageOk(stack', k - 1, stack'[k].undo)
      /\ StorageOk(stack', len, f.undo)
  BY <1>3, <1>4, <1>5, BelowIsKept
<1>7. CASE PriceNotCovered \/ AdapterReverts
  <2>1. Restore(f.undo)
    BY <1>4, <1>7, RevertIs
  <2>2. /\ adapterInfos' = f.undo.adapterInfos
        /\ registeredAdapters' = f.undo.registeredAdapters
        /\ sendAdapterArray' = f.undo.sendAdapterArray
        /\ indexedSend' = f.undo.indexedSend
        /\ messageSequence' = f.undo.messageSequence
        /\ balance' = f.undo.balance
        /\ received' = f.undo.received
        /\ carried' = f.undo.carried
        /\ messageSent' = f.undo.messageSent
    BY <2>1 DEF Restore
  <2>3. /\ \A j \in Integrators : RegistryInv(j)'
        /\ SequencesOk(stack', len, messageSequence', messageSent')
        /\ CallsOk(stack', len, messageSent', carried')
        /\ FundsConserved'
    BY <1>6, <2>2 DEF StorageOk, RegistryInv, FundsConserved
  <2> QED BY <1>5, <1>6, <2>3, NextSendInv
<1>8. CASE FinishSend
  <2>1. /\ \A j \in Integrators : RegistryInv(j)
        /\ SequencesOk(stack, len + 1, messageSequence, messageSent)
        /\ CallsOk(stack, len + 1, messageSent, carried)
        /\ FundsConserved
    BY <1>3, PresentIs DEF SendInv
  <2>2. LoopOk(f)
    BY <1>2, <1>3, <1>4 DEF SendInv
  <2>3. PICK event \in Event :
          /\ event.integrator = f.integrator
          /\ event.sequence = f.sequence
          /\ event.enabled = f.enabled
          /\ event.toWhom = f.toWhom
          /\ messageSent' = Append(messageSent, event)
    BY <1>4, <1>8, FinishIs
  <2>4. /\ ~f.inAdapter /\ f.n > Len(f.sendAdapters)
        /\ UNCHANGED <<vars, messageSequence, balance, received, carried>>
    BY <1>4, <1>8 DEF FinishSend, InLoop, LoopAdapters
  <2>5. Done(f) = Len(f.sendAdapters)
    <3>1. f.sendAdapters \in Seq(PerSendAdapterInfo) /\ f.n \in Nat
      BY FrameIs
    <3>2. Len(f.sendAdapters) \in Nat
      BY <3>1
    <3>3. f.n - 1 \in 0 .. Len(f.sendAdapters) /\ Done(f) = f.n - 1
      BY <2>2, <2>4 DEF LoopOk, Done
    <3> QED BY <2>4, <3>1, <3>2, <3>3
  <2>6. SameMessage(f, event)
    BY <2>3 DEF SameMessage
  <2>7. /\ SequencesOk(stack, len, messageSequence, messageSent')
        /\ CallsOk(stack, len, messageSent', carried)
    BY <1>1, <1>4, <2>1, <2>2, <2>3, <2>5, <2>6, FinishMovesMessage
  <2>8. SequencesOk(stack', len, messageSequence', messageSent')
    BY <1>5, <2>4, <2>7 DEF SequencesOk
  <2>9. CallsOk(stack', len, messageSent', carried')
    BY <1>5, <2>4, <2>7 DEF CallsOk
  <2>10. (\A j \in Integrators : RegistryInv(j)') /\ FundsConserved'
    BY <2>1, <2>4 DEF vars, RegistryInv, FundsConserved
  <2> QED BY <1>5, <1>6, <2>8, <2>9, <2>10, NextSendInv
<1> QED BY <1>7, <1>8

\* What others call meanwhile keeps the invariant.
LEMMA OtherKeepsInv ==
  ASSUME SendTypeOK, SendInv,
         \/ OtherCall(Next)
         \/ \E m \in Messages, i \in Integrators, value \in Prices \ {0} :
              recvMessagePaying(m, i, value)
  PROVE  SendInv'
<1>1. [Next]_vars /\ UNCHANGED <<stack, messageSequence, carried, messageSent>>
  BY OtherIs
<1>2. /\ \A j \in Integrators : RegistryInv(j)
      /\ SequencesOk(stack, Len(stack), messageSequence, messageSent)
      /\ CallsOk(stack, Len(stack), messageSent, carried)
      /\ FundsConserved
  BY PresentIs DEF SendInv
<1>3. \A j \in Integrators : RegistryInv(j)'
  BY <1>1, <1>2, StepKeepsRegistry DEF SendTypeOK
<1>4. FundsConserved'
  <2>1. balance \in Nat /\ received \in Nat /\ Paid(carried) \in Nat
    BY PaidTyped DEF SendTypeOK
  <2>2. PICK value \in Nat :
          balance' = balance + value /\ received' = received + value
    <3>1. CASE OtherCall(Next)
      <4>1. 0 \in Nat /\ balance' = balance + 0 /\ received' = received + 0
        BY <2>1, <3>1 DEF OtherCall, sendVars
      <4> QED BY <4>1
    <3>2. ASSUME NEW m \in Messages, NEW i \in Integrators,
                 NEW value \in Prices \ {0}, recvMessagePaying(m, i, value)
          PROVE  /\ value \in Nat /\ balance' = balance + value
                 /\ received' = received + value
      BY <3>2, SendAssumption DEF recvMessagePaying, Accept
    <3> QED BY <3>1, <3>2
  <2> QED BY <1>1, <1>2, <2>1, <2>2 DEF FundsConserved
<1>5. \A k \in 1 .. Len(stack) :
        LoopOk(stack[k]) /\ StorageOk(stack, k - 1, stack[k].undo)
  BY DEF SendInv
<1> QED BY <1>1, <1>2, <1>3, <1>4, <1>5, NextSendInv

\* The invariant holds in every reachable state.
LEMMA SendInvariant == SendSpec => []SendInv
<1>1. SendInit => SendInv
  <2> SUFFICES ASSUME SendInit PROVE SendInv
    OBVIOUS
  <2>1. \A i \in Integrators : RegistryInv(i)
    BY InitRegistry DEF SendInit
  <2>2. /\ stack = <<>> /\ messageSent = <<>> /\ carried = <<>>
        /\ Len(stack) = 0 /\ Len(messageSent) = 0 /\ Len(carried) = 0
        /\ balance = 0 /\ received = 0
        /\ messageSequence = [i \in Integrators |-> 0]
    BY DEF SendInit
  <2>3. SequencesOk(stack, Len(stack), messageSequence, messageSent)
    BY <2>2 DEF SequencesOk
  <2>4. CallsOk(stack, Len(stack), messageSent, carried)
    BY <2>2 DEF CallsOk
  <2>5. FundsConserved
    BY <2>2, PaidTyped DEF FundsConserved
  <2> QED BY <2>1, <2>2, <2>3, <2>4, <2>5, PresentIs DEF SendInv
<1>2. SendTypeOK /\ SendInv /\ [SendNext]_allVars => SendInv'
  <2> SUFFICES ASSUME SendTypeOK, SendInv, [SendNext]_allVars PROVE SendInv'
    OBVIOUS
  <2>1. CASE UNCHANGED allVars
    <3>1. UNCHANGED <<vars, stack, messageSequence, balance, received, carried,
                      messageSent>>
      BY <2>1 DEF allVars, sendVars
    <3>2. /\ \A j \in Integrators : RegistryInv(j)
          /\ SequencesOk(stack, Len(stack), messageSequence, messageSent)
          /\ CallsOk(stack, Len(stack), messageSent, carried)
          /\ FundsConserved
      BY PresentIs DEF SendInv
    <3>3. (\A j \in Integrators : RegistryInv(j)') /\ FundsConserved'
      BY <3>1, <3>2 DEF vars, RegistryInv, FundsConserved
    <3>4. \A k \in 1 .. Len(stack) :
            LoopOk(stack[k]) /\ StorageOk(stack, k - 1, stack[k].undo)
      BY DEF SendInv
    <3> QED BY <3>1, <3>2, <3>3, <3>4, NextSendInv
  <2> QED
    BY <2>1, SendKeepsInv, LoopKeepsInv, EndKeepsInv, OtherKeepsInv
    DEF SendNext, SendAmong, SendStep
<1> QED BY <1>1, <1>2, SendTypeCorrect, PTL DEF SendSpec

-----------------------------------------------------------------------------
(* What sendMessage promises *)

\* Between transactions the MessageSent events of an integrator carry each
\* sequence below its counter exactly once, whatever was sent from within an
\* adapter and whatever was reverted.
THEOREM SequencesDense == SendSpec => []SentSequencesDense
<1>1. SendTypeOK /\ SendInv => SentSequencesDense
  <2> SUFFICES ASSUME SendTypeOK, SendInv, stack = <<>>
               PROVE  /\ \A i \in Integrators :
                           {messageSent[n].sequence :
                              n \in {e \in Events :
                                       messageSent[e].integrator = i}}
                             = 0 .. messageSequence[i] - 1
                      /\ \A m, n \in Events :
                           SameMessage(messageSent[m], messageSent[n])
                             => m = n
    BY DEF SentSequencesDense, Committed
  <2>1. SequencesOk(stack, 0, messageSequence, messageSent)
    <3>1. Len(stack) = 0
      OBVIOUS
    <3> QED BY <3>1, PresentIs DEF SendInv
  <2>2. \A m, n \in Events :
          SameMessage(messageSent[m], messageSent[n]) => m = n
    BY <2>1 DEF SequencesOk, Events
  <2>3. ASSUME NEW i \in Integrators
        PROVE  {messageSent[n].sequence :
                  n \in {e \in Events : messageSent[e].integrator = i}}
                 = 0 .. messageSequence[i] - 1
    <3>1. messageSequence[i] \in Nat
      BY DEF SendTypeOK
    <3>2. ASSUME NEW e \in Events, messageSent[e].integrator = i
          PROVE  messageSent[e].sequence \in 0 .. messageSequence[i] - 1
      <4>1. messageSent[e] \in Event
        BY DEF SendTypeOK, Events
      <4>2. messageSent[e].sequence \in Nat
        BY <4>1 DEF Event
      <4>3. messageSent[e].sequence < messageSequence[i]
        BY <2>1, <3>2 DEF SequencesOk, Events
      <4> QED BY <3>1, <4>2, <4>3
    <3>3. ASSUME NEW n \in 0 .. messageSequence[i] - 1
          PROVE  \E e \in Events : /\ messageSent[e].integrator = i
                                   /\ messageSent[e].sequence = n
      <4> DEFINE x == [integrator |-> i, sequence |-> n]
      <4>1. PICK e \in Events : SameMessage(messageSent[e], x)
        BY <2>1 DEF SequencesOk, Events
      <4> QED BY <4>1 DEF SameMessage
    <3> QED BY <3>2, <3>3
  <2> QED BY <2>2, <2>3
<1> QED BY <1>1, SendTypeCorrect, SendInvariant, PTL

\* Between transactions a message with a MessageSent event was handed once to
\* each adapter enabled when sendMessage was called, with the instruction meant
\* for it, and no adapter keeps a message that was reverted.
THEOREM CarriedByAll == SendSpec => []SentIsCarriedByAll
<1>1. SendTypeOK /\ SendInv => SentIsCarriedByAll
  <2> SUFFICES ASSUME SendTypeOK, SendInv, stack = <<>>
               PROVE  SentIsCarriedByAll
    BY DEF SentIsCarriedByAll, Committed
  <2> DEFINE Of(e) == {n \in Calls : SameMessage(messageSent[e], carried[n])}
  <2>1. CallsOk(stack, 0, messageSent, carried)
    <3>1. Len(stack) = 0
      OBVIOUS
    <3> QED BY <3>1, PresentIs DEF SendInv
  <2>2. Calls = UNION {Of(e) : e \in Events}
    <3>1. \A n \in Calls : \E e \in Events :
            SameMessage(messageSent[e], carried[n])
      BY <2>1 DEF CallsOk, Calls, Events
    <3> QED BY <3>1
  <2>3. ASSUME NEW e \in Events
        PROVE  /\ {carried[n].adapter : n \in Of(e)} = messageSent[e].enabled
               /\ \A m, n \in Of(e) :
                    carried[m].adapter = carried[n].adapter => m = n
               /\ \A n \in Of(e) :
                    carried[n].instructed =
                      (carried[n].adapter \in messageSent[e].toWhom)
    <3>1. Handed(messageSent[e], messageSent[e].enabled, carried)
      BY <2>1 DEF CallsOk, Events
    <3>2. messageSent[e].enabled \subseteq Adapters
      <4>1. messageSent[e] \in Event
        BY DEF SendTypeOK, Events
      <4> QED BY <4>1 DEF Event
    <3>3. \A n \in Calls : carried[n].adapter \in Adapters
      <4>1. \A n \in Calls : carried[n] \in Call
        BY DEF SendTypeOK, Calls
      <4> QED BY <4>1 DEF Call
    <3>4. \A a \in Adapters : a \in messageSent[e].enabled <=>
            \E n \in Of(e) : carried[n].adapter = a
      BY <3>1 DEF Handed, Calls
    <3>5. {carried[n].adapter : n \in Of(e)} = messageSent[e].enabled
      <4>1. \A n \in Of(e) : carried[n].adapter \in Adapters
        BY <3>3
      <4> HIDE DEF Of
      <4> QED BY <3>2, <3>4, <4>1
    <3> QED BY <3>1, <3>5 DEF Handed, Calls
  <2> QED BY <2>2, <2>3 DEF SentIsCarriedByAll
<1> QED BY <1>1, SendTypeCorrect, SendInvariant, PTL

\* The endpoint holds what callers sent less what the adapters were paid for
\* the calls that stand, at every moment of every nested call.
THEOREM FundsAreConserved == SendSpec => []FundsConserved
<1>1. SendInv => FundsConserved
  BY PresentIs DEF SendInv
<1> QED BY <1>1, SendInvariant, PTL

\* Neither nested calls nor reverts disturb the registry: indices and array
\* agree, and the send array matches the events.
THEOREM RegistryUnderReverts ==
  SendSpec => [](RegistryIndexesAgree /\ SendArrayMatchesEvents)
<1>1. SendInv => RegistryIndexesAgree /\ SendArrayMatchesEvents
  BY PresentIs, RegistryAgrees DEF SendInv
<1> QED BY <1>1, SendInvariant, PTL

=============================================================================
