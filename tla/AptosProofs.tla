---------------------------- MODULE AptosProofs ----------------------------
(***************************************************************************)
(* Theorems about the Aptos endpoint and its integrators for every set of  *)
(* integrators, users, adapters, chains and messages, every capacity up to *)
(* 128 and every last sequence.                                            *)
(***************************************************************************)
EXTENDS AptosEndpoint, SequenceTheorems, TLAPS

-----------------------------------------------------------------------------
(* Type correctness *)

\* Every function of integrator.move keeps its resources well typed.
LEMMA IntegratorTypeStep ==
  ASSUME IntegratorTypeOK, NEW i \in Integrators, NEW signer \in Users,
         AdminFunction(i, signer)
  PROVE  IntegratorTypeOK'
<1> USE AptosAssumption DEF IntegratorTypeOK, adminVars, adapterVars
<1>1. ASSUME NEW new \in Users, update_admin(i, signer, new)
      PROVE  IntegratorTypeOK'
  BY <1>1 DEF update_admin
<1>2. ASSUME NEW new \in Users, transfer_admin(i, signer, new)
      PROVE  IntegratorTypeOK'
  BY <1>2 DEF transfer_admin
<1>3. ASSUME claim_admin(i, signer) PROVE IntegratorTypeOK'
  BY <1>3 DEF claim_admin
<1>4. ASSUME discard_admin(i, signer) PROVE IntegratorTypeOK'
  BY <1>4 DEF discard_admin
<1>5. ASSUME NEW a \in Adapters, add_adapter(i, signer, a)
      PROVE  IntegratorTypeOK'
  <2>1. NewIndex(i) \in Index
    BY <1>5 DEF add_adapter, NewIndex, Index
  <2>2. Append(adapters[i], a) \in Seq(Adapters)
    OBVIOUS
  <2>3. adapter_to_index' \in
          [Integrators -> [Adapters -> Index \cup {None}]]
    BY <1>5, <2>1 DEF add_adapter
  <2> QED BY <1>5, <2>2, <2>3 DEF add_adapter
<1>6. ASSUME NEW c \in ChainIds, NEW a \in Adapters,
             \/ enable_send_adapter(i, signer, c, a)
             \/ disable_send_adapter(i, signer, c, a)
             \/ enable_recv_adapter(i, signer, c, a)
             \/ disable_recv_adapter(i, signer, c, a)
      PROVE  IntegratorTypeOK'
  <2>1. adapter_to_index[i][a] \in Index
    BY <1>6 DEF enable_send_adapter, disable_send_adapter,
      enable_recv_adapter, disable_recv_adapter
  <2>2. /\ enable(send_bitmap[i][c], adapter_to_index[i][a]) \in SUBSET Index
        /\ disable(send_bitmap[i][c], adapter_to_index[i][a]) \in SUBSET Index
        /\ enable(recv_bitmap[i][c], adapter_to_index[i][a]) \in SUBSET Index
        /\ disable(recv_bitmap[i][c], adapter_to_index[i][a]) \in SUBSET Index
    BY <2>1 DEF enable, disable
  <2>3. CASE enable_send_adapter(i, signer, c, a)
    BY <2>2, <2>3 DEF enable_send_adapter
  <2>4. CASE disable_send_adapter(i, signer, c, a)
    BY <2>2, <2>4 DEF disable_send_adapter
  <2>5. CASE enable_recv_adapter(i, signer, c, a)
    BY <2>2, <2>5 DEF enable_recv_adapter
  <2>6. CASE disable_recv_adapter(i, signer, c, a)
    BY <2>2, <2>6 DEF disable_recv_adapter
  <2> QED BY <1>6, <2>3, <2>4, <2>5, <2>6
<1> QED
  BY <1>1, <1>2, <1>3, <1>4, <1>5, <1>6 DEF AdminFunction

\* The entry found or created for a message.
LEMMA InfoOrNewTyped ==
  ASSUME TypeOK, NEW m \in Messages
  PROVE  InfoOrNew(m) \in AttestationInfo
BY DEF TypeOK, InfoOrNew, NewAttestationInfo, AttestationInfo

\* The tables of the endpoint hold values of their declared types.
THEOREM TypeCorrect == Spec => []TypeOK
<1>1. Init => TypeOK
  BY AptosAssumption DEF Init, IntegratorInit, TypeOK, IntegratorTypeOK
<1>2. TypeOK /\ [Next]_vars => TypeOK'
  <2> SUFFICES ASSUME TypeOK, [Next]_vars PROVE TypeOK'
    OBVIOUS
  <2> USE AptosAssumption DEF TypeOK, integratorVars, outboxVars, inboxVars
  <2>1. ASSUME NEW i \in Integrators, NEW u \in Users, register(i, u)
        PROVE  TypeOK'
    <3>1. IntegratorTypeOK'
      BY <2>1 DEF register, new_integrator, IntegratorTypeOK, adapterVars
    <3> QED BY <2>1, <3>1 DEF register
  <2>2. CASE AdminStep
    BY <2>2, IntegratorTypeStep DEF AdminStep
  <2>3. ASSUME NEW i \in Integrators, NEW c \in ChainIds, send_message(i, c)
        PROVE  TypeOK'
    <3>1. sequence[i] \in Sequences
      BY <2>3 DEF send_message, use_sequence, Registered, Sequences,
        IntegratorTypeOK
    <3>2. sequence' \in [Integrators -> 0 .. MaxSequence \cup {None}]
      <4>1. sequence[i] + 1 \in 0 .. MaxSequence
        BY <3>1 DEF Sequences
      <4> QED
        BY <2>3, <4>1 DEF send_message, use_sequence, IntegratorTypeOK
    <3>3. outbox_messages' \in
            [Integrators -> [Sequences -> (SUBSET Index) \cup {None}]]
      BY <2>3, <3>1 DEF send_message, IntegratorTypeOK
    <3> QED
      BY <2>3, <3>2, <3>3
      DEF send_message, use_sequence, adminVars, adapterVars,
        IntegratorTypeOK
  <2>4. ASSUME NEW i \in Integrators, NEW n \in Sequences, NEW a \in Adapters,
               pick_up_message(i, n, a)
        PROVE  TypeOK'
    <3>1. outbox_messages[i][n] \in SUBSET Index
      BY <2>4 DEF pick_up_message
    <3>2. RemoveIfEmpty(disable(outbox_messages[i][n],
                                adapter_to_index[i][a]))
            \in (SUBSET Index) \cup {None}
      BY <3>1 DEF RemoveIfEmpty, disable
    <3>3. outbox_messages' \in
            [Integrators -> [Sequences -> (SUBSET Index) \cup {None}]]
      BY <2>4, <3>2 DEF pick_up_message
    <3> QED BY <2>4, <3>3 DEF pick_up_message, IntegratorTypeOK
  <2>5. ASSUME NEW m \in Messages, NEW a \in Adapters, attest_message(m, a)
        PROVE  TypeOK'
    <3> DEFINE index   == adapter_to_index[m.dst_addr][a]
               updated == [InfoOrNew(m) EXCEPT !.attested_adapters =
                                                  enable(@, index)]
    <3>1. index \in Index
      BY <2>5, AptosMessagesAssumption DEF attest_message, IntegratorTypeOK
    <3>2. updated \in AttestationInfo
      BY <3>1, InfoOrNewTyped DEF AttestationInfo, enable
    <3>3. attestation_infos' = [attestation_infos EXCEPT ![m] = updated]
      BY <2>5 DEF attest_message
    <3> HIDE DEF updated
    <3>4. attestation_infos' \in [Messages -> AttestationInfo \cup {None}]
      BY <3>2, <3>3
    <3> QED BY <2>5, <3>4 DEF attest_message, IntegratorTypeOK
  <2>6. ASSUME NEW m \in Messages, NEW info \in AttestationInfo,
               NEW how \in {"recv", "exec"},
               attestation_infos' = [attestation_infos EXCEPT ![m] =
                                       [info EXCEPT !.executed = TRUE]],
               deliveries' = [deliveries EXCEPT ![m] = Append(@, how)],
               UNCHANGED <<attested_by, integratorVars, outboxVars>>
        PROVE  TypeOK'
    <3>1. [info EXCEPT !.executed = TRUE] \in AttestationInfo
      BY DEF AttestationInfo
    <3>2. attestation_infos' \in [Messages -> AttestationInfo \cup {None}]
      BY <2>6, <3>1
    <3>3. deliveries' \in [Messages -> Seq({"recv", "exec"})]
      BY <2>6
    <3> QED BY <2>6, <3>2, <3>3 DEF IntegratorTypeOK
  <2>7. ASSUME NEW m \in Messages, recvMessage(m) PROVE TypeOK'
    <3>1. attestation_infos[m] \in AttestationInfo
      BY <2>7 DEF recvMessage, Borrowed
    <3> QED BY <2>6, <2>7, <3>1 DEF recvMessage, Borrowed
  <2>8. ASSUME NEW m \in Messages, execMessage(m) PROVE TypeOK'
    BY <2>6, <2>8, InfoOrNewTyped DEF execMessage
  <2>9. CASE UNCHANGED vars
    BY <2>9 DEF vars, IntegratorTypeOK
  <2> QED
    BY <2>1, <2>2, <2>3, <2>4, <2>5, <2>7, <2>8, <2>9 DEF Next, MessageStep
<1> QED BY <1>1, <1>2, PTL DEF Spec

-----------------------------------------------------------------------------
(* Adapters *)

\* AdapterTablesAgree for the vector and the table of one integrator.
TableOk(array, table) ==
  /\ \A a \in Adapters, n \in 1 .. Len(array) :
       array[n] = a <=> table[a] = n - 1
  /\ \A a \in Adapters : table[a] # None => table[a] < Len(array)

\* Two adapters of a table have different indices.
LEMMA IndexIsInjective ==
  ASSUME NEW array \in Seq(Adapters),
         NEW table \in [Adapters -> Index \cup {None}],
         TableOk(array, table), NEW a \in Adapters, NEW b \in Adapters,
         table[a] # None, table[a] = table[b]
  PROVE  a = b
<1>1. PICK k \in Nat : k = table[a] /\ k < Len(array)
  BY DEF TableOk, Index
<1>2. k + 1 \in 1 .. Len(array) /\ (k + 1) - 1 = k
  BY <1>1
<1>3. array[k + 1] = a /\ array[k + 1] = b
  BY <1>1, <1>2 DEF TableOk
<1> QED BY <1>3

\* Appending an adapter that is not in the vector keeps the agreement.
LEMMA AddKeepsTable ==
  ASSUME NEW array \in Seq(Adapters),
         NEW table \in [Adapters -> Index \cup {None}],
         TableOk(array, table), NEW a \in Adapters,
         \A n \in 1 .. Len(array) : array[n] # a
  PROVE  /\ TableOk(Append(array, a), [table EXCEPT ![a] = Len(array)])
         /\ table[a] = None
<1> DEFINE after == [table EXCEPT ![a] = Len(array)]
           more  == Append(array, a)
<1>1. PICK len \in Nat : len = Len(array)
  OBVIOUS
<1>2. /\ Len(more) = len + 1 /\ more[len + 1] = a
      /\ \A n \in 1 .. len : more[n] = array[n]
  BY <1>1
<1>3. after[a] = len /\ \A b \in Adapters : b # a => after[b] = table[b]
  BY <1>1
<1>4. table[a] = None
  <2> SUFFICES ASSUME table[a] # None PROVE FALSE
    OBVIOUS
  <2>1. PICK k \in Nat : k = table[a] /\ k < len
    BY <1>1 DEF TableOk, Index
  <2>2. k + 1 \in 1 .. Len(array) /\ (k + 1) - 1 = k
    BY <1>1, <2>1
  <2> QED BY <2>1, <2>2 DEF TableOk
<1> HIDE DEF after, more
<1>5. ASSUME NEW b \in Adapters, NEW n \in 1 .. len + 1
      PROVE  more[n] = b <=> after[b] = n - 1
  <2>1. CASE n = len + 1
    <3>1. n - 1 = len /\ n - 1 # None
      BY <2>1, AptosAssumption
    <3>2. CASE b = a
      BY <1>2, <1>3, <2>1, <3>1, <3>2
    <3>3. CASE b # a
      <4>1. table[b] # None => table[b] < len
        BY <1>1 DEF TableOk
      <4>2. table[b] # len
        BY <3>1, <4>1
      <4> QED BY <1>2, <1>3, <2>1, <3>1, <3>3, <4>2
    <3> QED BY <3>2, <3>3
  <2>2. CASE n # len + 1
    <3>1. n \in 1 .. Len(array) /\ more[n] = array[n] /\ n - 1 # len
          /\ n - 1 \in Nat
      BY <1>1, <1>2, <2>2
    <3>2. array[n] = b <=> table[b] = n - 1
      BY <3>1 DEF TableOk
    <3>3. CASE b = a
      BY <1>3, <3>1, <3>3
    <3>4. CASE b # a
      BY <1>3, <3>1, <3>2, <3>4
    <3> QED BY <3>3, <3>4
  <2> QED BY <2>1, <2>2
<1>6. ASSUME NEW b \in Adapters, after[b] # None
      PROVE  after[b] < len + 1
  <2>1. CASE b = a
    BY <1>3, <2>1
  <2>2. CASE b # a
    <3>1. PICK k \in Nat : k = table[b] /\ k < len
      BY <1>1, <1>3, <1>6, <2>2 DEF TableOk, Index
    <3>2. k < len + 1
      BY <3>1
    <3> QED BY <1>3, <2>2, <3>1, <3>2
  <2> QED BY <2>1, <2>2
<1>7. TableOk(more, after)
  BY <1>2, <1>5, <1>6 DEF TableOk
<1> QED BY <1>4, <1>7 DEF more, after

\* AdapterTablesAgree for one integrator.
AdapterInv(i) ==
  /\ TableOk(adapters[i], adapter_to_index[i])
  /\ \A c \in ChainIds :
       /\ send_bitmap[i][c] \subseteq 0 .. Len(adapters[i]) - 1
       /\ recv_bitmap[i][c] \subseteq 0 .. Len(adapters[i]) - 1

\* No adapter ever loses or changes its index.
KeepsIndexes ==
  \A i \in Integrators, a \in Adapters :
    adapter_to_index[i][a] # None =>
      adapter_to_index'[i][a] = adapter_to_index[i][a]

\* What an admin function of integrator i does to the adapters: all agree
\* again, indices stay, and nothing of another integrator changes.
LEMMA AdminFunctionKeepsAdapters ==
  ASSUME IntegratorTypeOK, \A j \in Integrators : AdapterInv(j),
         NEW i \in Integrators, NEW signer, AdminFunction(i, signer)
  PROVE  /\ \A j \in Integrators : AdapterInv(j)'
         /\ KeepsIndexes
         /\ \A j \in Integrators : j # i =>
              UNCHANGED <<sequence[j], admin_addr[j], pending_admin_addr[j],
                          ConfigOf(j)>>
<1> DEFINE Goal == /\ \A j \in Integrators : AdapterInv(j)'
                   /\ KeepsIndexes
                   /\ \A j \in Integrators : j # i =>
                        UNCHANGED <<sequence[j], admin_addr[j],
                                    pending_admin_addr[j], ConfigOf(j)>>
<1> USE DEF IntegratorTypeOK
<1>1. ASSUME NEW j \in Integrators,
             UNCHANGED <<adapters[j], adapter_to_index[j], send_bitmap[j],
                         recv_bitmap[j]>>
      PROVE  AdapterInv(j)'
  BY <1>1 DEF AdapterInv
<1>2. ASSUME UNCHANGED adapterVars,
             \A j \in Integrators : j # i =>
               UNCHANGED <<sequence[j], admin_addr[j], pending_admin_addr[j]>>
      PROVE  Goal
  BY <1>1, <1>2 DEF adapterVars, KeepsIndexes, ConfigOf
<1>3. ASSUME NEW new \in Users, \/ update_admin(i, signer, new)
                                \/ transfer_admin(i, signer, new)
      PROVE  Goal
  <2>1. /\ UNCHANGED adapterVars
        /\ \A j \in Integrators : j # i =>
             UNCHANGED <<sequence[j], admin_addr[j], pending_admin_addr[j]>>
    BY <1>3 DEF update_admin, transfer_admin
  <2> QED BY <1>2, <2>1
<1>4. ASSUME claim_admin(i, signer) \/ discard_admin(i, signer)
      PROVE  Goal
  <2>1. /\ UNCHANGED adapterVars
        /\ \A j \in Integrators : j # i =>
             UNCHANGED <<sequence[j], admin_addr[j], pending_admin_addr[j]>>
    BY <1>4 DEF claim_admin, discard_admin
  <2> QED BY <1>2, <2>1
<1>5. ASSUME NEW a \in Adapters, add_adapter(i, signer, a)
      PROVE  Goal
  <2> DEFINE array == adapters[i]
             table == adapter_to_index[i]
             after == [table EXCEPT ![a] = Len(array)]
  <2>1. /\ \A n \in 1 .. Len(array) : array[n] # a
        /\ adapters' = [adapters EXCEPT ![i] = Append(array, a)]
        /\ adapter_to_index' = [adapter_to_index EXCEPT ![i] = after]
        /\ UNCHANGED <<sequence, admin_addr, pending_admin_addr, send_bitmap,
                       recv_bitmap>>
    BY <1>5 DEF add_adapter, NewIndex, adminVars
  <2>2. TableOk(Append(array, a), after) /\ table[a] = None
    <3>1. /\ array \in Seq(Adapters) /\ TableOk(array, table)
          /\ table \in [Adapters -> Index \cup {None}]
      BY DEF AdapterInv
    <3> HIDE DEF array, table
    <3> QED BY <2>1, <3>1, AddKeepsTable
  <2>3. /\ adapters'[i] = Append(array, a) /\ adapter_to_index'[i] = after
        /\ \A b \in Adapters : b # a => after[b] = table[b]
    BY <2>1
  <2> HIDE DEF after
  <2>4. PICK len \in Nat : len = Len(array) /\ Len(adapters'[i]) = len + 1
    BY <2>3
  <2>5. 0 .. len - 1 \subseteq 0 .. (len + 1) - 1
    OBVIOUS
  <2>6. \A c \in ChainIds :
          /\ send_bitmap[i][c] \subseteq 0 .. len - 1
          /\ recv_bitmap[i][c] \subseteq 0 .. len - 1
    BY <2>4 DEF AdapterInv
  <2>7. \A c \in ChainIds :
          /\ send_bitmap'[i][c] \subseteq 0 .. Len(adapters'[i]) - 1
          /\ recv_bitmap'[i][c] \subseteq 0 .. Len(adapters'[i]) - 1
    BY <2>1, <2>4, <2>5, <2>6
  <2>8. AdapterInv(i)'
    BY <2>2, <2>3, <2>7 DEF AdapterInv
  <2>9. \A j \in Integrators : j # i =>
          UNCHANGED <<adapters[j], adapter_to_index[j], send_bitmap[j],
                      recv_bitmap[j]>>
    BY <2>1
  <2>10. KeepsIndexes
    BY <2>1, <2>2, <2>3, <2>9 DEF KeepsIndexes
  <2> QED BY <1>1, <2>1, <2>8, <2>9, <2>10 DEF ConfigOf
<1>6. ASSUME NEW c \in ChainIds, NEW bits,
             bits \subseteq 0 .. Len(adapters[i]) - 1,
             \/ /\ send_bitmap' = [send_bitmap EXCEPT ![i][c] = bits]
                /\ UNCHANGED recv_bitmap
             \/ /\ recv_bitmap' = [recv_bitmap EXCEPT ![i][c] = bits]
                /\ UNCHANGED send_bitmap,
             UNCHANGED <<sequence, adminVars, adapters, adapter_to_index>>
      PROVE  Goal
  <2>1. \A d \in ChainIds :
          /\ send_bitmap'[i][d] \subseteq 0 .. Len(adapters[i]) - 1
          /\ recv_bitmap'[i][d] \subseteq 0 .. Len(adapters[i]) - 1
    <3>1. \A d \in ChainIds :
            /\ send_bitmap'[i][d] \in {bits, send_bitmap[i][d]}
            /\ recv_bitmap'[i][d] \in {bits, recv_bitmap[i][d]}
      BY <1>6
    <3> QED BY <1>6, <3>1 DEF AdapterInv
  <2>2. AdapterInv(i)'
    BY <1>6, <2>1 DEF AdapterInv
  <2>3. \A j \in Integrators : j # i =>
          UNCHANGED <<adapters[j], adapter_to_index[j], send_bitmap[j],
                      recv_bitmap[j]>>
    BY <1>6
  <2> QED BY <1>1, <1>6, <2>2, <2>3 DEF ConfigOf, KeepsIndexes, adminVars
<1>7. ASSUME NEW c \in ChainIds, NEW a \in Adapters,
             \/ enable_send_adapter(i, signer, c, a)
             \/ disable_send_adapter(i, signer, c, a)
             \/ enable_recv_adapter(i, signer, c, a)
             \/ disable_recv_adapter(i, signer, c, a)
      PROVE  Goal
  <2> DEFINE index == adapter_to_index[i][a]
             all   == 0 .. Len(adapters[i]) - 1
  <2>1. index # None
    BY <1>7 DEF enable_send_adapter, disable_send_adapter,
      enable_recv_adapter, disable_recv_adapter
  <2>2. PICK len \in Nat : len = Len(adapters[i])
    OBVIOUS
  <2>3. index \in all
    <3>1. PICK k \in Nat : k = index /\ k < len
      BY <2>1, <2>2 DEF AdapterInv, TableOk, Index
    <3>2. k \in 0 .. len - 1
      BY <3>1
    <3> QED BY <2>2, <3>1, <3>2
  <2> HIDE DEF all
  <2>4. /\ send_bitmap[i][c] \cup {index} \subseteq all
        /\ send_bitmap[i][c] \ {index} \subseteq all
        /\ recv_bitmap[i][c] \cup {index} \subseteq all
        /\ recv_bitmap[i][c] \ {index} \subseteq all
    BY <2>3 DEF AdapterInv, all
  <2> USE DEF all
  <2>5. CASE enable_send_adapter(i, signer, c, a)
    BY <1>6, <2>4, <2>5 DEF enable_send_adapter, enable
  <2>6. CASE disable_send_adapter(i, signer, c, a)
    BY <1>6, <2>4, <2>6 DEF disable_send_adapter, disable
  <2>7. CASE enable_recv_adapter(i, signer, c, a)
    BY <1>6, <2>4, <2>7 DEF enable_recv_adapter, enable
  <2>8. CASE disable_recv_adapter(i, signer, c, a)
    BY <1>6, <2>4, <2>8 DEF disable_recv_adapter, disable
  <2> QED BY <1>7, <2>5, <2>6, <2>7, <2>8
<1> QED
  BY <1>3, <1>4, <1>5, <1>7 DEF AdminFunction

\* Outside AdminStep the adapters stay as they are.
LEMMA OthersLeaveAdapters ==
  ASSUME [Next]_vars, ~AdminStep
  PROVE  UNCHANGED adapterVars
BY DEF Next, register, new_integrator, MessageStep, send_message,
  use_sequence, pick_up_message, attest_message, recvMessage, execMessage,
  vars, integratorVars, adapterVars

\* Every step keeps the agreement and every index.
LEMMA StepKeepsAdapters ==
  ASSUME TypeOK, \A i \in Integrators : AdapterInv(i), [Next]_vars
  PROVE  (\A i \in Integrators : AdapterInv(i)') /\ KeepsIndexes
<1>1. CASE AdminStep
  <2>1. PICK i \in Integrators, signer \in Users : AdminFunction(i, signer)
    BY <1>1 DEF AdminStep
  <2> QED BY <2>1, AdminFunctionKeepsAdapters DEF TypeOK
<1>2. CASE UNCHANGED adapterVars
  BY <1>2 DEF adapterVars, AdapterInv, KeepsIndexes
<1> QED BY <1>1, <1>2, OthersLeaveAdapters

\* The agreement holds in every reachable state.
LEMMA AdapterInvariant == Spec => [](\A i \in Integrators : AdapterInv(i))
<1>1. Init => \A i \in Integrators : AdapterInv(i)
  <2> SUFFICES ASSUME Init, NEW i \in Integrators PROVE AdapterInv(i)
    OBVIOUS
  <2>1. /\ adapters[i] = <<>>
        /\ \A a \in Adapters : adapter_to_index[i][a] = None
        /\ \A c \in ChainIds : send_bitmap[i][c] = {} /\ recv_bitmap[i][c] = {}
    BY DEF Init, IntegratorInit
  <2>2. TableOk(adapters[i], adapter_to_index[i])
    BY <2>1 DEF TableOk
  <2> QED BY <2>1, <2>2 DEF AdapterInv
<1>2. TypeOK /\ (\A i \in Integrators : AdapterInv(i)) /\ [Next]_vars
        => (\A i \in Integrators : AdapterInv(i))'
  BY StepKeepsAdapters
<1> QED BY <1>1, <1>2, TypeCorrect, PTL DEF Spec

\* The vector and the table of adapters agree, and every enabled bit is the
\* index of an adapter.
THEOREM TablesAgree == Spec => []AdapterTablesAgree
<1>1. (\A i \in Integrators : AdapterInv(i)) => AdapterTablesAgree
  BY DEF AdapterInv, TableOk, AdapterTablesAgree
<1> QED BY <1>1, AdapterInvariant, PTL

-----------------------------------------------------------------------------
(* Receiving *)

\* The address has attested to message m.
Attested(m, a) == <<m, a>> \in attested_by

\* An entry tells whether its message was delivered, has the bits of the
\* adapters that attested, and has no bits only if it was executed.
InboxInv(m) ==
  /\ InfoOrNew(m).executed <=> deliveries[m] # <<>>
  /\ attestation_infos[m] # None =>
       \/ attestation_infos[m].executed
       \/ attestation_infos[m].attested_adapters # {}
  /\ \A a \in Adapters :
       Attested(m, a) => adapter_to_index[m.dst_addr][a] # None
  /\ \A x : x \in InfoOrNew(m).attested_adapters <=>
       \E a \in Adapters :
         Attested(m, a) /\ x = adapter_to_index[m.dst_addr][a]

\* The entry of a message after a step.
LEMMA NextInfo ==
  ASSUME NEW m, NEW info \in AttestationInfo, attestation_infos'[m] = info
  PROVE  InfoOrNew(m)' = info /\ attestation_infos'[m] # None
BY AptosNoneAssumption DEF InfoOrNew

\* attest_message adds the index of one adapter to one entry.
LEMMA AttestAdds ==
  ASSUME TypeOK, NEW m \in Messages, NEW a \in Adapters, attest_message(m, a)
  PROVE  LET index == adapter_to_index[m.dst_addr][a] IN
         /\ index # None /\ index \in Index
         /\ index \notin InfoOrNew(m).attested_adapters
         /\ attestation_infos'[m] # None
         /\ InfoOrNew(m)'.attested_adapters
              = InfoOrNew(m).attested_adapters \cup {index}
         /\ attestation_infos'[m].attested_adapters # {}
         /\ InfoOrNew(m)'.executed = InfoOrNew(m).executed
         /\ \A n \in Messages : n # m =>
              attestation_infos'[n] = attestation_infos[n]
<1> DEFINE index   == adapter_to_index[m.dst_addr][a]
           info    == InfoOrNew(m)
           updated == [info EXCEPT !.attested_adapters = @ \cup {index}]
<1> USE DEF TypeOK
<1>1. /\ index # None /\ index \notin info.attested_adapters
      /\ attestation_infos' = [attestation_infos EXCEPT ![m] = updated]
  BY DEF attest_message, CanEnable, enable
<1>2. index \in Index
  BY <1>1, AptosMessagesAssumption DEF IntegratorTypeOK
<1>3. info \in AttestationInfo
  BY InfoOrNewTyped
<1> HIDE DEF info, index
<1>4. /\ updated \in AttestationInfo
      /\ updated.attested_adapters = info.attested_adapters \cup {index}
      /\ updated.executed = info.executed
  BY <1>2, <1>3 DEF AttestationInfo
<1> HIDE DEF updated
<1>5. attestation_infos'[m] = updated
  BY <1>1
<1>6. InfoOrNew(m)' = updated /\ attestation_infos'[m] # None
  BY <1>4, <1>5, NextInfo
<1>7. \A n \in Messages : n # m => attestation_infos'[n] = attestation_infos[n]
  BY <1>1
<1> QED BY <1>1, <1>2, <1>4, <1>5, <1>6, <1>7 DEF info, index

\* recvMessage and execMessage mark one entry as executed.
LEMMA DeliverMarks ==
  ASSUME TypeOK, NEW m \in Messages,
         attestation_infos' = [attestation_infos EXCEPT ![m] =
                                 [InfoOrNew(m) EXCEPT !.executed = TRUE]]
  PROVE  /\ attestation_infos'[m] # None
         /\ attestation_infos'[m].executed = TRUE
         /\ InfoOrNew(m)'.executed = TRUE
         /\ \A n \in Messages :
              /\ n # m => attestation_infos'[n] = attestation_infos[n]
              /\ InfoOrNew(n)'.attested_adapters
                   = InfoOrNew(n).attested_adapters
<1> DEFINE info    == InfoOrNew(m)
           updated == [info EXCEPT !.executed = TRUE]
<1>1. info \in AttestationInfo
  BY InfoOrNewTyped
<1> HIDE DEF info
<1>2. /\ updated \in AttestationInfo
      /\ updated.attested_adapters = info.attested_adapters
      /\ updated.executed = TRUE
  BY <1>1 DEF AttestationInfo
<1>3. attestation_infos' = [attestation_infos EXCEPT ![m] = updated]
  BY DEF info
<1> HIDE DEF updated
<1>4. /\ attestation_infos'[m] = updated
      /\ \A n \in Messages : n # m =>
           attestation_infos'[n] = attestation_infos[n]
  BY <1>3 DEF TypeOK
<1>5. InfoOrNew(m)' = updated /\ attestation_infos'[m] # None
  BY <1>2, <1>4, NextInfo
<1>6. \A n \in Messages : n # m => InfoOrNew(n)' = InfoOrNew(n)
  BY <1>4 DEF InfoOrNew
<1> QED BY <1>2, <1>4, <1>5, <1>6 DEF info

\* What recvMessage finds is the entry, so both deliver alike.
LEMMA DeliveryStep ==
  ASSUME NEW m, recvMessage(m) \/ execMessage(m)
  PROVE  /\ ~InfoOrNew(m).executed
         /\ attestation_infos' = [attestation_infos EXCEPT ![m] =
                                    [InfoOrNew(m) EXCEPT !.executed = TRUE]]
         /\ UNCHANGED <<attested_by, integratorVars, outboxVars>>
         /\ recvMessage(m) => attestation_infos[m] # None
         /\ \E how \in {"recv", "exec"} :
              deliveries' = [deliveries EXCEPT ![m] = Append(@, how)]
BY DEF recvMessage, execMessage, Borrowed, InfoOrNew

\* Steps other than the message functions leave the inbox alone.
LEMMA OthersLeaveInbox ==
  ASSUME [Next]_vars,
         ~ \E m \in Messages, a \in Adapters : attest_message(m, a),
         ~ \E m \in Messages : recvMessage(m) \/ execMessage(m)
  PROVE  UNCHANGED inboxVars
BY DEF Next, register, AdminStep, MessageStep, send_message, pick_up_message,
  vars, inboxVars

\* Every step keeps the invariant of every entry.
LEMMA StepKeepsInbox ==
  ASSUME TypeOK, KeepsIndexes, [Next]_vars, NEW m \in Messages, InboxInv(m)
  PROVE  InboxInv(m)'
<1>1. \A a \in Adapters : Attested(m, a) =>
        adapter_to_index'[m.dst_addr][a] = adapter_to_index[m.dst_addr][a]
  BY AptosMessagesAssumption DEF InboxInv, KeepsIndexes
<1>2. ASSUME \A a \in Adapters : Attested(m, a)' <=> Attested(m, a),
             UNCHANGED <<attestation_infos[m], deliveries[m]>>
      PROVE  InboxInv(m)'
  <2>1. InfoOrNew(m)' = InfoOrNew(m)
    BY <1>2 DEF InfoOrNew
  <2> QED BY <1>1, <1>2, <2>1 DEF InboxInv
<1>3. ASSUME NEW n \in Messages, NEW b \in Adapters, attest_message(n, b)
      PROVE  InboxInv(m)'
  <2>1. /\ attested_by' = attested_by \cup {<<n, b>>}
        /\ UNCHANGED <<adapter_to_index, deliveries>>
    BY <1>3 DEF attest_message, integratorVars
  <2>2. CASE n # m
    <3>1. \A a \in Adapters : Attested(m, a)' <=> Attested(m, a)
      BY <2>1, <2>2 DEF Attested
    <3>2. attestation_infos'[m] = attestation_infos[m]
      BY <1>3, <2>2, AttestAdds
    <3> QED BY <1>2, <2>1, <3>1, <3>2
  <2>3. CASE n = m
    <3> DEFINE index == adapter_to_index[m.dst_addr][b]
    <3>1. \A a \in Adapters : Attested(m, a)' <=> Attested(m, a) \/ a = b
      BY <2>1, <2>3 DEF Attested
    <3>2. /\ index # None
          /\ attestation_infos'[m].attested_adapters # {}
          /\ InfoOrNew(m)'.attested_adapters
               = InfoOrNew(m).attested_adapters \cup {index}
          /\ InfoOrNew(m)'.executed = InfoOrNew(m).executed
      BY <1>3, <2>3, AttestAdds
    <3>3. \A a \in Adapters : Attested(m, a)' =>
            adapter_to_index'[m.dst_addr][a] # None
      BY <2>1, <3>1, <3>2 DEF InboxInv
    <3>4. \A x : x \in InfoOrNew(m)'.attested_adapters <=>
            \E a \in Adapters :
              Attested(m, a)' /\ x = adapter_to_index'[m.dst_addr][a]
      <4> SUFFICES ASSUME NEW x
                   PROVE  x \in InfoOrNew(m).attested_adapters \cup {index}
                            <=> \E a \in Adapters :
                                  /\ Attested(m, a) \/ a = b
                                  /\ x = adapter_to_index[m.dst_addr][a]
        BY <2>1, <3>1, <3>2
      <4> QED BY DEF InboxInv
    <3> QED BY <2>1, <3>2, <3>3, <3>4 DEF InboxInv
  <2> QED BY <2>2, <2>3
<1>4. ASSUME NEW n \in Messages, recvMessage(n) \/ execMessage(n)
      PROVE  InboxInv(m)'
  <2>1. UNCHANGED <<attested_by, adapter_to_index>>
    BY <1>4, DeliveryStep DEF integratorVars
  <2>2. attestation_infos' = [attestation_infos EXCEPT ![n] =
                                [InfoOrNew(n) EXCEPT !.executed = TRUE]]
    BY <1>4, DeliveryStep
  <2>3. PICK how \in {"recv", "exec"} :
          deliveries' = [deliveries EXCEPT ![n] = Append(@, how)]
    BY <1>4, DeliveryStep
  <2>4. \A a \in Adapters : Attested(m, a)' <=> Attested(m, a)
    BY <2>1 DEF Attested
  <2>5. CASE n # m
    <3>1. attestation_infos'[m] = attestation_infos[m]
      BY <2>2, <2>5, DeliverMarks
    <3>2. deliveries'[m] = deliveries[m]
      BY <2>3, <2>5 DEF TypeOK
    <3> QED BY <1>2, <2>4, <3>1, <3>2
  <2>6. CASE n = m
    <3>1. deliveries'[m] # <<>>
      <4>1. deliveries \in [Messages -> Seq({"recv", "exec"})]
        BY DEF TypeOK
      <4>2. deliveries'[m] = Append(deliveries[m], how)
        BY <2>3, <2>6, <4>1
      <4> QED BY <4>1, <4>2
    <3>2. /\ attestation_infos'[m].executed = TRUE
          /\ InfoOrNew(m)'.executed = TRUE
          /\ InfoOrNew(m)'.attested_adapters = InfoOrNew(m).attested_adapters
      BY <2>2, <2>6, DeliverMarks
    <3> QED BY <2>1, <2>4, <3>1, <3>2 DEF InboxInv
  <2> QED BY <2>5, <2>6
<1>5. CASE UNCHANGED inboxVars
  BY <1>2, <1>5 DEF inboxVars, Attested
<1> QED BY <1>3, <1>4, <1>5, OthersLeaveInbox

\* The invariant of the entries holds in every reachable state.
LEMMA InboxInvariant == Spec => [](\A m \in Messages : InboxInv(m))
<1> DEFINE Inv == \A m \in Messages : InboxInv(m)
           Ada == \A i \in Integrators : AdapterInv(i)
<1>1. Init => Inv
  <2> SUFFICES ASSUME Init, NEW m \in Messages PROVE InboxInv(m)
    OBVIOUS
  <2>1. /\ attestation_infos[m] = None /\ deliveries[m] = <<>>
        /\ attested_by = {}
    BY DEF Init
  <2>2. InfoOrNew(m).executed = FALSE /\ InfoOrNew(m).attested_adapters = {}
    BY <2>1 DEF InfoOrNew, NewAttestationInfo
  <2> QED BY <2>1, <2>2 DEF InboxInv, Attested
<1>2. TypeOK /\ Ada /\ Inv /\ [Next]_vars => Inv'
  BY StepKeepsAdapters, StepKeepsInbox
<1> QED BY <1>1, <1>2, TypeCorrect, AdapterInvariant, PTL DEF Spec

\* The bits of an entry are the indices of the adapters that attested, one
\* each, and an entry without bits was executed.
THEOREM AttestationsAttributed == Spec => []AttestationsAreAttributed
<1> DEFINE Inv == \A m \in Messages : InboxInv(m)
           Ada == \A i \in Integrators : AdapterInv(i)
<1>1. TypeOK /\ Ada /\ Inv => AttestationsAreAttributed
  <2> SUFFICES ASSUME TypeOK, Ada, Inv, NEW m \in Messages
               PROVE  LET by    == {p \in attested_by : p[1] = m}
                          At(p) == adapter_to_index[m.dst_addr][p[2]]
                          info  == attestation_infos[m]
                      IN
                      /\ by # {} => info # None
                      /\ info # None =>
                           /\ info.attested_adapters = {At(p) : p \in by}
                           /\ info.executed \/ by # {}
                      /\ \A p, q \in by : At(p) = At(q) => p = q
    BY DEF AttestationsAreAttributed
  <2> DEFINE by    == {p \in attested_by : p[1] = m}
             At(p) == adapter_to_index[m.dst_addr][p[2]]
             info  == attestation_infos[m]
  <2>1. InboxInv(m)
    OBVIOUS
  <2>2. ASSUME NEW p \in by
        PROVE  /\ p = <<m, p[2]>> /\ p[2] \in Adapters /\ Attested(m, p[2])
               /\ At(p) # None
    <3>1. p = <<m, p[2]>> /\ p[2] \in Adapters
      BY DEF TypeOK
    <3>2. Attested(m, p[2])
      BY <3>1 DEF Attested
    <3> QED BY <2>1, <3>1, <3>2 DEF InboxInv
  <2>3. \A a \in Adapters : Attested(m, a) <=> \E p \in by : p[2] = a
    BY <2>2 DEF Attested
  <2>4. ASSUME NEW x
        PROVE  x \in InfoOrNew(m).attested_adapters <=>
                 \E p \in by : x = At(p)
    BY <2>1, <2>2, <2>3 DEF InboxInv
  <2>5. ASSUME NEW p \in by, NEW q \in by, At(p) = At(q) PROVE p = q
    <3>1. PICK i \in Integrators : i = m.dst_addr
      BY AptosMessagesAssumption
    <3>2. /\ adapters[i] \in Seq(Adapters)
          /\ adapter_to_index[i] \in [Adapters -> Index \cup {None}]
          /\ TableOk(adapters[i], adapter_to_index[i])
      BY DEF TypeOK, IntegratorTypeOK, AdapterInv
    <3>3. p[2] = q[2]
      BY <2>2, <2>5, <3>1, <3>2, IndexIsInjective
    <3> QED BY <2>2, <3>3
  <2>6. InfoOrNew(m).attested_adapters = {At(p) : p \in by}
    BY <2>4
  <2>7. info = None => InfoOrNew(m).attested_adapters = {}
    BY DEF InfoOrNew, NewAttestationInfo
  <2>8. info # None => InfoOrNew(m) = info
    BY DEF InfoOrNew
  <2>9. info # None => info.executed \/ info.attested_adapters # {}
    BY <2>1 DEF InboxInv
  <2> HIDE DEF by, info
  <2>10. /\ by # {} => info # None
         /\ info # None => /\ info.attested_adapters = {At(p) : p \in by}
                           /\ info.executed \/ by # {}
    BY <2>6, <2>7, <2>8, <2>9
  <2> QED BY <2>5, <2>10 DEF by, info
<1> QED
  BY <1>1, TypeCorrect, AdapterInvariant, InboxInvariant, PTL

\* attest_message, recvMessage and execMessage implement Delivery: a message
\* is delivered once, and received only after an attestation.
THEOREM DeliveryRefined == Spec => ImplementsDelivery
<1> DEFINE Inv == \A m \in Messages : InboxInv(m)
<1>1. Init => Inbox!Init
  BY DEF Init, Inbox!Init, InfoOrNew, NewAttestationInfo
<1>2. TypeOK /\ Inv /\ [Next]_vars => [Inbox!Next]_(Inbox!vars)
  <2> SUFFICES ASSUME TypeOK, Inv, [Next]_vars
               PROVE  [Inbox!Next]_(Inbox!vars)
    OBVIOUS
  <2> DEFINE votes == [m \in Messages |-> InfoOrNew(m).attested_adapters]
  <2>1. ASSUME NEW m \in Messages, NEW a \in Adapters, attest_message(m, a)
        PROVE  Inbox!Next
    <3>1. PICK v \in Index : v = adapter_to_index[m.dst_addr][a]
      BY <2>1, AttestAdds
    <3>2. \A n \in Messages : n # m => InfoOrNew(n)' = InfoOrNew(n)
      BY <2>1, AttestAdds DEF InfoOrNew
    <3>3. [n \in Messages |-> InfoOrNew(n)'.attested_adapters]
            = [votes EXCEPT ![m] = @ \cup {v}]
      <4>1. InfoOrNew(m)'.attested_adapters
              = InfoOrNew(m).attested_adapters \cup {v}
        BY <2>1, <3>1, AttestAdds
      <4>2. \A n \in Messages : n # m =>
              InfoOrNew(n)'.attested_adapters = InfoOrNew(n).attested_adapters
        BY <3>2
      <4> QED BY <4>1, <4>2
    <3>4. Inbox!Attest(m, v)
      BY <2>1, <3>1, <3>3, AttestAdds DEF Inbox!Attest, attest_message
    <3> QED BY <3>4 DEF Inbox!Next
  <2>2. ASSUME NEW m \in Messages, recvMessage(m) \/ execMessage(m)
        PROVE  /\ deliveries[m] = <<>>
               /\ [n \in Messages |-> InfoOrNew(n)'.attested_adapters] = votes
               /\ recvMessage(m) => InfoOrNew(m).attested_adapters # {}
    <3>1. ~InfoOrNew(m).executed /\ (recvMessage(m) =>
                                       attestation_infos[m] # None)
      BY <2>2, DeliveryStep
    <3>2. \A n \in Messages : InfoOrNew(n)'.attested_adapters
                                = InfoOrNew(n).attested_adapters
      BY <2>2, DeliveryStep, DeliverMarks
    <3>3. InboxInv(m)
      OBVIOUS
    <3>4. recvMessage(m) => InfoOrNew(m).attested_adapters # {}
      BY <3>1, <3>3 DEF InboxInv, InfoOrNew
    <3> QED BY <3>1, <3>2, <3>3, <3>4 DEF InboxInv
  <2>3. ASSUME NEW m \in Messages, recvMessage(m) PROVE Inbox!Next
    <3>1. deliveries' = [deliveries EXCEPT ![m] = <<"recv">>]
      <4>1. deliveries[m] = <<>>
        BY <2>2, <2>3
      <4>2. Append(<<>>, "recv") = <<"recv">>
        OBVIOUS
      <4>3. deliveries' = [deliveries EXCEPT
                             ![m] = Append(deliveries[m], "recv")]
        BY <2>3 DEF recvMessage
      <4> QED BY <4>1, <4>2, <4>3
    <3> QED BY <2>2, <2>3, <3>1 DEF Inbox!Receive, Inbox!Next
  <2>4. ASSUME NEW m \in Messages, execMessage(m) PROVE Inbox!Next
    <3>1. deliveries' = [deliveries EXCEPT ![m] = <<"exec">>]
      <4>1. deliveries[m] = <<>>
        BY <2>2, <2>4
      <4>2. Append(<<>>, "exec") = <<"exec">>
        OBVIOUS
      <4>3. deliveries' = [deliveries EXCEPT
                             ![m] = Append(deliveries[m], "exec")]
        BY <2>4 DEF execMessage
      <4> QED BY <4>1, <4>2, <4>3
    <3> QED BY <2>2, <2>4, <3>1 DEF Inbox!Execute, Inbox!Next
  <2>5. CASE UNCHANGED inboxVars
    BY <2>5 DEF inboxVars, InfoOrNew, Inbox!vars
  <2> QED BY <2>1, <2>3, <2>4, <2>5, OthersLeaveInbox
<1> QED
  BY <1>1, <1>2, TypeCorrect, InboxInvariant, PTL
  DEF Spec, ImplementsDelivery, Inbox!Spec

-----------------------------------------------------------------------------
(* The admin functions implement AdminRole. *)

\* send_message takes the next sequence, and nothing else of the integrator.
LEMMA SendTakesSequence ==
  ASSUME TypeOK, NEW i \in Integrators, NEW c \in ChainIds,
         send_message(i, c)
  PROVE  /\ sequence[i] \in Nat /\ sequence[i] < MaxSequence
         /\ sequence' = [sequence EXCEPT ![i] = @ + 1]
         /\ sequence'[i] = sequence[i] + 1
         /\ \A j \in Integrators : Registered(j)' <=> Registered(j)
         /\ UNCHANGED <<adminVars, adapterVars>>
<1>1. sequence \in [Integrators -> 0 .. MaxSequence \cup {None}]
  BY DEF TypeOK, IntegratorTypeOK
<1>2. /\ sequence[i] # None /\ sequence[i] < MaxSequence
      /\ sequence' = [sequence EXCEPT ![i] = @ + 1]
      /\ UNCHANGED <<adminVars, adapterVars>>
  BY DEF send_message, use_sequence, Registered
<1>3. PICK n \in Nat : n = sequence[i]
  BY <1>1, <1>2
<1>4. sequence'[i] = n + 1 /\ n + 1 # None
  BY <1>1, <1>2, <1>3, AptosAssumption
<1>5. \A j \in Integrators : j # i => sequence'[j] = sequence[j]
  BY <1>1, <1>2
<1> QED BY <1>2, <1>3, <1>4, <1>5 DEF Registered

\* Before registration there is nothing to claim.
RoleInv ==
  \A i \in Integrators : ~Registered(i) => pending_admin_addr[i] = None

\* RoleInv holds in every reachable state.
LEMMA RoleInvariant == Spec => []RoleInv
<1>1. Init => RoleInv
  BY DEF Init, IntegratorInit, RoleInv
<1>2. TypeOK /\ RoleInv /\ [Next]_vars => RoleInv'
  <2> SUFFICES ASSUME TypeOK, RoleInv, [Next]_vars PROVE RoleInv'
    OBVIOUS
  <2> USE DEF TypeOK, IntegratorTypeOK, RoleInv, Registered
  <2>1. ASSUME NEW i \in Integrators, NEW u \in Users, register(i, u)
        PROVE  RoleInv'
    BY <2>1, AptosAssumption DEF register, new_integrator
  <2>2. CASE AdminStep
    <3>1. PICK i \in Integrators, signer \in Users : AdminFunction(i, signer)
      BY <2>2 DEF AdminStep
    <3>2. /\ UNCHANGED sequence
          /\ pending_admin_addr' # pending_admin_addr =>
               /\ Registered(i)
               /\ \E p : pending_admin_addr' =
                           [pending_admin_addr EXCEPT ![i] = p]
      BY <3>1 DEF AdminFunction, update_admin, transfer_admin, claim_admin,
        discard_admin, add_adapter, enable_send_adapter, disable_send_adapter,
        enable_recv_adapter, disable_recv_adapter, adminVars, CheckAdmin
    <3> QED BY <3>2
  <2>3. ASSUME NEW i \in Integrators, NEW c \in ChainIds, send_message(i, c)
        PROVE  RoleInv'
    BY <2>3, SendTakesSequence DEF adminVars
  <2>4. CASE UNCHANGED integratorVars
    BY <2>4 DEF integratorVars
  <2> QED
    BY <2>1, <2>2, <2>3, <2>4 DEF Next, MessageStep, pick_up_message,
      attest_message, recvMessage, execMessage, vars, integratorVars
<1> QED BY <1>1, <1>2, TypeCorrect, PTL DEF Spec

\* The refinement mapping of the role, by its four cases.
LEMMA RoleCases ==
  ASSUME NEW i
  PROVE  /\ ~Registered(i) => RoleOf(i) = [phase |-> "unregistered"]
         /\ Registered(i) /\ admin_addr[i] = None =>
              RoleOf(i) = [phase |-> "discarded"]
         /\ Registered(i) /\ admin_addr[i] # None
            /\ pending_admin_addr[i] = None =>
              RoleOf(i) = [phase |-> "owned", admin |-> admin_addr[i]]
         /\ Registered(i) /\ admin_addr[i] # None
            /\ pending_admin_addr[i] # None =>
              RoleOf(i) = [phase |-> "transferring", admin |-> admin_addr[i],
                           pending |-> pending_admin_addr[i]]
BY DEF RoleOf

\* The same in the next state.
LEMMA NextRoleCases ==
  ASSUME NEW i, Registered(i)'
  PROVE  /\ admin_addr'[i] = None => RoleOf(i)' = [phase |-> "discarded"]
         /\ admin_addr'[i] # None /\ pending_admin_addr'[i] = None =>
              RoleOf(i)' = [phase |-> "owned", admin |-> admin_addr'[i]]
         /\ admin_addr'[i] # None /\ pending_admin_addr'[i] # None =>
              RoleOf(i)' = [phase |-> "transferring",
                            admin |-> admin_addr'[i],
                            pending |-> pending_admin_addr'[i]]
BY DEF RoleOf

\* The role of an integrator depends on its own three fields.
LEMMA RoleUnchanged ==
  ASSUME NEW j, UNCHANGED <<admin_addr[j], pending_admin_addr[j]>>,
         Registered(j)' <=> Registered(j)
  PROVE  RoleOf(j)' = RoleOf(j)
BY DEF RoleOf

\* A step that changes one integrator's role to r and no settings.
LEMMA RoleBecomes ==
  ASSUME NEW i \in Integrators, NEW r, RoleOf(i)' = r,
         \A j \in Integrators : j # i => RoleOf(j)' = RoleOf(j),
         UNCHANGED adapterVars
  PROVE  Role!Become(i, r)
<1> DEFINE roles == [j \in Integrators |-> RoleOf(j)]
<1>1. [j \in Integrators |-> RoleOf(j)'] = [roles EXCEPT ![i] = r]
  OBVIOUS
<1>2. [j \in Integrators |-> ConfigOf(j)']
        = [j \in Integrators |-> ConfigOf(j)]
  BY DEF ConfigOf, adapterVars
<1> QED BY <1>1, <1>2 DEF Role!Become

\* The admin functions are steps of AdminRole.
LEMMA AdminFunctionIsRoleStep ==
  ASSUME TypeOK, \A j \in Integrators : AdapterInv(j), NEW i \in Integrators,
         NEW signer \in Users \ {ZeroAddress}, AdminFunction(i, signer)
  PROVE  Role!Next
<1> USE DEF TypeOK, IntegratorTypeOK
<1>1. \A j \in Integrators : j # i =>
        UNCHANGED <<sequence[j], admin_addr[j], pending_admin_addr[j],
                    ConfigOf(j)>>
  BY AdminFunctionKeepsAdapters
<1>2. UNCHANGED sequence
  BY DEF AdminFunction, update_admin, transfer_admin, claim_admin,
    discard_admin, add_adapter, enable_send_adapter, disable_send_adapter,
    enable_recv_adapter, disable_recv_adapter
<1>3. /\ \A j \in Integrators : Registered(j)' <=> Registered(j)
      /\ \A j \in Integrators : j # i => RoleOf(j)' = RoleOf(j)
  BY <1>1, <1>2, RoleUnchanged DEF Registered
<1>4. signer # None /\ \A u \in Users : u # None
  BY AptosAssumption
<1>5. CheckAdmin(i, signer) =>
        /\ Registered(i) /\ admin_addr[i] = signer
        /\ pending_admin_addr[i] = None
        /\ RoleOf(i) = [phase |-> "owned", admin |-> signer]
  BY <1>4, RoleCases DEF CheckAdmin
<1>6. ASSUME NEW u \in Users, update_admin(i, signer, u)
      PROVE  Role!Update(i)
  <2>1. /\ CheckAdmin(i, signer) /\ u \in Users \ {ZeroAddress}
        /\ admin_addr'[i] = u
        /\ pending_admin_addr'[i] = pending_admin_addr[i]
        /\ UNCHANGED adapterVars
    BY <1>6 DEF update_admin
  <2>2. RoleOf(i)' = Role!Owned(u)
    BY <1>3, <1>4, <1>5, <2>1, NextRoleCases DEF Role!Owned
  <2>3. Role!Become(i, Role!Owned(u))
    BY <1>3, <2>1, <2>2, RoleBecomes
  <2> QED BY <1>5, <2>1, <2>3 DEF Role!Update
<1>7. ASSUME NEW u \in Users, transfer_admin(i, signer, u)
      PROVE  Role!Transfer(i)
  <2>1. /\ CheckAdmin(i, signer) /\ u \in Users \ {ZeroAddress}
        /\ pending_admin_addr'[i] = u /\ admin_addr'[i] = admin_addr[i]
        /\ UNCHANGED adapterVars
    BY <1>7 DEF transfer_admin
  <2>2. RoleOf(i)' = Role!Transferring(signer, u)
    BY <1>3, <1>4, <1>5, <2>1, NextRoleCases DEF Role!Transferring
  <2>3. Role!Become(i, Role!Transferring(signer, u))
    BY <1>3, <2>1, <2>2, RoleBecomes
  <2> QED BY <1>5, <2>1, <2>3 DEF Role!Transfer
<1>8. ASSUME claim_admin(i, signer) PROVE Role!Claim(i)
  <2>1. /\ Registered(i) /\ admin_addr[i] # None
        /\ pending_admin_addr[i] # None
        /\ signer \in {admin_addr[i], pending_admin_addr[i]}
        /\ admin_addr'[i] = signer /\ pending_admin_addr'[i] = None
        /\ UNCHANGED adapterVars
    BY <1>8 DEF claim_admin
  <2>2. RoleOf(i)' = Role!Owned(signer)
    BY <1>3, <1>4, <2>1, NextRoleCases DEF Role!Owned
  <2>3. Role!Become(i, Role!Owned(signer))
    BY <1>3, <2>1, <2>2, RoleBecomes
  <2>4. RoleOf(i) = [phase |-> "transferring", admin |-> admin_addr[i],
                     pending |-> pending_admin_addr[i]]
    BY <2>1, RoleCases
  <2> QED BY <2>1, <2>3, <2>4 DEF Role!Claim
<1>9. ASSUME discard_admin(i, signer) PROVE Role!Discard(i)
  <2>1. /\ CheckAdmin(i, signer) /\ admin_addr'[i] = None
        /\ UNCHANGED adapterVars
    BY <1>9 DEF discard_admin
  <2>2. RoleOf(i)' = Role!Discarded
    BY <1>3, <1>5, <2>1, NextRoleCases DEF Role!Discarded
  <2>3. Role!Become(i, Role!Discarded)
    BY <1>3, <2>1, <2>2, RoleBecomes
  <2> QED BY <1>5, <2>1, <2>3 DEF Role!Discard
<1>10. ASSUME CheckAdmin(i, signer), UNCHANGED adminVars
       PROVE  Role!Configure(i)
  <2>1. RoleOf(i)' = RoleOf(i)
    BY <1>3, <1>10, RoleUnchanged DEF adminVars
  <2>2. [j \in Integrators |-> RoleOf(j)']
          = [j \in Integrators |-> RoleOf(j)]
    BY <1>3, <2>1
  <2> DEFINE settings == [j \in Integrators |-> ConfigOf(j)]
             next     == [j \in Integrators |-> ConfigOf(j)']
  <2>3. next = [settings EXCEPT ![i] = next[i]]
    BY <1>1
  <2> QED BY <1>5, <1>10, <2>2, <2>3 DEF Role!Configure
<1>11. ASSUME NEW c \in ChainIds, NEW a \in Adapters,
              \/ add_adapter(i, signer, a)
              \/ enable_send_adapter(i, signer, c, a)
              \/ disable_send_adapter(i, signer, c, a)
              \/ enable_recv_adapter(i, signer, c, a)
              \/ disable_recv_adapter(i, signer, c, a)
       PROVE  Role!Configure(i)
  BY <1>10, <1>11 DEF add_adapter, enable_send_adapter, disable_send_adapter,
    enable_recv_adapter, disable_recv_adapter
<1>12. ASSUME NEW a \in Adapters, add_adapter(i, signer, a)
       PROVE  Role!Configure(i)
  BY <1>10, <1>12 DEF add_adapter
<1> QED
  BY <1>6, <1>7, <1>8, <1>9, <1>11, <1>12 DEF AdminFunction, Role!Next

\* The admin functions implement AdminRole with locked settings: no adapter
\* function runs during a transfer and a discarded admin never comes back.
THEOREM AdminRoleRefined == Spec => ImplementsAdminRole
<1> DEFINE Ada == \A i \in Integrators : AdapterInv(i)
<1>1. Init => Role!Init
  <2> SUFFICES ASSUME Init PROVE Role!Init
    OBVIOUS
  <2>1. \A i \in Integrators : RoleOf(i) = Role!Unregistered
    BY RoleCases DEF Init, IntegratorInit, Registered, Role!Unregistered
  <2> QED BY <2>1 DEF Role!Init
<1>2. TypeOK /\ RoleInv /\ Ada /\ [Next]_vars => [Role!Next]_(Role!vars)
  <2> SUFFICES ASSUME TypeOK, RoleInv, Ada, [Next]_vars
               PROVE  [Role!Next]_(Role!vars)
    OBVIOUS
  <2> USE DEF TypeOK, IntegratorTypeOK
  <2>1. ASSUME NEW i \in Integrators, NEW u \in Users, register(i, u)
        PROVE  Role!Register(i)
    <3>1. /\ ~Registered(i) /\ sequence'[i] = 0
          /\ admin_addr'[i] = u /\ u \in Users \ {ZeroAddress}
          /\ pending_admin_addr'[i] = None
          /\ UNCHANGED adapterVars
      BY <2>1 DEF register, new_integrator, RoleInv
    <3>2. Registered(i)' /\ u # None
      BY <3>1, AptosAssumption DEF Registered
    <3>3. RoleOf(i) = Role!Unregistered
      BY <3>1, RoleCases DEF Role!Unregistered
    <3>4. RoleOf(i)' = Role!Owned(u)
      BY <3>1, <3>2, NextRoleCases DEF Role!Owned
    <3>5. \A j \in Integrators : j # i =>
            UNCHANGED <<sequence[j], admin_addr[j], pending_admin_addr[j]>>
      BY <2>1 DEF register, new_integrator
    <3>6. \A j \in Integrators : j # i => RoleOf(j)' = RoleOf(j)
      BY <3>5, RoleUnchanged DEF Registered
    <3>7. Role!Become(i, Role!Owned(u))
      BY <3>1, <3>4, <3>6, RoleBecomes
    <3> QED BY <3>1, <3>3, <3>7 DEF Role!Register
  <2>2. CASE AdminStep
    BY <2>2, AdminFunctionIsRoleStep DEF AdminStep
  <2>3. ASSUME \A i \in Integrators : Registered(i)' <=> Registered(i),
               UNCHANGED <<adminVars, adapterVars>>
        PROVE  UNCHANGED Role!vars
    <3>1. \A i \in Integrators : RoleOf(i)' = RoleOf(i)
      BY <2>3, RoleUnchanged DEF adminVars
    <3>2. \A i \in Integrators : ConfigOf(i)' = ConfigOf(i)
      BY <2>3 DEF adapterVars, ConfigOf
    <3> QED BY <3>1, <3>2 DEF Role!vars
  <2>4. ASSUME NEW i \in Integrators, NEW c \in ChainIds, send_message(i, c)
        PROVE  UNCHANGED Role!vars
    BY <2>3, <2>4, SendTakesSequence
  <2>5. CASE UNCHANGED integratorVars
    BY <2>3, <2>5 DEF integratorVars, Registered, adminVars, adapterVars
  <2> QED
    BY <2>1, <2>2, <2>4, <2>5
    DEF Next, MessageStep, pick_up_message, attest_message, recvMessage,
      execMessage, vars, integratorVars, Role!Next
<1> QED
  BY <1>1, <1>2, TypeCorrect, RoleInvariant, AdapterInvariant, PTL
  DEF Spec, ImplementsAdminRole, Role!Spec

-----------------------------------------------------------------------------
(* The outbox implements Outbox. *)

\* A function on 1 .. n is a sequence of length n.
LEMMA FunctionIsSeq ==
  ASSUME NEW S, NEW n \in Nat, NEW f \in [1 .. n -> S]
  PROVE  f \in Seq(S) /\ Len(f) = n
BY SeqDef

\* A sequence that continues another by one element.
LEMMA AppendOfPrefix ==
  ASSUME NEW S, NEW n \in Nat, NEW f \in [1 .. n -> S],
         NEW g \in [1 .. n + 1 -> S], \A m \in 1 .. n : g[m] = f[m]
  PROVE  g = Append(f, g[n + 1])
<1>1. f \in Seq(S) /\ Len(f) = n /\ g \in Seq(S) /\ Len(g) = n + 1
  BY FunctionIsSeq
<1>2. g[n + 1] \in S
  OBVIOUS
<1>3. Append(f, g[n + 1]) \in Seq(S) /\ Len(Append(f, g[n + 1])) = n + 1
  BY <1>1, <1>2
<1>4. \A m \in 1 .. n + 1 : Append(f, g[n + 1])[m] = g[m]
  BY <1>1, <1>2
<1> QED BY <1>1, <1>3, <1>4, SeqEqual

\* The sequence of an integrator counts its messages, and the table only
\* holds messages that were sent.
OutboxInv(i) ==
  /\ sent[i] = IF sequence[i] = None THEN 0 ELSE sequence[i]
  /\ sent[i] <= MaxSequence
  /\ \A n \in Sequences : outbox_messages[i][n] # None => n < sent[i]

\* What message n of integrator i still waits for.
Waiting(i, n) ==
  IF outbox_messages[i][n] = None THEN {} ELSE outbox_messages[i][n]

\* The queue of the refinement mapping, and the type of its entries.
LEMMA QueueIs ==
  ASSUME TypeOK, NEW i \in Integrators, OutboxInv(i)
  PROVE  /\ QueueOf(i) = [n \in 1 .. sent[i] |-> Waiting(i, n - 1)]
         /\ QueueOf(i) \in [1 .. sent[i] -> SUBSET Index]
         /\ Len(QueueOf(i)) = sent[i]
         /\ sent[i] \in Nat
<1>1. sent[i] \in Nat
  BY DEF TypeOK
<1>2. QueueOf(i) = [n \in 1 .. sent[i] |-> Waiting(i, n - 1)]
  BY DEF QueueOf, Waiting
<1>3. ASSUME NEW n \in 1 .. sent[i] PROVE Waiting(i, n - 1) \in SUBSET Index
  <2>1. n - 1 \in Sequences
    BY <1>1, AptosAssumption DEF OutboxInv, Sequences
  <2> QED BY <2>1 DEF TypeOK, Waiting
<1>4. QueueOf(i) \in [1 .. sent[i] -> SUBSET Index]
  BY <1>2, <1>3
<1>5. Len(QueueOf(i)) = sent[i]
  BY <1>1, <1>4, FunctionIsSeq
<1> QED BY <1>1, <1>2, <1>4, <1>5

\* send_message stores the adapters enabled for the chain under the next
\* sequence.
LEMMA SendStores ==
  ASSUME TypeOK, NEW i \in Integrators, OutboxInv(i), NEW c \in ChainIds,
         send_message(i, c)
  PROVE  /\ sent[i] = sequence[i] /\ sent[i] \in Sequences
         /\ sent'[i] = sent[i] + 1
         /\ outbox_messages'[i][sent[i]] = send_bitmap[i][c]
         /\ \A n \in Sequences : n # sent[i] =>
              outbox_messages'[i][n] = outbox_messages[i][n]
         /\ \A j \in Integrators : j # i =>
              UNCHANGED <<sequence[j], sent[j], outbox_messages[j]>>
<1>1. sequence[i] \in Nat /\ sequence[i] < MaxSequence
  BY SendTakesSequence
<1>2. sent[i] = sequence[i]
  BY <1>1, AptosAssumption DEF OutboxInv
<1>3. sent[i] \in Sequences
  BY <1>1, <1>2, AptosAssumption DEF Sequences
<1>4. /\ outbox_messages' = [outbox_messages EXCEPT ![i][sent[i]] =
                               send_bitmap[i][c]]
      /\ sent' = [sent EXCEPT ![i] = @ + 1]
  BY <1>2 DEF send_message
<1>5. \A j \in Integrators : j # i => sequence'[j] = sequence[j]
  BY SendTakesSequence DEF TypeOK, IntegratorTypeOK
<1> QED BY <1>2, <1>3, <1>4, <1>5 DEF TypeOK

\* pick_up_message clears one bit of one message.
LEMMA PickUpClears ==
  ASSUME TypeOK, NEW i \in Integrators, NEW n \in Sequences,
         NEW a \in Adapters, pick_up_message(i, n, a)
  PROVE  LET index == adapter_to_index[i][a] IN
         /\ index \in Index /\ index \in Waiting(i, n)
         /\ outbox_messages[i][n] # None
         /\ Waiting(i, n)' = Waiting(i, n) \ {index}
         /\ \A k \in Sequences : k # n =>
              outbox_messages'[i][k] = outbox_messages[i][k]
         /\ \A j \in Integrators : j # i => UNCHANGED outbox_messages[j]
         /\ UNCHANGED <<sequence, sent>>
<1> DEFINE index == adapter_to_index[i][a]
           left  == outbox_messages[i][n] \ {index}
<1>1. /\ outbox_messages[i][n] # None /\ index # None
      /\ index \in outbox_messages[i][n]
      /\ outbox_messages' = [outbox_messages EXCEPT ![i][n] =
                               RemoveIfEmpty(left)]
      /\ UNCHANGED <<sequence, sent>>
  BY DEF pick_up_message, CanDisable, disable, integratorVars
<1>2. index \in Index
  BY <1>1 DEF TypeOK, IntegratorTypeOK
<1>3. outbox_messages[i][n] \in SUBSET Index
  BY <1>1 DEF TypeOK
<1>4. left \in SUBSET Index /\ left # None
  BY <1>3, AptosNoneAssumption
<1> HIDE DEF left
<1>5. outbox_messages'[i][n] = RemoveIfEmpty(left)
  BY <1>1 DEF TypeOK
<1>6. Waiting(i, n)' = left
  BY <1>4, <1>5 DEF Waiting, RemoveIfEmpty
<1>7. /\ \A k \in Sequences : k # n =>
           outbox_messages'[i][k] = outbox_messages[i][k]
      /\ \A j \in Integrators : j # i => UNCHANGED outbox_messages[j]
  BY <1>1 DEF TypeOK
<1> QED BY <1>1, <1>2, <1>6, <1>7 DEF Waiting, left

\* Registration and the admin functions leave the outbox alone, and no
\* message is numbered by them.
LEMMA OthersLeaveOutbox ==
  ASSUME TypeOK, [Next]_vars,
         ~ \E i \in Integrators, c \in ChainIds : send_message(i, c),
         ~ \E i \in Integrators, n \in Sequences, a \in Adapters :
             pick_up_message(i, n, a)
  PROVE  /\ UNCHANGED outboxVars
         /\ \A i \in Integrators :
              \/ sequence'[i] = sequence[i]
              \/ sequence[i] = None /\ sequence'[i] = 0
<1>1. ASSUME NEW i \in Integrators, NEW u \in Users, register(i, u)
      PROVE  /\ UNCHANGED outboxVars
             /\ \A j \in Integrators :
                  \/ sequence'[j] = sequence[j]
                  \/ sequence[j] = None /\ sequence'[j] = 0
  BY <1>1 DEF register, new_integrator, Registered, TypeOK, IntegratorTypeOK
<1>2. CASE AdminStep
  <2>1. UNCHANGED sequence
    BY <1>2 DEF AdminStep, AdminFunction, update_admin, transfer_admin,
      claim_admin, discard_admin, add_adapter, enable_send_adapter,
      disable_send_adapter, enable_recv_adapter, disable_recv_adapter
  <2> QED BY <1>2, <2>1 DEF AdminStep
<1>3. CASE UNCHANGED <<sequence, outboxVars>>
  BY <1>3
<1> QED
  BY <1>1, <1>2, <1>3
  DEF Next, MessageStep, attest_message, recvMessage, execMessage, vars,
    integratorVars, outboxVars

\* OutboxInv holds in every reachable state.
LEMMA OutboxInvariant == Spec => [](\A i \in Integrators : OutboxInv(i))
<1> DEFINE Inv == \A i \in Integrators : OutboxInv(i)
<1>1. Init => Inv
  <2> SUFFICES ASSUME Init, NEW i \in Integrators PROVE OutboxInv(i)
    OBVIOUS
  <2>1. /\ sent[i] = 0 /\ sequence[i] = None
        /\ \A n \in Sequences : outbox_messages[i][n] = None
    BY DEF Init, IntegratorInit
  <2> QED BY <2>1, AptosAssumption DEF OutboxInv
<1>2. TypeOK /\ Inv /\ [Next]_vars => Inv'
  <2> SUFFICES ASSUME TypeOK, Inv, [Next]_vars, NEW j \in Integrators
               PROVE  OutboxInv(j)'
    OBVIOUS
  <2>1. ASSUME UNCHANGED <<sequence[j], sent[j], outbox_messages[j]>>
        PROVE  OutboxInv(j)'
    BY <2>1 DEF OutboxInv
  <2>2. ASSUME NEW i \in Integrators, NEW c \in ChainIds, send_message(i, c)
        PROVE  OutboxInv(j)'
    <3>1. CASE j # i
      BY <2>1, <2>2, <3>1, SendStores
    <3>2. CASE j = i
      <4>1. PICK len \in Nat :
              /\ len = sent[j] /\ len = sequence[j] /\ len < MaxSequence
              /\ sequence'[j] = len + 1
        BY <2>2, <3>2, SendStores, SendTakesSequence
      <4>2. sent'[j] = len + 1 /\ len + 1 # None /\ len + 1 <= MaxSequence
        BY <2>2, <3>2, <4>1, SendStores, AptosAssumption
      <4>3. \A n \in Sequences : n # len =>
              outbox_messages'[j][n] = outbox_messages[j][n]
        BY <2>2, <3>2, <4>1, SendStores
      <4>4. \A n \in Sequences : outbox_messages[j][n] # None => n < len
        BY <4>1 DEF OutboxInv
      <4>5. \A n \in Sequences : outbox_messages'[j][n] # None => n < len + 1
        BY <4>1, <4>3, <4>4 DEF Sequences
      <4> QED BY <4>1, <4>2, <4>5 DEF OutboxInv
    <3> QED BY <3>1, <3>2
  <2>3. ASSUME NEW i \in Integrators, NEW n \in Sequences, NEW a \in Adapters,
               pick_up_message(i, n, a)
        PROVE  OutboxInv(j)'
    <3>1. \A k \in Sequences : outbox_messages'[j][k] # None =>
                                 outbox_messages[j][k] # None
      BY <2>3, PickUpClears
    <3>2. UNCHANGED <<sequence, sent>>
      BY <2>3, PickUpClears
    <3> QED BY <3>1, <3>2 DEF OutboxInv
  <2>4. ASSUME UNCHANGED outboxVars,
               \/ sequence'[j] = sequence[j]
               \/ sequence[j] = None /\ sequence'[j] = 0
        PROVE  OutboxInv(j)'
    BY <2>4, AptosAssumption DEF outboxVars, OutboxInv
  <2> QED BY <2>2, <2>3, <2>4, OthersLeaveOutbox
<1> QED BY <1>1, <1>2, TypeCorrect, PTL DEF Spec

\* send_message appends the adapters enabled for the chain.
LEMMA SendIsSend ==
  ASSUME TypeOK, TypeOK', \A j \in Integrators : OutboxInv(j) /\ OutboxInv(j)',
         NEW i \in Integrators, NEW c \in ChainIds, send_message(i, c)
  PROVE  Out!Send(i)
<1> DEFINE enabled == send_bitmap[i][c]
           f       == QueueOf(i)
           g       == QueueOf(i)'
<1>1. PICK len \in Nat :
        /\ len = sent[i] /\ len < MaxSequence /\ len \in Sequences
        /\ sent'[i] = len + 1
  BY SendStores, SendTakesSequence
<1>2. enabled # {} /\ enabled \in SUBSET Index /\ enabled # None
  BY AptosNoneAssumption DEF send_message, TypeOK, IntegratorTypeOK
<1>3. /\ f = [n \in 1 .. len |-> Waiting(i, n - 1)]
      /\ f \in [1 .. len -> SUBSET Index] /\ Len(f) = len
  BY <1>1, QueueIs
<1>4. /\ g = [n \in 1 .. sent'[i] |-> Waiting(i, n - 1)']
      /\ \A n \in 1 .. sent'[i] : Waiting(i, n - 1)' \in SUBSET Index
  <2>1. g = [n \in 1 .. sent'[i] |-> Waiting(i, n - 1)']
    BY DEF QueueOf, Waiting
  <2>2. ASSUME NEW n \in 1 .. sent'[i]
        PROVE  Waiting(i, n - 1)' \in SUBSET Index
    <3>1. n - 1 \in Sequences
      BY <1>1, AptosAssumption DEF Sequences
    <3> QED BY <3>1 DEF TypeOK, Waiting
  <2> QED BY <2>1, <2>2
<1>5. g \in [1 .. len + 1 -> SUBSET Index]
  BY <1>1, <1>4
<1>6. \A n \in 1 .. len : g[n] = f[n]
  <2> SUFFICES ASSUME NEW n \in 1 .. len PROVE g[n] = f[n]
    OBVIOUS
  <2>1. n - 1 \in Sequences /\ n - 1 # len /\ n \in 1 .. len + 1
    BY <1>1, AptosAssumption DEF Sequences
  <2>2. outbox_messages'[i][n - 1] = outbox_messages[i][n - 1]
    BY <1>1, <2>1, SendStores
  <2>3. Waiting(i, n - 1)' = Waiting(i, n - 1)
    BY <2>2 DEF Waiting
  <2> HIDE DEF f, g
  <2> QED BY <1>1, <1>3, <1>4, <2>1, <2>3
<1>7. g[len + 1] = enabled
  <2>1. PICK n : n = len + 1
    OBVIOUS
  <2>2. n - 1 = len /\ n \in 1 .. sent'[i]
    BY <1>1, <2>1
  <2>3. outbox_messages'[i][len] = enabled
    BY <1>1, SendStores
  <2>4. Waiting(i, len)' = enabled
    BY <1>2, <2>3 DEF Waiting
  <2>5. g[n] = Waiting(i, n - 1)'
    BY <1>4, <2>2
  <2> HIDE DEF g
  <2> QED BY <2>1, <2>2, <2>4, <2>5
<1> HIDE DEF f, g
<1>8. g = Append(f, enabled)
  <2>1. f \in [1 .. len -> SUBSET Index]
    BY <1>3
  <2>2. g = Append(f, g[len + 1])
    BY <1>5, <1>6, <2>1, AppendOfPrefix
  <2> QED BY <1>7, <2>2
<1>9. \A j \in Integrators : j # i => QueueOf(j)' = QueueOf(j)
  BY SendStores DEF QueueOf
<1>10. [j \in Integrators |-> QueueOf(j)']
         = [[j \in Integrators |-> QueueOf(j)]
              EXCEPT ![i] = Append(QueueOf(i), enabled)]
  BY <1>8, <1>9 DEF f, g
<1>11. Len(QueueOf(i)) < MaxSequence
  BY <1>1, <1>3 DEF f
<1> QED BY <1>2, <1>10, <1>11 DEF Out!Send

\* pick_up_message is the adapter at the index taking the message.
LEMMA PickUpIsTake ==
  ASSUME TypeOK, \A j \in Integrators : OutboxInv(j),
         NEW i \in Integrators, NEW m \in Sequences, NEW a \in Adapters,
         pick_up_message(i, m, a)
  PROVE  Out!Next
<1>1. PICK v \in Index : v = adapter_to_index[i][a]
  BY PickUpClears
<1>2. PICK len \in Nat : len = sent[i] /\ m < len /\ len <= MaxSequence
  BY PickUpClears DEF TypeOK, OutboxInv
<1>3. PICK n \in 1 .. len : n = m + 1
  BY <1>2 DEF Sequences
<1>4. /\ QueueOf(i) = [k \in 1 .. len |-> Waiting(i, k - 1)]
      /\ Len(QueueOf(i)) = len
  BY <1>2, QueueIs
<1>5. QueueOf(i)' = [k \in 1 .. len |-> Waiting(i, k - 1)']
  <2>1. sent'[i] = len
    BY <1>2, PickUpClears
  <2> QED BY <2>1 DEF QueueOf, Waiting
<1>6. n - 1 = m
  BY <1>3 DEF Sequences
<1>7. ASSUME NEW k \in 1 .. len, k # n
      PROVE  Waiting(i, k - 1)' = Waiting(i, k - 1)
  <2>1. k - 1 \in Sequences /\ k - 1 # m
    BY <1>2, <1>6, <1>7, AptosAssumption DEF Sequences
  <2> QED BY <2>1, PickUpClears DEF Waiting
<1>8. /\ QueueOf(i)[n] = Waiting(i, m) /\ QueueOf(i)'[n] = Waiting(i, m)'
      /\ \A k \in 1 .. len : k # n => QueueOf(i)'[k] = QueueOf(i)[k]
  BY <1>4, <1>5, <1>6, <1>7
<1>9. v \in Waiting(i, m) /\ Waiting(i, m)' = Waiting(i, m) \ {v}
  BY <1>1, PickUpClears
<1>10. QueueOf(i)' = [QueueOf(i) EXCEPT ![n] = @ \ {v}]
  BY <1>4, <1>5, <1>8, <1>9
<1>11. \A j \in Integrators : j # i => QueueOf(j)' = QueueOf(j)
  BY PickUpClears DEF QueueOf
<1>12. [j \in Integrators |-> QueueOf(j)']
         = [[j \in Integrators |-> QueueOf(j)] EXCEPT ![i][n] = @ \ {v}]
  BY <1>10, <1>11
<1>13. Out!Take(i, n, v)
  BY <1>4, <1>8, <1>9, <1>12 DEF Out!Take
<1>14. n \in 1 .. MaxSequence
  BY <1>2, AptosAssumption
<1> QED BY <1>13, <1>14 DEF Out!Next

\* send_message and pick_up_message implement Outbox: messages are numbered
\* without gaps and each chosen adapter takes its message once.
THEOREM OutboxRefined == Spec => Out!Spec
<1> DEFINE Inv == \A i \in Integrators : OutboxInv(i)
           queues == [i \in Integrators |-> QueueOf(i)]
<1>1. Init => Out!Init
  <2> SUFFICES ASSUME Init, NEW i \in Integrators PROVE QueueOf(i) = <<>>
    BY DEF Out!Init
  <2>1. sent[i] = 0
    BY DEF Init
  <2>2. QueueOf(i) \in [1 .. 0 -> {}]
    <3>1. PICK zero : zero = sent[i]
      OBVIOUS
    <3>2. \A n \in 1 .. zero : FALSE
      BY <2>1, <3>1
    <3> QED BY <2>1, <3>1, <3>2 DEF QueueOf
  <2>3. QueueOf(i) \in Seq({}) /\ Len(QueueOf(i)) = 0
    BY <2>2, FunctionIsSeq
  <2> QED BY <2>3, EmptySeq
<1>2. TypeOK /\ TypeOK' /\ Inv /\ Inv' /\ [Next]_vars => [Out!Next]_queues
  <2> SUFFICES ASSUME TypeOK, TypeOK', Inv, Inv', [Next]_vars
               PROVE  Out!Next \/ UNCHANGED queues
    OBVIOUS
  <2>1. \A i \in Integrators : OutboxInv(i) /\ OutboxInv(i)'
    OBVIOUS
  <2>2. ASSUME NEW i \in Integrators, NEW c \in ChainIds, send_message(i, c)
        PROVE  Out!Next
    BY <2>1, <2>2, SendIsSend DEF Out!Next
  <2>3. ASSUME NEW i \in Integrators, NEW n \in Sequences, NEW a \in Adapters,
               pick_up_message(i, n, a)
        PROVE  Out!Next
    BY <2>1, <2>3, PickUpIsTake
  <2>4. CASE UNCHANGED outboxVars
    BY <2>4 DEF outboxVars, QueueOf
  <2> QED BY <2>2, <2>3, <2>4, OthersLeaveOutbox
<1> QED
  BY <1>1, <1>2, TypeCorrect, OutboxInvariant, PTL DEF Spec, Out!Spec

=============================================================================
