------------------------- MODULE SvmEndpointProofs -------------------------
(***************************************************************************)
(* Theorems about the SVM endpoint for every set of integrators, users,    *)
(* adapters, chains, keys and messages.  Each part of the state is only    *)
(* changed by its own instructions, so an invariant of one part is proved  *)
(* against those and carried over the other steps unchanged.               *)
(***************************************************************************)
EXTENDS SvmEndpoint, FiniteSetTheorems, SequenceTheorems, TLAPS

-----------------------------------------------------------------------------
(* Type correctness *)

\* The chain config an enable instruction starts from has its type.
LEMMA ChainConfigTyped ==
  ASSUME ConfigTypeOK, NEW i \in Integrators, NEW c \in ChainIds
  PROVE  InitializedChainConfig(i, c) \in ChainConfig
BY DEF ConfigTypeOK, InitializedChainConfig, NoChainConfig, ChainConfig

\* Every configuration instruction keeps the configuration well typed.
LEMMA ConfigTypeStep ==
  ASSUME ConfigTypeOK, NEW i \in Integrators, NEW signer \in Users,
         AdminInstruction(i, signer)
  PROVE  ConfigTypeOK'
<1> USE ConfigAssumption DEF ConfigTypeOK, check_admin, roleVars, adapterVars
<1>1. CASE \E new_admin \in Users : update_admin(i, signer, new_admin)
  BY <1>1 DEF update_admin, AdminUpdated
<1>2. CASE \E new_admin \in Users : transfer_admin(i, signer, new_admin)
  BY <1>2 DEF transfer_admin
<1>3. CASE claim_admin(i, signer)
  BY <1>3 DEF claim_admin, ClaimAdmin, AdminUpdated
<1>4. CASE discard_admin(i, signer)
  BY <1>4 DEF discard_admin
<1>5. CASE \E a \in Adapters : add_adapter(i, signer, a)
  <2>1. PICK a \in Adapters : add_adapter(i, signer, a)
    BY <1>5
  <2>2. NextIndex(i) \in Index
    BY <2>1 DEF add_adapter, HasRoom, NextIndex, Index
  <2>3. Append(adapter_infos[i], a) \in Seq(Adapters)
    OBVIOUS
  <2> QED
    BY <2>1, <2>2, <2>3 DEF add_adapter
<1>6. ASSUME NEW c \in ChainIds, NEW config \in ChainConfig,
             chain_config' = [chain_config EXCEPT ![i][c] = config],
             UNCHANGED <<roleVars, adapterVars>>
      PROVE  ConfigTypeOK'
  <2>1. chain_config' \in [Integrators -> [ChainIds -> ChainConfig]]
    BY <1>6
  <2> QED
    BY <1>6, <2>1
<1>7. CASE \E c \in ChainIds, a \in Adapters :
             enable_recv_adapter(i, signer, c, a)
  <2>1. PICK c \in ChainIds, a \in Adapters :
               enable_recv_adapter(i, signer, c, a)
    BY <1>7
  <2>2. AdapterIndex(i, a) \in Index
    <3>1. AdapterIndex(i, a) # None
      BY <2>1 DEF enable_recv_adapter, EnableAdapter
    <3> QED
      BY <3>1 DEF AdapterIndex
  <2> DEFINE config == InitializedChainConfig(i, c)
             updated == [config EXCEPT !.recv_adapter_bitmap =
                           BitmapSet(@, AdapterIndex(i, a), TRUE)]
  <2>3. config \in ChainConfig
    BY ChainConfigTyped
  <2>4. updated \in ChainConfig
    BY <2>2, <2>3 DEF ChainConfig, BitmapSet
  <2>5. /\ chain_config' = [chain_config EXCEPT ![i][c] = updated]
        /\ UNCHANGED <<roleVars, adapterVars>>
    BY <2>1 DEF enable_recv_adapter
  <2> QED
    BY <1>6, <2>4, <2>5
<1>8. CASE \E c \in ChainIds, a \in Adapters :
             enable_send_adapter(i, signer, c, a)
  <2>1. PICK c \in ChainIds, a \in Adapters :
               enable_send_adapter(i, signer, c, a)
    BY <1>8
  <2>2. AdapterIndex(i, a) \in Index
    <3>1. AdapterIndex(i, a) # None
      BY <2>1 DEF enable_send_adapter, EnableAdapter
    <3> QED
      BY <3>1 DEF AdapterIndex
  <2> DEFINE config == InitializedChainConfig(i, c)
             updated == [config EXCEPT !.send_adapter_bitmap =
                           BitmapSet(@, AdapterIndex(i, a), TRUE)]
  <2>3. config \in ChainConfig
    BY ChainConfigTyped
  <2>4. updated \in ChainConfig
    BY <2>2, <2>3 DEF ChainConfig, BitmapSet
  <2>5. /\ chain_config' = [chain_config EXCEPT ![i][c] = updated]
        /\ UNCHANGED <<roleVars, adapterVars>>
    BY <2>1 DEF enable_send_adapter
  <2> QED
    BY <1>6, <2>4, <2>5
<1>9. CASE \E c \in ChainIds, a \in Adapters :
             disable_recv_adapter(i, signer, c, a)
  <2>1. PICK c \in ChainIds, a \in Adapters :
               disable_recv_adapter(i, signer, c, a)
    BY <1>9
  <2> DEFINE updated == [chain_config[i][c] EXCEPT !.recv_adapter_bitmap =
                           BitmapSet(@, AdapterIndex(i, a), FALSE)]
  <2>2. updated \in ChainConfig
    <3>1. chain_config[i][c] \in ChainConfig
      OBVIOUS
    <3> QED
      BY <3>1 DEF ChainConfig, BitmapSet
  <2>3. /\ chain_config' = [chain_config EXCEPT ![i][c] = updated]
        /\ UNCHANGED <<roleVars, adapterVars>>
    BY <2>1 DEF disable_recv_adapter
  <2> QED
    BY <1>6, <2>2, <2>3
<1>10. CASE \E c \in ChainIds, a \in Adapters :
              disable_send_adapter(i, signer, c, a)
  <2>1. PICK c \in ChainIds, a \in Adapters :
               disable_send_adapter(i, signer, c, a)
    BY <1>10
  <2> DEFINE updated == [chain_config[i][c] EXCEPT !.send_adapter_bitmap =
                           BitmapSet(@, AdapterIndex(i, a), FALSE)]
  <2>2. updated \in ChainConfig
    <3>1. chain_config[i][c] \in ChainConfig
      OBVIOUS
    <3> QED
      BY <3>1 DEF ChainConfig, BitmapSet
  <2>3. /\ chain_config' = [chain_config EXCEPT ![i][c] = updated]
        /\ UNCHANGED <<roleVars, adapterVars>>
    BY <2>1 DEF disable_send_adapter
  <2> QED
    BY <1>6, <2>2, <2>3
<1> QED
  BY <1>1, <1>2, <1>3, <1>4, <1>5, <1>7, <1>8, <1>9, <1>10
  DEF AdminInstruction

\* send_message and pick_up_message keep the outbox well typed.
LEMMA OutboxTypeStep ==
  ASSUME ConfigTypeOK, OutboxTypeOK,
         \/ \E i \in Integrators, k \in OutboxKeys, c \in ChainIds :
              send_message(i, k, c)
         \/ \E k \in OutboxKeys, a \in Adapters : pick_up_message(k, a)
  PROVE  OutboxTypeOK'
<1> USE OutboxAssumption DEF OutboxTypeOK
<1>1. ASSUME NEW i \in Integrators, NEW k \in OutboxKeys, NEW c \in ChainIds,
             send_message(i, k, c)
      PROVE  OutboxTypeOK'
  <2>1. sequence_tracker[i] \in Nat /\ sequence_tracker'[i] \in Nat
    BY <1>1 DEF send_message, next_sequence
  <2>2. sequence_tracker' \in [Integrators -> Nat \cup {None}]
    BY <1>1, <2>1 DEF send_message, next_sequence
  <2>3. chain_config[i][c].send_adapter_bitmap \in SUBSET Index
    BY DEF ConfigTypeOK, ChainConfig
  <2> QED
    BY <1>1, <2>1, <2>2, <2>3
    DEF send_message, OutboxMessage, SentMessage
<1>2. ASSUME NEW k \in OutboxKeys, NEW a \in Adapters, pick_up_message(k, a)
      PROVE  OutboxTypeOK'
  <2>1. outbox_message[k] \in OutboxMessage
    BY <1>2 DEF pick_up_message
  <2> DEFINE index == AdapterIndex(outbox_message[k].src_addr, a)
             rest  == [outbox_message[k] EXCEPT !.outstanding_adapters =
                         BitmapSet(@, index, FALSE)]
  <2>2. rest \in OutboxMessage
    BY <2>1 DEF OutboxMessage, BitmapSet
  <2>3. CloseIfEmpty(rest) \in OutboxMessage \cup {None}
    BY <2>2 DEF CloseIfEmpty
  <2>4. [src_addr |-> outbox_message[k].src_addr,
         sequence |-> outbox_message[k].sequence, adapter |-> a] \in PickUp
    BY <2>1 DEF OutboxMessage, PickUp
  <2> QED
    BY <1>2, <2>3, <2>4 DEF pick_up_message
<1> QED
  BY <1>1, <1>2

\* attest_message, recv_message and exec_message keep the inbox well typed.
LEMMA InboxTypeStep ==
  ASSUME ConfigTypeOK, InboxTypeOK,
         \/ \E m \in Messages, a \in Adapters : attest_message(m, a)
         \/ \E m \in Messages : recv_message(m)
         \/ \E m \in Messages : exec_message(m)
  PROVE  InboxTypeOK'
<1> USE InboxAssumption DEF InboxTypeOK
<1>1. \A m \in Messages : InitializedAttestationInfo(m) \in AttestationInfo
  BY DEF InitializedAttestationInfo, NewAttestationInfo, AttestationInfo
<1>2. \A m \in Messages, how \in {"recv", "exec"} :
        Append(deliveries[m], how) \in Seq({"recv", "exec"})
  OBVIOUS
<1>3. ASSUME NEW m \in Messages, NEW a \in Adapters, attest_message(m, a)
      PROVE  InboxTypeOK'
  <2>1. AdapterIndex(m.dst_addr, a) \in Index
    <3>1. AdapterIndex(m.dst_addr, a) # None
      BY <1>3 DEF attest_message
    <3>2. m.dst_addr \in Integrators
      OBVIOUS
    <3> QED
      BY <3>1, <3>2 DEF ConfigTypeOK, AdapterIndex
  <2> DEFINE updated == [InitializedAttestationInfo(m) EXCEPT
                           !.attested_adapters =
                              BitmapSet(@, AdapterIndex(m.dst_addr, a), TRUE)]
  <2>2. updated \in AttestationInfo
    BY <1>1, <2>1 DEF AttestationInfo, BitmapSet
  <2>3. attestation_info' = [attestation_info EXCEPT ![m] = updated]
    BY <1>3 DEF attest_message
  <2> QED
    BY <1>3, <2>2, <2>3 DEF attest_message
<1>4. ASSUME NEW m \in Messages, recv_message(m)
      PROVE  InboxTypeOK'
  <2> DEFINE config == chain_config[m.dst_addr][m.src_chain]
  <2>1. config \in ChainConfig
    BY DEF ConfigTypeOK
  <2>2. /\ config.recv_adapter_bitmap \in SUBSET Index
        /\ attestation_info[m].attested_adapters \in SUBSET Index
    BY <2>1 DEF ChainConfig, AttestationInfo
  <2>3. attestation_info' \in [Messages -> AttestationInfo]
    <3> DEFINE updated == [attestation_info[m] EXCEPT !.executed = TRUE]
    <3>1. updated \in AttestationInfo
      BY DEF AttestationInfo
    <3>2. attestation_info' = [attestation_info EXCEPT ![m] = updated]
      BY <1>4 DEF recv_message
    <3> QED
      BY <3>1, <3>2
  <2>4. message_received' \in [message : Messages \cup {None},
                               enabled_bitmap : SUBSET Index,
                               attested_bitmap : SUBSET Index]
    BY <1>4, <2>2 DEF recv_message
  <2> QED
    BY <1>2, <1>4, <2>3, <2>4 DEF recv_message
<1>5. ASSUME NEW m \in Messages, exec_message(m)
      PROVE  InboxTypeOK'
  <2> DEFINE updated ==
               [InitializedAttestationInfo(m) EXCEPT !.executed = TRUE]
  <2>1. updated \in AttestationInfo
    BY <1>1 DEF AttestationInfo
  <2>2. attestation_info' = [attestation_info EXCEPT ![m] = updated]
    BY <1>5 DEF exec_message
  <2> QED
    BY <1>2, <1>5, <2>1, <2>2 DEF exec_message
<1> QED
  BY <1>3, <1>4, <1>5

\* The accounts and events of the SVM endpoint always hold values of their
\* declared types; in particular every adapter index fits a bitmap.
THEOREM TypeCorrect == Spec => []TypeOK
<1>1. Init => TypeOK
  BY ConfigAssumption, OutboxAssumption, InboxAssumption
  DEF Init, TypeOK, ConfigInit, ConfigTypeOK, OutboxInit, OutboxTypeOK,
      InboxInit, InboxTypeOK, AdminUpdated, NoChainConfig, ChainConfig,
      NoAttestationInfo, AttestationInfo
<1>2. TypeOK /\ [Next]_vars => TypeOK'
  <2> SUFFICES ASSUME TypeOK, [Next]_vars PROVE TypeOK'
    OBVIOUS
  <2> USE DEF TypeOK
  <2>1. ASSUME NEW i \in Integrators, NEW u \in Users, register(i, u)
        PROVE  TypeOK'
    <3>1. ConfigTypeOK'
      BY <2>1 DEF register, RegisterConfig, ConfigTypeOK
    <3>2. OutboxTypeOK'
      BY <2>1 DEF register, RegisterTracker, OutboxTypeOK
    <3>3. InboxTypeOK'
      BY <2>1 DEF register, inboxVars, InboxTypeOK
    <3> QED BY <3>1, <3>2, <3>3
  <2>2. CASE ConfigStep
    <3>1. ConfigTypeOK'
      BY <2>2, ConfigTypeStep DEF ConfigStep
    <3>2. OutboxTypeOK' /\ InboxTypeOK'
      BY <2>2 DEF ConfigStep, outboxVars, inboxVars, OutboxTypeOK, InboxTypeOK
    <3> QED BY <3>1, <3>2
  <2>3. CASE OutboxStep
    <3>1. OutboxTypeOK'
      BY <2>3, OutboxTypeStep DEF OutboxStep
    <3>2. ConfigTypeOK' /\ InboxTypeOK'
      BY <2>3 DEF OutboxStep, configVars, inboxVars, ConfigTypeOK, InboxTypeOK
    <3> QED BY <3>1, <3>2
  <2>4. CASE InboxStep
    <3>1. InboxTypeOK'
      BY <2>4, InboxTypeStep DEF InboxStep
    <3>2. ConfigTypeOK' /\ OutboxTypeOK'
      BY <2>4 DEF InboxStep, configVars, outboxVars, ConfigTypeOK, OutboxTypeOK
    <3> QED BY <3>1, <3>2
  <2>5. CASE UNCHANGED vars
    BY <2>5 DEF vars, ConfigTypeOK, OutboxTypeOK, InboxTypeOK
  <2> QED
    BY <2>1, <2>2, <2>3, <2>4, <2>5 DEF Next
<1> QED
  BY <1>1, <1>2, PTL DEF Spec

-----------------------------------------------------------------------------
(* The inbox.  The three inbox invariants carry each other: an account is
   new exactly when it reads source chain zero (InitSentinelSound), a new one
   was neither executed nor attested to (ReceivedWasAttested), so creating it
   forgets no delivery (DeliveredOnce). *)

\* The three invariants for one message, without its MessageReceived event.
InboxInv(m) ==
  /\ attestation_info[m].exists <=> attestation_info[m].src_chain # 0
  /\ attestation_info[m].exists => attestation_info[m].src_chain = m.src_chain
  /\ attestation_info[m].exists <=>
       \/ attestation_info[m].executed
       \/ attestation_info[m].attested_adapters # {}
  /\ attestation_info[m].attested_adapters # {} => m.dst_chain = CHAIN_ID
  /\ Len(deliveries[m]) <= 1
  /\ attestation_info[m].executed <=> deliveries[m] # <<>>

\* An attestation keeps the invariant of its message: it creates the account
\* only when there was none.
LEMMA AttestKeepsInboxInv ==
  ASSUME InboxTypeOK, NEW m \in Messages, NEW a \in Adapters,
         attest_message(m, a), InboxInv(m)
  PROVE  InboxInv(m)'
<1> DEFINE info    == InitializedAttestationInfo(m)
           index   == AdapterIndex(m.dst_addr, a)
           updated == [info EXCEPT !.attested_adapters =
                         BitmapSet(@, index, TRUE)]
<1>1. attestation_info[m] \in AttestationInfo
  BY DEF InboxTypeOK
<1>2. /\ info.exists = TRUE
      /\ info.src_chain = m.src_chain
      /\ m.src_chain # 0
      /\ info.executed = attestation_info[m].executed
  <2>1. CASE attestation_info[m].src_chain = 0
    BY <1>1, <2>1 DEF attest_message, InitGuard, NewIsValid, InboxInv,
      InitializedAttestationInfo, NewAttestationInfo, AttestationInfo
  <2>2. CASE attestation_info[m].src_chain # 0
    BY <1>1, <2>2 DEF InboxInv, InitializedAttestationInfo, AttestationInfo
  <2> QED BY <2>1, <2>2
<1>3. info \in AttestationInfo
  BY <1>1, InboxAssumption
  DEF InitializedAttestationInfo, NewAttestationInfo, AttestationInfo
<1>4. /\ updated.exists = TRUE
      /\ updated.src_chain = m.src_chain
      /\ updated.executed = attestation_info[m].executed
      /\ updated.attested_adapters # {}
  BY <1>2, <1>3 DEF AttestationInfo, BitmapSet
<1>5. attestation_info'[m] = updated /\ UNCHANGED deliveries
      /\ m.dst_chain = CHAIN_ID
  BY DEF attest_message, InboxTypeOK
<1> QED
  BY <1>2, <1>4, <1>5 DEF InboxInv

\* A receive keeps the invariant of its message: the account it marks as
\* executed exists, so it was attested to.
LEMMA RecvKeepsInboxInv ==
  ASSUME InboxTypeOK, NEW m \in Messages, recv_message(m), InboxInv(m)
  PROVE  InboxInv(m)'
<1>1. attestation_info[m] \in AttestationInfo
  BY DEF InboxTypeOK
<1>2. /\ attestation_info[m].exists
      /\ ~attestation_info[m].executed
  BY DEF recv_message, AttestationInfoExists, NotExecuted
<1>3. deliveries[m] = <<>>
  BY <1>2 DEF InboxInv
<1>4. deliveries'[m] = <<"recv">>
  BY <1>3 DEF recv_message, InboxTypeOK
<1>5. attestation_info'[m] = [attestation_info[m] EXCEPT !.executed = TRUE]
  BY DEF recv_message, InboxTypeOK
<1>6. /\ attestation_info'[m].exists = attestation_info[m].exists
      /\ attestation_info'[m].src_chain = attestation_info[m].src_chain
      /\ attestation_info'[m].executed = TRUE
      /\ attestation_info'[m].attested_adapters =
           attestation_info[m].attested_adapters
  BY <1>1, <1>5 DEF AttestationInfo
<1> QED
  BY <1>2, <1>4, <1>6 DEF InboxInv

\* A forced execution keeps the invariant of its message.
LEMMA ExecKeepsInboxInv ==
  ASSUME InboxTypeOK, NEW m \in Messages, exec_message(m), InboxInv(m)
  PROVE  InboxInv(m)'
<1> DEFINE info    == InitializedAttestationInfo(m)
           updated == [info EXCEPT !.executed = TRUE]
<1>1. attestation_info[m] \in AttestationInfo
  BY DEF InboxTypeOK
<1>2. /\ info.exists = TRUE
      /\ info.src_chain = m.src_chain
      /\ m.src_chain # 0
      /\ info.attested_adapters = attestation_info[m].attested_adapters
  <2>1. CASE attestation_info[m].src_chain = 0
    BY <1>1, <2>1 DEF exec_message, InitGuard, NewIsValid, InboxInv,
      InitializedAttestationInfo, NewAttestationInfo, AttestationInfo
  <2>2. CASE attestation_info[m].src_chain # 0
    BY <1>1, <2>2 DEF InboxInv, InitializedAttestationInfo, AttestationInfo
  <2> QED BY <2>1, <2>2
<1>3. info \in AttestationInfo
  BY <1>1, InboxAssumption
  DEF InitializedAttestationInfo, NewAttestationInfo, AttestationInfo
<1>4. /\ updated.exists = TRUE
      /\ updated.src_chain = m.src_chain
      /\ updated.executed = TRUE
      /\ updated.attested_adapters = attestation_info[m].attested_adapters
  BY <1>2, <1>3 DEF AttestationInfo
<1>5. deliveries[m] = <<>>
  BY DEF exec_message, NotExecuted, InboxInv
<1>6. deliveries'[m] = <<"exec">>
  BY <1>5 DEF exec_message, InboxTypeOK
<1>7. attestation_info'[m] = updated
  BY DEF exec_message, InboxTypeOK
<1> QED
  BY <1>2, <1>4, <1>6, <1>7 DEF InboxInv

\* The chain config half of InitSentinelSound: every configuration instruction
\* leaves zero as the mark of an absent account.
ChainSentinel ==
  \A i \in Integrators, c \in ChainIds :
    /\ chain_config[i][c].exists <=> chain_config[i][c].chain_id # 0
    /\ chain_config[i][c].exists => chain_config[i][c].chain_id = c

\* The configuration instructions keep ChainSentinel.
LEMMA ConfigKeepsSentinel ==
  ASSUME ConfigTypeOK, ChainSentinel, NEW i \in Integrators,
         NEW signer \in Users, AdminInstruction(i, signer)
  PROVE  ChainSentinel'
<1>1. ASSUME NEW c \in ChainIds, NEW config \in ChainConfig, c # 0,
             config.exists, config.chain_id = c,
             chain_config' = [chain_config EXCEPT ![i][c] = config]
      PROVE  ChainSentinel'
  BY <1>1 DEF ConfigTypeOK, ChainSentinel
<1>2. ASSUME NEW c \in ChainIds, c # 0
      PROVE  /\ InitializedChainConfig(i, c) \in ChainConfig
             /\ InitializedChainConfig(i, c).exists = TRUE
             /\ InitializedChainConfig(i, c).chain_id = c
  <2>1. CASE chain_config[i][c].chain_id = 0
    BY <1>2, <2>1, ChainConfigTyped DEF InitializedChainConfig
  <2>2. CASE chain_config[i][c].chain_id # 0
    BY <1>2, <2>2, ChainConfigTyped
    DEF InitializedChainConfig, ChainSentinel, ConfigTypeOK, ChainConfig
  <2> QED BY <2>1, <2>2
<1>3. ASSUME NEW c \in ChainIds, NEW a \in Adapters,
             enable_recv_adapter(i, signer, c, a)
      PROVE  ChainSentinel'
  <2> DEFINE index   == AdapterIndex(i, a)
             config  == InitializedChainConfig(i, c)
             updated == [config EXCEPT !.recv_adapter_bitmap =
                           BitmapSet(@, index, TRUE)]
  <2>1. c # 0 /\ index \in Index
    <3>1. c # 0 /\ index # None
      BY <1>3 DEF enable_recv_adapter, EnableAdapter
    <3> QED BY <3>1 DEF ConfigTypeOK, AdapterIndex
  <2>2. updated \in ChainConfig /\ updated.exists /\ updated.chain_id = c
    BY <1>2, <2>1 DEF ChainConfig, BitmapSet
  <2>3. chain_config' = [chain_config EXCEPT ![i][c] = updated]
    BY <1>3 DEF enable_recv_adapter
  <2> QED BY <1>1, <2>1, <2>2, <2>3
<1>4. ASSUME NEW c \in ChainIds, NEW a \in Adapters,
             enable_send_adapter(i, signer, c, a)
      PROVE  ChainSentinel'
  <2> DEFINE index   == AdapterIndex(i, a)
             config  == InitializedChainConfig(i, c)
             updated == [config EXCEPT !.send_adapter_bitmap =
                           BitmapSet(@, index, TRUE)]
  <2>1. c # 0 /\ index \in Index
    <3>1. c # 0 /\ index # None
      BY <1>4 DEF enable_send_adapter, EnableAdapter
    <3> QED BY <3>1 DEF ConfigTypeOK, AdapterIndex
  <2>2. updated \in ChainConfig /\ updated.exists /\ updated.chain_id = c
    BY <1>2, <2>1 DEF ChainConfig, BitmapSet
  <2>3. chain_config' = [chain_config EXCEPT ![i][c] = updated]
    BY <1>4 DEF enable_send_adapter
  <2> QED BY <1>1, <2>1, <2>2, <2>3
<1>5. ASSUME NEW c \in ChainIds, chain_config[i][c].exists
      PROVE  /\ chain_config[i][c] \in ChainConfig
             /\ chain_config[i][c].chain_id = c
             /\ c # 0
  BY <1>5 DEF ConfigTypeOK, ChainSentinel
<1>6. ASSUME NEW c \in ChainIds, NEW a \in Adapters,
             disable_recv_adapter(i, signer, c, a)
      PROVE  ChainSentinel'
  <2> DEFINE updated == [chain_config[i][c] EXCEPT !.recv_adapter_bitmap =
                           BitmapSet(@, AdapterIndex(i, a), FALSE)]
  <2>1. chain_config[i][c].exists
    BY <1>6 DEF disable_recv_adapter, DisableAdapter
  <2>2. updated \in ChainConfig /\ updated.exists /\ updated.chain_id = c
    BY <1>5, <2>1 DEF ChainConfig, BitmapSet
  <2>3. chain_config' = [chain_config EXCEPT ![i][c] = updated]
    BY <1>6 DEF disable_recv_adapter
  <2> QED BY <1>1, <1>5, <2>1, <2>2, <2>3
<1>7. ASSUME NEW c \in ChainIds, NEW a \in Adapters,
             disable_send_adapter(i, signer, c, a)
      PROVE  ChainSentinel'
  <2> DEFINE updated == [chain_config[i][c] EXCEPT !.send_adapter_bitmap =
                           BitmapSet(@, AdapterIndex(i, a), FALSE)]
  <2>1. chain_config[i][c].exists
    BY <1>7 DEF disable_send_adapter, DisableAdapter
  <2>2. updated \in ChainConfig /\ updated.exists /\ updated.chain_id = c
    BY <1>5, <2>1 DEF ChainConfig, BitmapSet
  <2>3. chain_config' = [chain_config EXCEPT ![i][c] = updated]
    BY <1>7 DEF disable_send_adapter
  <2> QED BY <1>1, <1>5, <2>1, <2>2, <2>3
<1>8. ASSUME UNCHANGED chain_config
      PROVE  ChainSentinel'
  BY <1>8 DEF ChainSentinel
<1> QED
  BY <1>3, <1>4, <1>6, <1>7, <1>8 DEF AdminInstruction, update_admin,
    transfer_admin, claim_admin, discard_admin, add_adapter

\* The MessageReceived half of ReceivedWasAttested.
EventBacked ==
  message_received.message # None =>
    /\ message_received.attested_bitmap # {}
    /\ message_received.message.dst_chain = CHAIN_ID

\* The inductive invariant of the inbox.
InboxSafe ==
  /\ ChainSentinel
  /\ \A m \in Messages : InboxInv(m)
  /\ EventBacked

\* It is exactly the three invariants the runs check.
LEMMA InboxSafeSplits ==
  InboxSafe <=> InitSentinelSound /\ DeliveredOnce /\ ReceivedWasAttested
BY DEF InboxSafe, ChainSentinel, InboxInv, EventBacked, InitSentinelSound,
       DeliveredOnce, ReceivedWasAttested

\* A message instruction keeps the inductive invariant: it changes only the
\* account of its own message, and a receive reports what it found there.
LEMMA InboxKeepsInboxSafe ==
  ASSUME TypeOK, InboxSafe, InboxStep
  PROVE  InboxSafe'
<1>1. ChainSentinel'
  BY DEF InboxStep, configVars, InboxSafe, ChainSentinel
<1>2. ASSUME NEW m \in Messages, NEW a \in Adapters, attest_message(m, a)
      PROVE  (\A n \in Messages : InboxInv(n))' /\ EventBacked'
  <2>1. InboxInv(m)'
    BY <1>2, AttestKeepsInboxInv DEF TypeOK, InboxSafe
  <2>2. ASSUME NEW n \in Messages, n # m PROVE InboxInv(n)'
    BY <1>2, <2>2 DEF attest_message, InboxSafe, InboxInv, TypeOK, InboxTypeOK
  <2>3. EventBacked'
    BY <1>2 DEF attest_message, InboxSafe, EventBacked
  <2> QED BY <2>1, <2>2, <2>3
<1>3. ASSUME NEW m \in Messages, recv_message(m)
      PROVE  (\A n \in Messages : InboxInv(n))' /\ EventBacked'
  <2>1. InboxInv(m)'
    BY <1>3, RecvKeepsInboxInv DEF TypeOK, InboxSafe
  <2>2. ASSUME NEW n \in Messages, n # m PROVE InboxInv(n)'
    BY <1>3, <2>2 DEF recv_message, InboxSafe, InboxInv, TypeOK, InboxTypeOK
  <2>3. attestation_info[m].exists /\ ~attestation_info[m].executed
    BY <1>3 DEF recv_message, AttestationInfoExists, NotExecuted
  <2>4. attestation_info[m].attested_adapters # {} /\ m.dst_chain = CHAIN_ID
    BY <2>3 DEF InboxSafe, InboxInv
  <2>5. EventBacked'
    BY <1>3, <2>4 DEF recv_message, EventBacked
  <2> QED BY <2>1, <2>2, <2>5
<1>4. ASSUME NEW m \in Messages, exec_message(m)
      PROVE  (\A n \in Messages : InboxInv(n))' /\ EventBacked'
  <2>1. InboxInv(m)'
    BY <1>4, ExecKeepsInboxInv DEF TypeOK, InboxSafe
  <2>2. ASSUME NEW n \in Messages, n # m PROVE InboxInv(n)'
    BY <1>4, <2>2 DEF exec_message, InboxSafe, InboxInv, TypeOK, InboxTypeOK
  <2>3. EventBacked'
    BY <1>4 DEF exec_message, InboxSafe, EventBacked
  <2> QED BY <2>1, <2>2, <2>3
<1> QED
  BY <1>1, <1>2, <1>3, <1>4 DEF InboxStep, InboxSafe

\* The inductive invariant holds in every reachable state.
LEMMA InboxSafeInvariant == Spec => []InboxSafe
<1>1. Init => InboxSafe
  BY ConfigAssumption DEF Init, ConfigInit, InboxInit, NoChainConfig,
    NoAttestationInfo, InboxSafe, ChainSentinel, InboxInv, EventBacked
<1>2. TypeOK /\ InboxSafe /\ [Next]_vars => InboxSafe'
  <2> SUFFICES ASSUME TypeOK, InboxSafe, [Next]_vars PROVE InboxSafe'
    OBVIOUS
  <2>1. CASE InboxStep
    BY <2>1, InboxKeepsInboxSafe
  <2>2. CASE ConfigStep
    <3>1. ChainSentinel'
      BY <2>2, ConfigKeepsSentinel DEF ConfigStep, TypeOK, InboxSafe
    <3> QED
      BY <2>2, <3>1
      DEF ConfigStep, inboxVars, InboxSafe, InboxInv, EventBacked
  <2>3. ASSUME UNCHANGED <<chain_config, inboxVars>>
        PROVE  InboxSafe'
    BY <2>3 DEF inboxVars, InboxSafe, ChainSentinel, InboxInv, EventBacked
  <2>4. CASE OutboxStep
    BY <2>3, <2>4 DEF OutboxStep, configVars
  <2>5. CASE \E i \in Integrators, u \in Users : register(i, u)
    BY <2>3, <2>5 DEF register, RegisterConfig
  <2>6. CASE UNCHANGED vars
    BY <2>3, <2>6 DEF vars, inboxVars
  <2> QED
    BY <2>1, <2>2, <2>4, <2>5, <2>6 DEF Next
<1> QED
  BY <1>1, <1>2, TypeCorrect, PTL DEF Spec

\* Zero stays the mark of an account that does not exist, so init_if_needed
\* never wipes one that does.
THEOREM SentinelIsSound == Spec => []InitSentinelSound
BY InboxSafeInvariant, InboxSafeSplits, PTL

\* Replay protection: no message is ever delivered twice, by any mixture of
\* recv_message and exec_message.
THEOREM NoReplay == Spec => []DeliveredOnce
BY InboxSafeInvariant, InboxSafeSplits, PTL

\* What recv_message reports was attested to, and is for this chain.
THEOREM ReceivedIsAttested == Spec => []ReceivedWasAttested
BY InboxSafeInvariant, InboxSafeSplits, PTL

-----------------------------------------------------------------------------
(* The message instructions implement Delivery. *)

\* The votes of Delivery, under the refinement mapping.
Votes == [m \in Messages |-> attestation_info[m].attested_adapters]

\* init_if_needed forgets nothing: an account that reads as new was neither
\* executed nor attested to.
LEMMA InitKeepsAttestations ==
  ASSUME TypeOK, InboxSafe, NEW m \in Messages
  PROVE  /\ InitializedAttestationInfo(m) \in AttestationInfo
         /\ InitializedAttestationInfo(m).executed =
              attestation_info[m].executed
         /\ InitializedAttestationInfo(m).attested_adapters =
              attestation_info[m].attested_adapters
<1>1. attestation_info[m] \in AttestationInfo
  BY DEF TypeOK, InboxTypeOK
<1> QED
  BY <1>1, InboxAssumption DEF InitializedAttestationInfo, NewAttestationInfo,
    AttestationInfo, InboxSafe, InboxInv

\* attest_message is a vote of the adapter's index.
LEMMA AttestIsAttest ==
  ASSUME TypeOK, InboxSafe, NEW m \in Messages, NEW a \in Adapters,
         attest_message(m, a)
  PROVE  \E v \in Index : Inbox!Attest(m, v)
<1> DEFINE info  == InitializedAttestationInfo(m)
           index == AdapterIndex(m.dst_addr, a)
<1>1. index \in Index
  <2>1. index # None /\ m.dst_addr \in Integrators
    BY InboxAssumption DEF attest_message
  <2> QED BY <2>1 DEF TypeOK, ConfigTypeOK, AdapterIndex
<1>2. info \in AttestationInfo
      /\ info.attested_adapters = attestation_info[m].attested_adapters
  BY InitKeepsAttestations
<1>3. index \notin attestation_info[m].attested_adapters
  BY <1>2 DEF attest_message, BitmapGet
<1>4. attestation_info' = [attestation_info EXCEPT ![m] =
        [info EXCEPT !.attested_adapters = BitmapSet(@, index, TRUE)]]
  BY DEF attest_message
<1>5. Votes' = [Votes EXCEPT ![m] = @ \cup {index}]
  BY <1>2, <1>4
  DEF Votes, TypeOK, InboxTypeOK, AttestationInfo, BitmapSet
<1>6. UNCHANGED deliveries
  BY DEF attest_message
<1> QED
  BY <1>1, <1>3, <1>5, <1>6 DEF Inbox!Attest, Votes

\* recv_message is a receive: the account it finds was attested to.
LEMMA RecvIsReceive ==
  ASSUME TypeOK, InboxSafe, NEW m \in Messages, recv_message(m)
  PROVE  Inbox!Receive(m)
<1>1. attestation_info[m].exists /\ ~attestation_info[m].executed
  BY DEF recv_message, AttestationInfoExists, NotExecuted
<1>2. attestation_info[m].attested_adapters # {} /\ deliveries[m] = <<>>
  BY <1>1 DEF InboxSafe, InboxInv
<1>3. Votes' = Votes
  BY DEF recv_message, Votes, TypeOK, InboxTypeOK, AttestationInfo
<1>4. deliveries' = [deliveries EXCEPT ![m] = <<"recv">>]
  BY <1>2 DEF recv_message, TypeOK, InboxTypeOK
<1> QED
  BY <1>2, <1>3, <1>4 DEF Inbox!Receive, Votes

\* exec_message is a forced execution: it leaves the votes alone even when it
\* creates the account.
LEMMA ExecIsExecute ==
  ASSUME TypeOK, InboxSafe, NEW m \in Messages, exec_message(m)
  PROVE  Inbox!Execute(m)
<1> DEFINE info == InitializedAttestationInfo(m)
<1>1. deliveries[m] = <<>>
  BY DEF exec_message, NotExecuted, InboxSafe, InboxInv
<1>2. info \in AttestationInfo
      /\ info.attested_adapters = attestation_info[m].attested_adapters
  BY InitKeepsAttestations
<1>3. attestation_info' = [attestation_info EXCEPT ![m] =
                             [info EXCEPT !.executed = TRUE]]
  BY DEF exec_message
<1>4. Votes' = Votes
  BY <1>2, <1>3 DEF Votes, TypeOK, InboxTypeOK, AttestationInfo
<1>5. deliveries' = [deliveries EXCEPT ![m] = <<"exec">>]
  BY <1>1 DEF exec_message, TypeOK, InboxTypeOK
<1> QED
  BY <1>1, <1>4, <1>5 DEF Inbox!Execute, Votes

\* The SVM inbox implements Delivery: attestations accumulate and survive
\* delivery, a message is delivered at most once, and a receive needs a vote.
THEOREM DeliveryRefined == Spec => ImplementsDelivery
<1>1. Init => Inbox!Init
  BY DEF Init, InboxInit, NoAttestationInfo, Inbox!Init
<1>2. TypeOK /\ InboxSafe /\ [Next]_vars => [Inbox!Next]_(Inbox!vars)
  <2> SUFFICES ASSUME TypeOK, InboxSafe, [Next]_vars
               PROVE  [Inbox!Next]_(Inbox!vars)
    OBVIOUS
  <2>1. CASE InboxStep
    <3>1. ASSUME NEW m \in Messages, NEW a \in Adapters, attest_message(m, a)
          PROVE  Inbox!Next
      BY <3>1, AttestIsAttest DEF Inbox!Next
    <3>2. ASSUME NEW m \in Messages, recv_message(m)
          PROVE  Inbox!Next
      BY <3>2, RecvIsReceive DEF Inbox!Next
    <3>3. ASSUME NEW m \in Messages, exec_message(m)
          PROVE  Inbox!Next
      BY <3>3, ExecIsExecute DEF Inbox!Next
    <3> QED
      BY <2>1, <3>1, <3>2, <3>3 DEF InboxStep
  <2>2. ASSUME UNCHANGED inboxVars
        PROVE  UNCHANGED Inbox!vars
    BY <2>2 DEF inboxVars, Inbox!vars
  <2>3. CASE ConfigStep
    BY <2>2, <2>3 DEF ConfigStep
  <2>4. CASE OutboxStep
    BY <2>2, <2>4 DEF OutboxStep
  <2>5. CASE \E i \in Integrators, u \in Users : register(i, u)
    BY <2>2, <2>5 DEF register
  <2>6. CASE UNCHANGED vars
    BY <2>2, <2>6 DEF vars, inboxVars
  <2> QED
    BY <2>1, <2>3, <2>4, <2>5, <2>6 DEF Next
<1> QED
  BY <1>1, <1>2, TypeCorrect, InboxSafeInvariant, PTL
  DEF Spec, ImplementsDelivery, Inbox!Spec

-----------------------------------------------------------------------------
(* The configuration.  What an admin instruction needs and what it leaves
   alone. *)

\* Every admin instruction but claim_admin passes check_admin.
LEMMA AdminInstructionIsChecked ==
  ASSUME NEW i, NEW signer, AdminInstruction(i, signer)
  PROVE  check_admin(i, signer) \/ claim_admin(i, signer)
BY DEF AdminInstruction, update_admin, transfer_admin, discard_admin,
       add_adapter, enable_recv_adapter, enable_send_adapter,
       disable_recv_adapter, disable_send_adapter, EnableAdapter,
       DisableAdapter

\* An admin instruction for one integrator leaves every other one alone.
LEMMA OthersUnchanged ==
  ASSUME ConfigTypeOK, NEW i \in Integrators, NEW j \in Integrators, i # j,
         NEW signer \in Users, AdminInstruction(i, signer)
  PROVE  UNCHANGED <<admin[j], pending_admin[j], ConfigOf(j)>>
<1> USE DEF ConfigTypeOK, ConfigOf, roleVars, adapterVars
<1>1. CASE \/ \E u \in Users : update_admin(i, signer, u)
           \/ \E u \in Users : transfer_admin(i, signer, u)
           \/ claim_admin(i, signer)
           \/ discard_admin(i, signer)
  BY <1>1 DEF update_admin, transfer_admin, claim_admin, discard_admin
<1>2. CASE \E a \in Adapters : add_adapter(i, signer, a)
  BY <1>2 DEF add_adapter
<1>3. CASE \E c \in ChainIds, a \in Adapters :
             \/ enable_recv_adapter(i, signer, c, a)
             \/ enable_send_adapter(i, signer, c, a)
  BY <1>3 DEF enable_recv_adapter, enable_send_adapter
<1>4. CASE \E c \in ChainIds, a \in Adapters :
             \/ disable_recv_adapter(i, signer, c, a)
             \/ disable_send_adapter(i, signer, c, a)
  BY <1>4 DEF disable_recv_adapter, disable_send_adapter
<1> QED
  BY <1>1, <1>2, <1>3, <1>4 DEF AdminInstruction

\* Likewise for registering.
LEMMA RegisterLeavesOthers ==
  ASSUME ConfigTypeOK, NEW i \in Integrators, NEW j \in Integrators, i # j,
         NEW u \in Users, register(i, u)
  PROVE  UNCHANGED <<admin[j], pending_admin[j], ConfigOf(j)>>
BY DEF ConfigTypeOK, ConfigOf, register, RegisterConfig

-----------------------------------------------------------------------------
(* The admin *)

\* The inductive invariant of the admin role: an integrator without an admin,
\* not registered yet or discarded, has no transfer in progress.
RoleInv ==
  /\ NoPendingWithoutAdmin
  /\ \A i \in Integrators : i \notin registered => admin[i] = None

\* RoleInv holds in every reachable state.
LEMMA RoleInvariant == Spec => []RoleInv
<1>1. Init => RoleInv
  BY DEF Init, ConfigInit, RoleInv, NoPendingWithoutAdmin
<1>2. TypeOK /\ RoleInv /\ [Next]_vars => RoleInv'
  <2> SUFFICES ASSUME TypeOK, RoleInv, [Next]_vars PROVE RoleInv'
    OBVIOUS
  <2> USE ConfigAssumption
      DEF TypeOK, ConfigTypeOK, RoleInv, NoPendingWithoutAdmin
  <2>1. ASSUME NEW i \in Integrators, NEW u \in Users, register(i, u)
        PROVE  RoleInv'
    BY <2>1 DEF register, RegisterConfig
  <2>2. ASSUME NEW i \in Integrators, NEW signer \in Users,
               AdminInstruction(i, signer)
        PROVE  RoleInv'
    <3>1. CASE \E u \in Users : update_admin(i, signer, u)
      BY <2>2, <3>1 DEF update_admin, check_admin
    <3>2. CASE \E u \in Users : transfer_admin(i, signer, u)
      BY <2>2, <3>2 DEF transfer_admin, check_admin
    <3>3. CASE claim_admin(i, signer)
      BY <2>2, <3>3 DEF claim_admin, ClaimAdmin
    <3>4. CASE discard_admin(i, signer)
      BY <2>2, <3>4 DEF discard_admin, check_admin
    <3>5. CASE UNCHANGED roleVars
      BY <3>5 DEF roleVars
    <3> QED
      BY <2>2, <3>1, <3>2, <3>3, <3>4, <3>5
      DEF AdminInstruction, add_adapter, enable_recv_adapter,
          enable_send_adapter, disable_recv_adapter, disable_send_adapter
  <2>3. CASE OutboxStep \/ InboxStep
    BY <2>3 DEF OutboxStep, InboxStep, configVars
  <2>4. CASE UNCHANGED vars
    BY <2>4 DEF vars
  <2> QED
    BY <2>1, <2>2, <2>3, <2>4 DEF Next, ConfigStep
<1> QED
  BY <1>1, <1>2, TypeCorrect, PTL DEF Spec

\* An integrator without an admin has no transfer in progress.
THEOREM NoPendingTransferWithoutAdmin == Spec => []NoPendingWithoutAdmin
<1>1. RoleInv => NoPendingWithoutAdmin
  BY DEF RoleInv
<1> QED
  BY <1>1, RoleInvariant, PTL

\* After discard_admin the admin and the configuration of the integrator
\* never change again.
THEOREM DiscardingIsForever == Spec => DiscardIsForever
<1> DEFINE Frozen(i) == i \in registered /\ admin[i] = None =>
                          UNCHANGED <<admin[i], pending_admin[i], ConfigOf(i)>>
<1>1. TypeOK /\ [Next]_vars => [\A i \in Integrators : Frozen(i)]_vars
  <2> SUFFICES ASSUME TypeOK, [Next]_vars, NEW j \in Integrators,
                      j \in registered, admin[j] = None
               PROVE  UNCHANGED <<admin[j], pending_admin[j], ConfigOf(j)>>
    OBVIOUS
  <2>1. ASSUME NEW i \in Integrators, NEW u \in Users, register(i, u)
        PROVE  UNCHANGED <<admin[j], pending_admin[j], ConfigOf(j)>>
    <3>1. i # j
      BY <2>1 DEF register, RegisterConfig
    <3> QED
      BY <2>1, <3>1, RegisterLeavesOthers DEF TypeOK
  <2>2. ASSUME NEW i \in Integrators, NEW signer \in Users,
               AdminInstruction(i, signer)
        PROVE  UNCHANGED <<admin[j], pending_admin[j], ConfigOf(j)>>
    <3>1. i # j
      BY <2>2, AdminInstructionIsChecked, ConfigAssumption
      DEF check_admin, claim_admin, ClaimAdmin
    <3> QED
      BY <2>2, <3>1, OthersUnchanged DEF TypeOK
  <2>3. CASE OutboxStep \/ InboxStep \/ UNCHANGED vars
    BY <2>3 DEF OutboxStep, InboxStep, configVars, vars, ConfigOf
  <2> QED
    BY <2>1, <2>2, <2>3 DEF Next, ConfigStep
<1> QED
  BY <1>1, TypeCorrect, PTL DEF Spec, DiscardIsForever

\* While a transfer is pending the only change to an integrator is that its
\* current or its pending admin settles the transfer.
THEOREM TransferLocksConfig == Spec => PendingLocksConfig
<1> DEFINE Kept(j)    == UNCHANGED <<admin[j], pending_admin[j], ConfigOf(j)>>
           Settled(j) == /\ pending_admin'[j] = None
                         /\ admin'[j] \in {admin[j], pending_admin[j]}
                         /\ UNCHANGED ConfigOf(j)
<1>1. TypeOK /\ RoleInv /\ [Next]_vars
        => [\A i \in Integrators :
              pending_admin[i] # None =>
                \/ UNCHANGED <<admin[i], pending_admin[i], ConfigOf(i)>>
                \/ /\ pending_admin'[i] = None
                   /\ admin'[i] \in {admin[i], pending_admin[i]}
                   /\ UNCHANGED ConfigOf(i)]_vars
  <2> SUFFICES ASSUME TypeOK, RoleInv, [Next]_vars, NEW j \in Integrators,
                      pending_admin[j] # None
               PROVE  Kept(j) \/ Settled(j)
    OBVIOUS
  <2>1. ASSUME NEW i \in Integrators, NEW u \in Users, register(i, u)
        PROVE  Kept(j)
    <3>1. i # j
      BY <2>1 DEF register, RegisterConfig, RoleInv, NoPendingWithoutAdmin
    <3> QED
      BY <2>1, <3>1, RegisterLeavesOthers DEF TypeOK
  <2>2. ASSUME NEW i \in Integrators, NEW signer \in Users,
               AdminInstruction(i, signer)
        PROVE  Kept(j) \/ Settled(j)
    <3>1. CASE i # j
      BY <2>2, <3>1, OthersUnchanged DEF TypeOK
    <3>2. CASE i = j
      <4>1. claim_admin(j, signer)
        BY <2>2, <3>2, AdminInstructionIsChecked DEF check_admin
      <4> QED
        BY <4>1 DEF claim_admin, ClaimAdmin, adapterVars, ConfigOf, TypeOK,
                    ConfigTypeOK
    <3> QED BY <3>1, <3>2
  <2>3. CASE OutboxStep \/ InboxStep \/ UNCHANGED vars
    BY <2>3 DEF OutboxStep, InboxStep, configVars, vars, ConfigOf
  <2> QED
    BY <2>1, <2>2, <2>3 DEF Next, ConfigStep
<1> QED
  BY <1>1, TypeCorrect, RoleInvariant, PTL DEF Spec, PendingLocksConfig

-----------------------------------------------------------------------------
(* The adapters *)

\* AdapterIndexesAgree for one integrator.
IndexInv(i) ==
  /\ Len(adapter_infos[i]) <= MaxAdapters
  /\ \A a \in Adapters, n \in 1 .. Len(adapter_infos[i]) :
       adapter_infos[i][n] = a <=> adapter_info[i][a] = n - 1
  /\ \A a \in Adapters : adapter_info[i][a] # None =>
       adapter_info[i][a] < Len(adapter_infos[i])

\* EnabledAreRegistered for one integrator.
EnabledInv(i) ==
  \A c \in ChainIds :
    chain_config[i][c].send_adapter_bitmap
      \cup chain_config[i][c].recv_adapter_bitmap
        \subseteq 0 .. Len(adapter_infos[i]) - 1

\* The inductive invariant of the adapters of one integrator: without a
\* registration the list is empty, so `register` resets nothing.
AdapterInv(i) ==
  /\ i \notin registered => adapter_infos[i] = <<>>
  /\ IndexInv(i)
  /\ EnabledInv(i)

\* add_adapter gives the new adapter the next free index.
LEMMA AddKeepsIndexInv ==
  ASSUME ConfigTypeOK, NEW i \in Integrators, NEW signer \in Users,
         NEW a \in Adapters, add_adapter(i, signer, a), IndexInv(i)
  PROVE  IndexInv(i)'
<1> DEFINE list == adapter_infos[i]
<1>1. list \in Seq(Adapters) /\ Len(list) \in Nat
  BY DEF ConfigTypeOK
<1>2. /\ adapter_infos'[i] = Append(list, a)
      /\ adapter_info'[i] = [adapter_info[i] EXCEPT ![a] = Len(list)]
      /\ adapter_info[i][a] = None
      /\ Len(list) < MaxAdapters
  BY DEF add_adapter, NextIndex, HasRoom, AdapterInfoIsNew, ConfigTypeOK
<1>3. Len(adapter_infos'[i]) = Len(list) + 1
  BY <1>1, <1>2
<1>4. adapter_info'[i][a] = Len(list)
  BY <1>2 DEF ConfigTypeOK
<1>5. \A b \in Adapters : b # a => adapter_info'[i][b] = adapter_info[i][b]
  BY <1>2 DEF ConfigTypeOK
<1>6. adapter_info[i] \in [Adapters -> Index \cup {None}]
  BY DEF ConfigTypeOK
<1>7. ASSUME NEW b \in Adapters, NEW n \in 1 .. Len(list) + 1
      PROVE  adapter_infos'[i][n] = b <=> adapter_info'[i][b] = n - 1
  <2>1. CASE n \in 1 .. Len(list)
    <3>1. adapter_infos'[i][n] = list[n]
      BY <1>1, <1>2, <2>1
    <3>2. list[n] = b <=> adapter_info[i][b] = n - 1
      BY <2>1 DEF IndexInv
    <3>3. CASE b = a
      BY <1>1, <1>2, <1>4, <2>1, <3>1, <3>2, <3>3, ConfigAssumption
    <3>4. CASE b # a
      BY <1>5, <3>1, <3>2, <3>4
    <3> QED BY <3>3, <3>4
  <2>2. CASE n = Len(list) + 1
    <3>1. adapter_infos'[i][n] = a
      BY <1>1, <1>2, <2>2
    <3>2. CASE b = a
      BY <1>1, <1>4, <2>2, <3>1, <3>2
    <3>3. CASE b # a
      <4>1. adapter_info[i][b] # Len(list)
        BY <1>1, <1>6, ConfigAssumption DEF IndexInv, Index
      <4> QED BY <1>1, <1>5, <2>2, <3>1, <3>3, <4>1
    <3> QED BY <3>2, <3>3
  <2> QED BY <1>1, <2>1, <2>2
<1>8. ASSUME NEW b \in Adapters, adapter_info'[i][b] # None
      PROVE  adapter_info'[i][b] < Len(list) + 1
  <2>1. CASE b = a
    BY <1>1, <1>4, <2>1
  <2>2. CASE b # a
    <3>1. adapter_info[i][b] # None
      BY <1>5, <1>8, <2>2
    <3>2. adapter_info[i][b] \in Index /\ adapter_info[i][b] < Len(list)
      BY <1>6, <3>1 DEF IndexInv
    <3> QED BY <1>1, <1>5, <2>2, <3>2, ConfigAssumption DEF Index
  <2> QED BY <2>1, <2>2
<1>9. Len(list) + 1 <= MaxAdapters
  BY <1>1, <1>2, ConfigAssumption
<1> QED
  BY <1>3, <1>7, <1>8, <1>9 DEF IndexInv

\* A change of one chain's bitmaps within the registered indices keeps
\* EnabledInv.
LEMMA ChainChangeKeepsEnabledInv ==
  ASSUME ConfigTypeOK, NEW i \in Integrators, EnabledInv(i),
         NEW d \in ChainIds, NEW config,
         config.send_adapter_bitmap \subseteq 0 .. Len(adapter_infos[i]) - 1,
         config.recv_adapter_bitmap \subseteq 0 .. Len(adapter_infos[i]) - 1,
         chain_config' = [chain_config EXCEPT ![i][d] = config],
         UNCHANGED adapter_infos
  PROVE  EnabledInv(i)'
<1> SUFFICES ASSUME NEW c \in ChainIds
             PROVE  chain_config'[i][c].send_adapter_bitmap
                      \cup chain_config'[i][c].recv_adapter_bitmap
                        \subseteq 0 .. Len(adapter_infos[i]) - 1
  BY DEF EnabledInv
<1>1. CASE c = d
  <2>1. chain_config'[i][c] = config
    BY <1>1 DEF ConfigTypeOK
  <2> QED BY <2>1
<1>2. CASE c # d
  <2>1. chain_config'[i][c] = chain_config[i][c]
    BY <1>2 DEF ConfigTypeOK
  <2> QED BY <2>1 DEF EnabledInv
<1> QED BY <1>1, <1>2

\* Every admin instruction keeps the adapter invariant of its integrator.
LEMMA AdminInstructionKeepsAdapterInv ==
  ASSUME ConfigTypeOK, NEW i \in Integrators, AdapterInv(i),
         NEW signer \in Users, AdminInstruction(i, signer)
  PROVE  AdapterInv(i)'
<1>1. Len(adapter_infos[i]) \in Nat
  BY DEF ConfigTypeOK
<1>2. \A c \in ChainIds :
        /\ InitializedChainConfig(i, c).send_adapter_bitmap
             \subseteq 0 .. Len(adapter_infos[i]) - 1
        /\ InitializedChainConfig(i, c).recv_adapter_bitmap
             \subseteq 0 .. Len(adapter_infos[i]) - 1
  BY DEF InitializedChainConfig, AdapterInv, EnabledInv
<1>3. ASSUME NEW c \in ChainIds, NEW a \in Adapters,
             enable_recv_adapter(i, signer, c, a)
      PROVE  AdapterInv(i)'
  <2> DEFINE index   == AdapterIndex(i, a)
             config  == InitializedChainConfig(i, c)
             updated == [config EXCEPT !.recv_adapter_bitmap =
                           BitmapSet(@, index, TRUE)]
  <2>1. index # None
    BY <1>3 DEF enable_recv_adapter, EnableAdapter
  <2>2. index \in 0 .. Len(adapter_infos[i]) - 1
    BY <1>1, <2>1, ConfigAssumption
    DEF AdapterIndex, AdapterInv, IndexInv, ConfigTypeOK, Index
  <2>3. config \in ChainConfig
    BY ChainConfigTyped
  <2>4. /\ updated.send_adapter_bitmap \subseteq 0 .. Len(adapter_infos[i]) - 1
        /\ updated.recv_adapter_bitmap \subseteq 0 .. Len(adapter_infos[i]) - 1
    BY <1>2, <2>2, <2>3 DEF ChainConfig, BitmapSet
  <2>5. /\ chain_config' = [chain_config EXCEPT ![i][c] = updated]
        /\ UNCHANGED <<registered, adapter_infos, adapter_info>>
    BY <1>3 DEF enable_recv_adapter, roleVars, adapterVars
  <2>6. EnabledInv(i)'
    BY <2>4, <2>5, ChainChangeKeepsEnabledInv DEF AdapterInv
  <2> QED BY <2>5, <2>6 DEF AdapterInv, IndexInv
<1>4. ASSUME NEW c \in ChainIds, NEW a \in Adapters,
             enable_send_adapter(i, signer, c, a)
      PROVE  AdapterInv(i)'
  <2> DEFINE index   == AdapterIndex(i, a)
             config  == InitializedChainConfig(i, c)
             updated == [config EXCEPT !.send_adapter_bitmap =
                           BitmapSet(@, index, TRUE)]
  <2>1. index # None
    BY <1>4 DEF enable_send_adapter, EnableAdapter
  <2>2. index \in 0 .. Len(adapter_infos[i]) - 1
    BY <1>1, <2>1, ConfigAssumption
    DEF AdapterIndex, AdapterInv, IndexInv, ConfigTypeOK, Index
  <2>3. config \in ChainConfig
    BY ChainConfigTyped
  <2>4. /\ updated.send_adapter_bitmap \subseteq 0 .. Len(adapter_infos[i]) - 1
        /\ updated.recv_adapter_bitmap \subseteq 0 .. Len(adapter_infos[i]) - 1
    BY <1>2, <2>2, <2>3 DEF ChainConfig, BitmapSet
  <2>5. /\ chain_config' = [chain_config EXCEPT ![i][c] = updated]
        /\ UNCHANGED <<registered, adapter_infos, adapter_info>>
    BY <1>4 DEF enable_send_adapter, roleVars, adapterVars
  <2>6. EnabledInv(i)'
    BY <2>4, <2>5, ChainChangeKeepsEnabledInv DEF AdapterInv
  <2> QED BY <2>5, <2>6 DEF AdapterInv, IndexInv
<1>5. ASSUME NEW c \in ChainIds, NEW a \in Adapters,
             disable_recv_adapter(i, signer, c, a)
      PROVE  AdapterInv(i)'
  <2> DEFINE config  == chain_config[i][c]
             updated == [config EXCEPT !.recv_adapter_bitmap =
                           BitmapSet(@, AdapterIndex(i, a), FALSE)]
  <2>1. config \in ChainConfig
    BY DEF ConfigTypeOK
  <2>2. /\ updated.send_adapter_bitmap \subseteq config.send_adapter_bitmap
        /\ updated.recv_adapter_bitmap \subseteq config.recv_adapter_bitmap
    BY <2>1 DEF ChainConfig, BitmapSet
  <2>3. /\ updated.send_adapter_bitmap \subseteq 0 .. Len(adapter_infos[i]) - 1
        /\ updated.recv_adapter_bitmap \subseteq 0 .. Len(adapter_infos[i]) - 1
    BY <2>2 DEF AdapterInv, EnabledInv
  <2>4. /\ chain_config' = [chain_config EXCEPT ![i][c] = updated]
        /\ UNCHANGED <<registered, adapter_infos, adapter_info>>
    BY <1>5 DEF disable_recv_adapter, roleVars, adapterVars
  <2>5. EnabledInv(i)'
    BY <2>3, <2>4, ChainChangeKeepsEnabledInv DEF AdapterInv
  <2> QED BY <2>4, <2>5 DEF AdapterInv, IndexInv
<1>6. ASSUME NEW c \in ChainIds, NEW a \in Adapters,
             disable_send_adapter(i, signer, c, a)
      PROVE  AdapterInv(i)'
  <2> DEFINE config  == chain_config[i][c]
             updated == [config EXCEPT !.send_adapter_bitmap =
                           BitmapSet(@, AdapterIndex(i, a), FALSE)]
  <2>1. config \in ChainConfig
    BY DEF ConfigTypeOK
  <2>2. /\ updated.send_adapter_bitmap \subseteq config.send_adapter_bitmap
        /\ updated.recv_adapter_bitmap \subseteq config.recv_adapter_bitmap
    BY <2>1 DEF ChainConfig, BitmapSet
  <2>3. /\ updated.send_adapter_bitmap \subseteq 0 .. Len(adapter_infos[i]) - 1
        /\ updated.recv_adapter_bitmap \subseteq 0 .. Len(adapter_infos[i]) - 1
    BY <2>2 DEF AdapterInv, EnabledInv
  <2>4. /\ chain_config' = [chain_config EXCEPT ![i][c] = updated]
        /\ UNCHANGED <<registered, adapter_infos, adapter_info>>
    BY <1>6 DEF disable_send_adapter, roleVars, adapterVars
  <2>5. EnabledInv(i)'
    BY <2>3, <2>4, ChainChangeKeepsEnabledInv DEF AdapterInv
  <2> QED BY <2>4, <2>5 DEF AdapterInv, IndexInv
<1>7. ASSUME NEW a \in Adapters, add_adapter(i, signer, a)
      PROVE  AdapterInv(i)'
  <2>1. IndexInv(i)'
    BY <1>7, AddKeepsIndexInv DEF AdapterInv
  <2>2. Len(adapter_infos'[i]) = Len(adapter_infos[i]) + 1
    BY <1>7 DEF add_adapter, ConfigTypeOK
  <2>3. EnabledInv(i)'
    BY <1>1, <1>7, <2>2 DEF add_adapter, AdapterInv, EnabledInv
  <2>4. i \in registered'
    BY <1>7 DEF add_adapter, check_admin, roleVars
  <2> QED BY <2>1, <2>3, <2>4 DEF AdapterInv
<1>8. ASSUME UNCHANGED <<registered, adapterVars, chain_config>>
      PROVE  AdapterInv(i)'
  BY <1>8 DEF adapterVars, AdapterInv, IndexInv, EnabledInv
<1> QED
  BY <1>3, <1>4, <1>5, <1>6, <1>7, <1>8
  DEF AdminInstruction, update_admin, transfer_admin, claim_admin,
      discard_admin

\* The adapter invariant holds in every reachable state.
LEMMA AdapterInvariant == Spec => [](\A i \in Integrators : AdapterInv(i))
<1> DEFINE Inv == \A i \in Integrators : AdapterInv(i)
<1>1. Init => Inv
  <2> SUFFICES ASSUME Init, NEW i \in Integrators PROVE AdapterInv(i)
    OBVIOUS
  <2>1. /\ adapter_infos[i] = <<>>
        /\ \A a \in Adapters : adapter_info[i][a] = None
    BY DEF Init, ConfigInit
  <2>2. IndexInv(i)
    BY <2>1, ConfigAssumption DEF IndexInv
  <2>3. EnabledInv(i)
    BY DEF Init, ConfigInit, NoChainConfig, EnabledInv
  <2> QED BY <2>1, <2>2, <2>3 DEF AdapterInv
<1>2. TypeOK /\ Inv /\ [Next]_vars => Inv'
  <2> SUFFICES ASSUME TypeOK, Inv, [Next]_vars, NEW j \in Integrators
               PROVE  AdapterInv(j)'
    OBVIOUS
  <2>1. ASSUME ConfigOf(j)' = ConfigOf(j),
               j \in registered => j \in registered'
        PROVE  AdapterInv(j)'
    BY <2>1 DEF ConfigOf, AdapterInv, IndexInv, EnabledInv
  <2>2. registered \subseteq registered'
    <3>1. ASSUME NEW i \in Integrators, NEW u \in Users, register(i, u)
          PROVE  registered \subseteq registered'
      BY <3>1 DEF register, RegisterConfig
    <3>2. ASSUME NEW i \in Integrators, NEW signer \in Users,
                 AdminInstruction(i, signer)
          PROVE  registered' = registered
      BY <3>2 DEF AdminInstruction, update_admin, transfer_admin, claim_admin,
        discard_admin, add_adapter, enable_recv_adapter, enable_send_adapter,
        disable_recv_adapter, disable_send_adapter, roleVars
    <3>3. CASE OutboxStep \/ InboxStep \/ UNCHANGED vars
      BY <3>3 DEF OutboxStep, InboxStep, configVars, vars
    <3> QED
      BY <3>1, <3>2, <3>3 DEF Next, ConfigStep
  <2>3. ASSUME NEW i \in Integrators, NEW u \in Users, register(i, u)
        PROVE  AdapterInv(j)'
    <3>1. CASE i # j
      BY <2>1, <2>2, <2>3, <3>1, RegisterLeavesOthers DEF TypeOK
    <3>2. CASE i = j
      <4>1. adapter_infos[j] = <<>>
        BY <2>3, <3>2 DEF register, RegisterConfig, AdapterInv
      <4>2. UNCHANGED ConfigOf(j)
        BY <2>3, <3>2, <4>1
        DEF register, RegisterConfig, ConfigOf, TypeOK, ConfigTypeOK
      <4> QED BY <2>1, <2>2, <4>2
    <3> QED BY <3>1, <3>2
  <2>4. ASSUME NEW i \in Integrators, NEW signer \in Users,
               AdminInstruction(i, signer)
        PROVE  AdapterInv(j)'
    <3>1. CASE i # j
      BY <2>1, <2>2, <2>4, <3>1, OthersUnchanged DEF TypeOK
    <3>2. CASE i = j
      BY <2>4, <3>2, AdminInstructionKeepsAdapterInv DEF TypeOK
    <3> QED BY <3>1, <3>2
  <2>5. CASE OutboxStep \/ InboxStep \/ UNCHANGED vars
    BY <2>1, <2>2, <2>5 DEF OutboxStep, InboxStep, configVars, vars, ConfigOf
  <2> QED
    BY <2>3, <2>4, <2>5 DEF Next, ConfigStep
<1> QED
  BY <1>1, <1>2, TypeCorrect, PTL DEF Spec

\* The AdapterInfo accounts and the adapter list of every integrator agree.
THEOREM IndexesAgree == Spec => []AdapterIndexesAgree
<1>1. (\A i \in Integrators : AdapterInv(i)) => AdapterIndexesAgree
  BY DEF AdapterInv, IndexInv, AdapterIndexesAgree
<1> QED
  BY <1>1, AdapterInvariant, PTL

\* Only registered adapters are ever enabled.
THEOREM EnabledAdaptersAreRegistered == Spec => []EnabledAreRegistered
<1>1. (\A i \in Integrators : AdapterInv(i)) => EnabledAreRegistered
  BY DEF AdapterInv, EnabledInv, EnabledAreRegistered
<1> QED
  BY <1>1, AdapterInvariant, PTL

\* What a step can do to an integrator's configuration: nothing, unless it is
\* an admin instruction for this integrator.
LEMMA ConfigChangesByAdmin ==
  ASSUME TypeOK, \A i \in Integrators : AdapterInv(i), [Next]_vars,
         NEW j \in Integrators
  PROVE  \/ UNCHANGED ConfigOf(j)
         \/ \E signer \in Users : AdminInstruction(j, signer)
<1>1. ASSUME NEW i \in Integrators, NEW u \in Users, register(i, u)
      PROVE  UNCHANGED ConfigOf(j)
  <2>1. CASE i # j
    BY <1>1, <2>1, RegisterLeavesOthers DEF TypeOK
  <2>2. CASE i = j
    <3>1. adapter_infos[j] = <<>>
      BY <1>1, <2>2 DEF register, RegisterConfig, AdapterInv
    <3> QED
      BY <1>1, <2>2, <3>1
      DEF register, RegisterConfig, ConfigOf, TypeOK, ConfigTypeOK
  <2> QED BY <2>1, <2>2
<1>2. ASSUME NEW i \in Integrators, NEW signer \in Users, i # j,
             AdminInstruction(i, signer)
      PROVE  UNCHANGED ConfigOf(j)
  BY <1>2, OthersUnchanged DEF TypeOK
<1>3. CASE OutboxStep \/ InboxStep \/ UNCHANGED vars
  BY <1>3 DEF OutboxStep, InboxStep, configVars, vars, ConfigOf
<1> QED
  BY <1>1, <1>2, <1>3 DEF Next, ConfigStep

\* AdaptersAppendOnly for one integrator, as an action.
AppendsOnly(i) ==
  /\ Len(adapter_infos'[i]) >= Len(adapter_infos[i])
  /\ \A n \in 1 .. Len(adapter_infos[i]) :
       adapter_infos'[i][n] = adapter_infos[i][n]
  /\ \A a \in Adapters : adapter_info[i][a] # None =>
       adapter_info'[i][a] = adapter_info[i][a]

\* Every step only appends to an integrator's adapters.
LEMMA StepAppendsOnly ==
  ASSUME TypeOK, \A i \in Integrators : AdapterInv(i), [Next]_vars,
         NEW j \in Integrators
  PROVE  AppendsOnly(j)
<1>1. adapter_infos[j] \in Seq(Adapters) /\ Len(adapter_infos[j]) \in Nat
  BY DEF TypeOK, ConfigTypeOK
<1>2. ASSUME adapter_infos'[j] = adapter_infos[j],
             adapter_info'[j] = adapter_info[j]
      PROVE  AppendsOnly(j)
  BY <1>1, <1>2 DEF AppendsOnly
<1>3. CASE UNCHANGED ConfigOf(j)
  BY <1>2, <1>3 DEF ConfigOf
<1>4. ASSUME NEW signer \in Users, AdminInstruction(j, signer)
      PROVE  AppendsOnly(j)
  <2>1. ASSUME NEW a \in Adapters, add_adapter(j, signer, a)
        PROVE  AppendsOnly(j)
    <3>1. adapter_infos'[j] = Append(adapter_infos[j], a)
      BY <2>1 DEF add_adapter, TypeOK, ConfigTypeOK
    <3>2. adapter_info[j][a] = None
      BY <2>1 DEF add_adapter, AdapterInfoIsNew
    <3>3. \A b \in Adapters : b # a =>
            adapter_info'[j][b] = adapter_info[j][b]
      BY <2>1 DEF add_adapter, TypeOK, ConfigTypeOK
    <3> QED
      BY <1>1, <3>1, <3>2, <3>3 DEF AppendsOnly
  <2>2. CASE UNCHANGED adapterVars
    BY <1>2, <2>2 DEF adapterVars
  <2> QED
    BY <1>4, <2>1, <2>2
    DEF AdminInstruction, update_admin, transfer_admin, claim_admin,
        discard_admin, enable_recv_adapter, enable_send_adapter,
        disable_recv_adapter, disable_send_adapter
<1> QED
  BY <1>3, <1>4, ConfigChangesByAdmin

\* The list of adapters is append-only and an adapter keeps its index.
THEOREM AdaptersAreAppendOnly == Spec => AdaptersAppendOnly
<1>1. TypeOK /\ (\A i \in Integrators : AdapterInv(i)) /\ [Next]_vars
        => [\A i \in Integrators :
              /\ Len(adapter_infos'[i]) >= Len(adapter_infos[i])
              /\ \A n \in 1 .. Len(adapter_infos[i]) :
                   adapter_infos'[i][n] = adapter_infos[i][n]
              /\ \A a \in Adapters : adapter_info[i][a] # None =>
                   adapter_info'[i][a] = adapter_info[i][a]]_vars
  BY StepAppendsOnly DEF AppendsOnly
<1> QED
  BY <1>1, TypeCorrect, AdapterInvariant, PTL DEF Spec, AdaptersAppendOnly

\* Two adapters of an integrator never share an index.
LEMMA IndexIsInjective ==
  ASSUME ConfigTypeOK, NEW i \in Integrators, IndexInv(i),
         NEW a \in Adapters, NEW b \in Adapters, adapter_info[i][a] # None,
         adapter_info[i][a] = adapter_info[i][b]
  PROVE  a = b
<1> DEFINE index == adapter_info[i][a]
<1>1. index \in Index /\ index < Len(adapter_infos[i])
  BY DEF ConfigTypeOK, IndexInv
<1>2. index + 1 \in 1 .. Len(adapter_infos[i]) /\ (index + 1) - 1 = index
  BY <1>1, ConfigAssumption DEF ConfigTypeOK, Index
<1>3. adapter_infos[i][index + 1] = a /\ adapter_infos[i][index + 1] = b
  BY <1>2 DEF IndexInv
<1> QED BY <1>3

-----------------------------------------------------------------------------
(* The attestations *)

\* The adapters that attested to a message have an index with its destination,
\* and the bits of the message are these indices.
AttributedInv(m) ==
  /\ \A p \in attested_by : p[1] = m => adapter_info[m.dst_addr][p[2]] # None
  /\ attestation_info[m].attested_adapters =
       {adapter_info[m.dst_addr][p[2]] : p \in {q \in attested_by : q[1] = m}}

\* A message instruction keeps the attribution of every message.
LEMMA InboxKeepsAttribution ==
  ASSUME TypeOK, InboxSafe, InboxStep, NEW m \in Messages, AttributedInv(m)
  PROVE  AttributedInv(m)'
<1> USE DEF TypeOK, InboxTypeOK
<1>1. UNCHANGED adapter_info
  BY DEF InboxStep, configVars
<1>2. ASSUME attestation_info'[m].attested_adapters =
               attestation_info[m].attested_adapters,
             UNCHANGED attested_by
      PROVE  AttributedInv(m)'
  BY <1>1, <1>2 DEF AttributedInv
<1>3. ASSUME NEW n \in Messages, NEW a \in Adapters, attest_message(n, a)
      PROVE  AttributedInv(m)'
  <2> DEFINE info  == InitializedAttestationInfo(n)
             index == AdapterIndex(n.dst_addr, a)
  <2>1. /\ attested_by' = attested_by \cup {<<n, a>>}
        /\ index # None
        /\ attestation_info' = [attestation_info EXCEPT ![n] =
             [info EXCEPT !.attested_adapters = BitmapSet(@, index, TRUE)]]
    BY <1>3 DEF attest_message
  <2>2. CASE n # m
    <3>1. attestation_info'[m] = attestation_info[m]
      BY <2>1, <2>2
    <3>2. {q \in attested_by' : q[1] = m} = {q \in attested_by : q[1] = m}
      BY <2>1, <2>2
    <3> QED BY <1>1, <3>1, <3>2 DEF AttributedInv
  <2>3. CASE n = m
    <3>1. info \in AttestationInfo
          /\ info.attested_adapters = attestation_info[m].attested_adapters
      <4>1. CASE attestation_info[m].src_chain = 0
        BY <2>3, <4>1, InboxAssumption DEF InboxSafe, InboxInv,
          InitializedAttestationInfo, NewAttestationInfo, AttestationInfo
      <4>2. CASE attestation_info[m].src_chain # 0
        BY <2>3, <4>2 DEF InitializedAttestationInfo
      <4> QED BY <4>1, <4>2
    <3>2. attestation_info'[m].attested_adapters =
            attestation_info[m].attested_adapters \cup {index}
      BY <2>1, <2>3, <3>1 DEF AttestationInfo, BitmapSet
    <3>3. index = adapter_info[m.dst_addr][a]
      BY <2>3 DEF AdapterIndex
    <3> DEFINE pair   == <<m, a>>
               by     == {q \in attested_by : q[1] = m}
               Bits(S) == {adapter_info[m.dst_addr][p[2]] : p \in S}
    <3>4. pair[1] = m /\ pair[2] = a
      OBVIOUS
    <3>5. attested_by' = attested_by \cup {pair}
      BY <2>1, <2>3
    <3> HIDE DEF pair
    <3>6. {q \in attested_by' : q[1] = m} = by \cup {pair}
      BY <3>4, <3>5
    <3>7. Bits(by \cup {pair}) = Bits(by) \cup {index}
      BY <3>3, <3>4
    <3>8. \A p \in attested_by' :
            p[1] = m => adapter_info[m.dst_addr][p[2]] # None
      BY <2>1, <3>3, <3>4, <3>5 DEF AttributedInv
    <3>9. attestation_info[m].attested_adapters = Bits(by)
      BY DEF AttributedInv
    <3> HIDE DEF Bits, by
    <3>10. attestation_info'[m].attested_adapters =
             Bits({q \in attested_by' : q[1] = m})
      BY <3>2, <3>6, <3>7, <3>9
    <3> QED
      BY <1>1, <3>8, <3>10 DEF AttributedInv, Bits
  <2> QED BY <2>2, <2>3
<1>4. ASSUME NEW n \in Messages, recv_message(n)
      PROVE  AttributedInv(m)'
  <2>1. attestation_info'[m].attested_adapters =
          attestation_info[m].attested_adapters
    BY <1>4 DEF recv_message, AttestationInfo
  <2> QED BY <1>2, <1>4, <2>1 DEF recv_message
<1>5. ASSUME NEW n \in Messages, exec_message(n)
      PROVE  AttributedInv(m)'
  <2>1. Inbox!Execute(n)
    BY <1>5, ExecIsExecute
  <2>2. attestation_info'[m].attested_adapters =
          attestation_info[m].attested_adapters
    BY <2>1 DEF Inbox!Execute
  <2> QED BY <1>2, <1>5, <2>2 DEF exec_message
<1> QED
  BY <1>3, <1>4, <1>5 DEF InboxStep

\* The attribution holds in every reachable state: an adapter that attested
\* keeps its index.
LEMMA AttributedInvariant == Spec => [](\A m \in Messages : AttributedInv(m))
<1> DEFINE Inv == \A m \in Messages : AttributedInv(m)
<1>1. Init => Inv
  <2> SUFFICES ASSUME Init, NEW m \in Messages PROVE AttributedInv(m)
    OBVIOUS
  <2>1. attested_by = {} /\ attestation_info[m].attested_adapters = {}
    BY DEF Init, InboxInit, NoAttestationInfo
  <2>2. {q \in attested_by : q[1] = m} = {}
    BY <2>1
  <2> QED BY <2>1, <2>2 DEF AttributedInv
<1>2. TypeOK /\ InboxSafe /\ (\A i \in Integrators : AdapterInv(i))
        /\ Inv /\ [Next]_vars => Inv'
  <2> SUFFICES ASSUME TypeOK, InboxSafe, \A i \in Integrators : AdapterInv(i),
                      Inv, [Next]_vars, NEW m \in Messages
               PROVE  AttributedInv(m)'
    OBVIOUS
  <2>1. CASE InboxStep
    BY <2>1, InboxKeepsAttribution
  <2>2. CASE UNCHANGED inboxVars
    <3> USE <2>2 DEF inboxVars
    <3> DEFINE by == {q \in attested_by : q[1] = m}
    <3>1. AppendsOnly(m.dst_addr)
      BY StepAppendsOnly, InboxAssumption
    <3>2. \A p \in by : /\ p[2] \in Adapters
                        /\ adapter_info[m.dst_addr][p[2]] # None
      BY DEF AttributedInv, TypeOK, InboxTypeOK
    <3>3. \A p \in by : adapter_info'[m.dst_addr][p[2]]
                          = adapter_info[m.dst_addr][p[2]]
      BY <3>1, <3>2 DEF AppendsOnly
    <3>4. {adapter_info'[m.dst_addr][p[2]] : p \in by}
            = {adapter_info[m.dst_addr][p[2]] : p \in by}
      BY <3>3
    <3>5. \A p \in attested_by :
            p[1] = m => adapter_info'[m.dst_addr][p[2]] # None
      BY <3>2, <3>3
    <3> QED BY <3>4, <3>5 DEF AttributedInv
  <2>3. InboxStep \/ UNCHANGED inboxVars
    BY DEF Next, ConfigStep, OutboxStep, register, vars, inboxVars
  <2> QED BY <2>1, <2>2, <2>3
<1> QED
  BY <1>1, <1>2, TypeCorrect, InboxSafeInvariant, AdapterInvariant, PTL
  DEF Spec

\* The attestation bits of a message are the indices of the adapters that
\* attested, one each, whatever was added or enabled in between.
THEOREM AttestationsAttributed == Spec => []AttestationsAreAttributed
<1>1. TypeOK /\ (\A i \in Integrators : AdapterInv(i))
        /\ (\A m \in Messages : AttributedInv(m)) => AttestationsAreAttributed
  <2> SUFFICES ASSUME TypeOK, \A i \in Integrators : AdapterInv(i),
                      \A m \in Messages : AttributedInv(m),
                      NEW m \in Messages, NEW p \in attested_by,
                      NEW q \in attested_by, p[1] = m, q[1] = m,
                      adapter_info[m.dst_addr][p[2]]
                        = adapter_info[m.dst_addr][q[2]]
               PROVE  p = q
    BY DEF AttestationsAreAttributed, AttributedInv
  <2>1. p = <<m, p[2]>> /\ q = <<m, q[2]>> /\ p[2] \in Adapters
        /\ q[2] \in Adapters
    BY DEF TypeOK, InboxTypeOK
  <2>2. adapter_info[m.dst_addr][p[2]] # None
    BY DEF AttributedInv
  <2>3. p[2] = q[2]
    BY <2>1, <2>2, IndexIsInjective, InboxAssumption DEF AdapterInv, TypeOK
  <2> QED BY <2>1, <2>3
<1> QED
  BY <1>1, TypeCorrect, AdapterInvariant, AttributedInvariant, PTL

-----------------------------------------------------------------------------
(* The admin instructions implement AdminRole. *)

\* The refinement mapping of the role, by its four cases.
LEMMA RoleCases ==
  ASSUME NEW i
  PROVE  /\ i \notin registered => RoleOf(i) = [phase |-> "unregistered"]
         /\ i \in registered /\ admin[i] = None =>
              RoleOf(i) = [phase |-> "discarded"]
         /\ i \in registered /\ admin[i] # None /\ pending_admin[i] = None =>
              RoleOf(i) = [phase |-> "owned", admin |-> admin[i]]
         /\ i \in registered /\ admin[i] # None /\ pending_admin[i] # None =>
              RoleOf(i) = [phase |-> "transferring", admin |-> admin[i],
                           pending |-> pending_admin[i]]
BY DEF RoleOf

\* The same in the next state.
LEMMA NextRoleCases ==
  ASSUME NEW i
  PROVE  /\ i \notin registered' => RoleOf(i)' = [phase |-> "unregistered"]
         /\ i \in registered' /\ admin'[i] = None =>
              RoleOf(i)' = [phase |-> "discarded"]
         /\ i \in registered' /\ admin'[i] # None /\ pending_admin'[i] = None
              => RoleOf(i)' = [phase |-> "owned", admin |-> admin'[i]]
         /\ i \in registered' /\ admin'[i] # None /\ pending_admin'[i] # None
              => RoleOf(i)' = [phase |-> "transferring", admin |-> admin'[i],
                               pending |-> pending_admin'[i]]
BY DEF RoleOf

\* A step that changes one integrator's role to r and no settings.
LEMMA RoleBecomes ==
  ASSUME NEW i \in Integrators, NEW r, RoleOf(i)' = r,
         \A j \in Integrators : j # i => RoleOf(j)' = RoleOf(j),
         \A j \in Integrators : ConfigOf(j)' = ConfigOf(j)
  PROVE  Role!Become(i, r)
<1> DEFINE roles == [j \in Integrators |-> RoleOf(j)]
<1>1. [j \in Integrators |-> RoleOf(j)'] = [roles EXCEPT ![i] = r]
  OBVIOUS
<1>2. [j \in Integrators |-> ConfigOf(j)']
        = [j \in Integrators |-> ConfigOf(j)]
  OBVIOUS
<1> QED BY <1>1, <1>2 DEF Role!Become

\* The role of an integrator depends on its own three fields.
LEMMA RoleUnchanged ==
  ASSUME NEW j, UNCHANGED <<admin[j], pending_admin[j]>>,
         j \in registered' <=> j \in registered
  PROVE  RoleOf(j)' = RoleOf(j)
BY DEF RoleOf

\* An admin instruction is a step of AdminRole, by the instruction.
LEMMA AdminInstructionIsRoleStep ==
  ASSUME TypeOK, NEW i \in Integrators, NEW signer \in Users,
         AdminInstruction(i, signer)
  PROVE  Role!Next
<1> USE DEF TypeOK, ConfigTypeOK
<1>1. registered' = registered
  BY DEF AdminInstruction, update_admin, transfer_admin, claim_admin,
    discard_admin, add_adapter, enable_recv_adapter, enable_send_adapter,
    disable_recv_adapter, disable_send_adapter, roleVars
<1>2. \A j \in Integrators : j # i =>
        UNCHANGED <<admin[j], pending_admin[j], ConfigOf(j)>>
  BY OthersUnchanged
<1>3. \A j \in Integrators : j # i => RoleOf(j)' = RoleOf(j)
  BY <1>1, <1>2, RoleUnchanged
<1>4. check_admin(i, signer) =>
        /\ i \in registered /\ admin[i] = signer /\ signer # None
        /\ RoleOf(i) = [phase |-> "owned", admin |-> signer]
  BY RoleCases, ConfigAssumption DEF check_admin
<1>5. ASSUME UNCHANGED <<adapterVars, chain_config>>
      PROVE  \A j \in Integrators : ConfigOf(j)' = ConfigOf(j)
  BY <1>5 DEF adapterVars, ConfigOf
<1>6. ASSUME NEW u \in Users, update_admin(i, signer, u)
      PROVE  Role!Update(i)
  <2>1. /\ check_admin(i, signer) /\ admin'[i] = u /\ u # None
        /\ pending_admin'[i] = None
        /\ UNCHANGED <<adapterVars, chain_config>>
    BY <1>6, ConfigAssumption DEF update_admin, check_admin
  <2>2. RoleOf(i)' = Role!Owned(u)
    BY <1>1, <1>4, <2>1, NextRoleCases DEF Role!Owned
  <2>3. Role!Become(i, Role!Owned(u))
    BY <1>3, <1>5, <2>1, <2>2, RoleBecomes
  <2> QED BY <1>4, <2>1, <2>3 DEF Role!Update
<1>7. ASSUME NEW u \in Users, transfer_admin(i, signer, u)
      PROVE  Role!Transfer(i)
  <2>1. /\ check_admin(i, signer) /\ pending_admin'[i] = u /\ u # None
        /\ admin'[i] = signer
        /\ UNCHANGED <<adapterVars, chain_config>>
    BY <1>7, ConfigAssumption DEF transfer_admin, check_admin
  <2>2. RoleOf(i)' = Role!Transferring(signer, u)
    BY <1>1, <1>4, <2>1, NextRoleCases DEF Role!Transferring
  <2>3. Role!Become(i, Role!Transferring(signer, u))
    BY <1>3, <1>5, <2>1, <2>2, RoleBecomes
  <2> QED BY <1>4, <2>1, <2>3 DEF Role!Transfer
<1>8. ASSUME claim_admin(i, signer)
      PROVE  Role!Claim(i)
  <2>1. /\ i \in registered /\ admin[i] # None /\ pending_admin[i] # None
        /\ signer \in {admin[i], pending_admin[i]} /\ signer # None
        /\ admin'[i] = signer /\ pending_admin'[i] = None
        /\ UNCHANGED <<adapterVars, chain_config>>
    BY <1>8, ConfigAssumption DEF claim_admin, ClaimAdmin
  <2>2. RoleOf(i)' = Role!Owned(signer)
    BY <1>1, <2>1, NextRoleCases DEF Role!Owned
  <2>3. Role!Become(i, Role!Owned(signer))
    BY <1>3, <1>5, <2>1, <2>2, RoleBecomes
  <2>4. RoleOf(i) = [phase |-> "transferring", admin |-> admin[i],
                     pending |-> pending_admin[i]]
    BY <2>1, RoleCases
  <2> QED BY <2>1, <2>3, <2>4 DEF Role!Claim
<1>9. ASSUME discard_admin(i, signer)
      PROVE  Role!Discard(i)
  <2>1. /\ check_admin(i, signer) /\ admin'[i] = None
        /\ UNCHANGED <<adapterVars, chain_config>>
    BY <1>9 DEF discard_admin
  <2>2. RoleOf(i)' = Role!Discarded
    BY <1>1, <1>4, <2>1, NextRoleCases DEF Role!Discarded
  <2>3. Role!Become(i, Role!Discarded)
    BY <1>3, <1>5, <2>1, <2>2, RoleBecomes
  <2> QED BY <1>4, <2>1, <2>3 DEF Role!Discard
<1>10. ASSUME check_admin(i, signer), UNCHANGED roleVars
       PROVE  Role!Configure(i)
  <2>1. RoleOf(i)' = RoleOf(i)
    BY <1>10, RoleUnchanged DEF roleVars
  <2>2. [j \in Integrators |-> RoleOf(j)']
          = [j \in Integrators |-> RoleOf(j)]
    BY <1>3, <2>1
  <2> DEFINE settings == [j \in Integrators |-> ConfigOf(j)]
             next     == [j \in Integrators |-> ConfigOf(j)']
  <2>3. next = [settings EXCEPT ![i] = next[i]]
    BY <1>2
  <2> QED BY <1>4, <1>10, <2>2, <2>3 DEF Role!Configure
<1>11. ASSUME NEW c \in ChainIds, NEW a \in Adapters,
              \/ enable_recv_adapter(i, signer, c, a)
              \/ enable_send_adapter(i, signer, c, a)
              \/ disable_recv_adapter(i, signer, c, a)
              \/ disable_send_adapter(i, signer, c, a)
       PROVE  Role!Configure(i)
  BY <1>10, <1>11 DEF enable_recv_adapter, enable_send_adapter, EnableAdapter,
    disable_recv_adapter, disable_send_adapter, DisableAdapter
<1>12. ASSUME NEW a \in Adapters, add_adapter(i, signer, a)
       PROVE  Role!Configure(i)
  BY <1>10, <1>12 DEF add_adapter
<1> QED
  BY <1>6, <1>7, <1>8, <1>9, <1>11, <1>12 DEF AdminInstruction, Role!Next

\* The admin instructions implement AdminRole with locked settings: one admin
\* at a time, no settings change during a transfer, and a discarded admin
\* never comes back.
THEOREM AdminRoleRefined == Spec => ImplementsAdminRole
<1>1. Init => Role!Init
  <2> SUFFICES ASSUME Init PROVE Role!Init
    OBVIOUS
  <2>1. \A i \in Integrators : RoleOf(i) = Role!Unregistered
    BY RoleCases DEF Init, ConfigInit, Role!Unregistered
  <2> QED BY <2>1 DEF Role!Init
<1>2. TypeOK /\ (\A i \in Integrators : AdapterInv(i)) /\ [Next]_vars
        => [Role!Next]_(Role!vars)
  <2> SUFFICES ASSUME TypeOK, \A i \in Integrators : AdapterInv(i),
                      [Next]_vars
               PROVE  [Role!Next]_(Role!vars)
    OBVIOUS
  <2>1. ASSUME NEW i \in Integrators, NEW u \in Users, register(i, u)
        PROVE  Role!Register(i)
    <3>1. /\ i \notin registered /\ registered' = registered \cup {i}
          /\ admin'[i] = u /\ u # None /\ pending_admin'[i] = None
      BY <2>1, ConfigAssumption
      DEF register, RegisterConfig, TypeOK, ConfigTypeOK
    <3>2. RoleOf(i) = Role!Unregistered
      BY <3>1, RoleCases DEF Role!Unregistered
    <3>3. RoleOf(i)' = Role!Owned(u)
      BY <3>1, NextRoleCases DEF Role!Owned
    <3>4. ASSUME NEW j \in Integrators, j # i
          PROVE  RoleOf(j)' = RoleOf(j) /\ ConfigOf(j)' = ConfigOf(j)
      BY <2>1, <3>1, <3>4, RegisterLeavesOthers, RoleUnchanged DEF TypeOK
    <3>5. ConfigOf(i)' = ConfigOf(i)
      <4>1. adapter_infos[i] = <<>>
        BY <3>1 DEF AdapterInv
      <4> QED
        BY <2>1, <4>1
        DEF register, RegisterConfig, ConfigOf, TypeOK, ConfigTypeOK
    <3>6. Role!Become(i, Role!Owned(u))
      BY <3>3, <3>4, <3>5, RoleBecomes
    <3> QED BY <3>2, <3>6 DEF Role!Register
  <2>2. CASE ConfigStep
    BY <2>2, AdminInstructionIsRoleStep DEF ConfigStep
  <2>3. CASE OutboxStep \/ InboxStep \/ UNCHANGED vars
    <3>1. UNCHANGED configVars
      BY <2>3 DEF OutboxStep, InboxStep, vars, configVars
    <3>2. \A i \in Integrators : RoleOf(i)' = RoleOf(i)
      BY <3>1, RoleUnchanged DEF configVars
    <3>3. \A i \in Integrators : ConfigOf(i)' = ConfigOf(i)
      BY <3>1 DEF configVars, ConfigOf
    <3> QED BY <3>2, <3>3 DEF Role!vars
  <2> QED
    BY <2>1, <2>2, <2>3 DEF Next, Role!Next
<1> QED
  BY <1>1, <1>2, TypeCorrect, AdapterInvariant, PTL
  DEF Spec, ImplementsAdminRole, Role!Spec

-----------------------------------------------------------------------------
(* The outbox.  Its inductive invariant. *)

\* The tracker is ahead of every message sent by its integrator, has handed
\* out every number below it, and none twice.
SentInv ==
  /\ \A i \in Integrators : sequence_tracker[i] # None =>
       sequence_tracker[i] <= MaxSequence
  /\ \A s \in sent : /\ sequence_tracker[s.src_addr] # None
                     /\ s.sequence < sequence_tracker[s.src_addr]
  /\ \A i \in Integrators : sequence_tracker[i] # None =>
       \A n \in 0 .. sequence_tracker[i] - 1 :
         \E s \in sent : s.src_addr = i /\ s.sequence = n
  /\ \A s, t \in sent :
       s.src_addr = t.src_addr /\ s.sequence = t.sequence => s = t

\* An account holds a message that was sent, and no other account holds it.
AccountInv ==
  /\ \A k \in OutboxKeys : outbox_message[k] # None =>
       \E s \in sent : Holds(k, s)
  /\ \A k, l \in OutboxKeys :
       outbox_message[k] # None /\ Holds(l, outbox_message[k]) => k = l

\* What was picked up was sent, and the adapter has an index with its sender.
PickUpInv ==
  \A p \in picked_up :
    /\ adapter_info[p.src_addr][p.adapter] # None
    /\ \E s \in sent : s.src_addr = p.src_addr /\ s.sequence = p.sequence

\* OutboxConservation for one message.
Conserved(s) ==
  \/ /\ PickedUpBy(s) = s.adapters
     /\ ~ \E k \in OutboxKeys : Holds(k, s)
  \/ \E k \in OutboxKeys :
       /\ Holds(k, s)
       /\ \A l \in OutboxKeys : Holds(l, s) => l = k
       /\ outbox_message[k].outstanding_adapters # {}
       /\ outbox_message[k].outstanding_adapters = s.adapters \ PickedUpBy(s)
       /\ PickedUpBy(s) \subseteq s.adapters

\* The inductive invariant of the outbox.
OutboxInv ==
  /\ SentInv
  /\ AccountInv
  /\ PickUpInv
  /\ \A s \in sent : Conserved(s)

\* Membership in PickedUpBy, in this state and the next.
LEMMA PickedUpByMember ==
  ASSUME NEW s, NEW index
  PROVE  index \in PickedUpBy(s) <=>
           \E p \in picked_up : /\ p.src_addr = s.src_addr
                                /\ p.sequence = s.sequence
                                /\ index = adapter_info[s.src_addr][p.adapter]
BY DEF PickedUpBy

\* The same in the next state.
LEMMA NextPickedUpByMember ==
  ASSUME NEW s, NEW index
  PROVE  index \in PickedUpBy(s)' <=>
           \E p \in picked_up' :
             /\ p.src_addr = s.src_addr
             /\ p.sequence = s.sequence
             /\ index = adapter_info'[s.src_addr][p.adapter]
BY DEF PickedUpBy

\* send_message gives its message the next number and a fresh account, and
\* nobody has picked it up.
LEMMA SendKeepsOutboxInv ==
  ASSUME TypeOK, OutboxInv, NEW i \in Integrators, NEW k \in OutboxKeys,
         NEW c \in ChainIds, send_message(i, k, c), UNCHANGED configVars
  PROVE  OutboxInv'
<1> DEFINE n       == sequence_tracker[i]
           enabled == chain_config[i][c].send_adapter_bitmap
           message == [src_addr |-> i, sequence |-> n, dst_chain |-> c,
                       outstanding_adapters |-> enabled]
           new     == [src_addr |-> i, sequence |-> n, adapters |-> enabled]
<1> USE DEF TypeOK, OutboxTypeOK
<1>1. /\ n \in Nat /\ n < MaxSequence
      /\ sequence_tracker' = [sequence_tracker EXCEPT ![i] = n + 1]
      /\ outbox_message' = [outbox_message EXCEPT ![k] = message]
      /\ sent' = sent \cup {new}
      /\ picked_up' = picked_up
      /\ adapter_info' = adapter_info
      /\ outbox_message[k] = None
      /\ enabled # {}
  BY DEF send_message, next_sequence, configVars
<1>2. message \in OutboxMessage /\ message # None
  BY <1>1, OutboxAssumption DEF ConfigTypeOK, ChainConfig, OutboxMessage
<1>3. /\ outbox_message'[k] = message
      /\ \A l \in OutboxKeys : l # k => outbox_message'[l] = outbox_message[l]
      /\ sequence_tracker'[i] = n + 1
      /\ \A j \in Integrators : j # i =>
           sequence_tracker'[j] = sequence_tracker[j]
  BY <1>1
<1>4. \A s \in sent : s.src_addr = i => s.sequence < n
  BY DEF OutboxInv, SentInv
<1>5. n + 1 # None
  BY <1>1, ConfigAssumption
<1>6. SentInv'
  <2>1. \A j \in Integrators : sequence_tracker'[j] # None =>
          sequence_tracker'[j] <= MaxSequence
    BY <1>1, <1>3, OutboxAssumption DEF OutboxInv, SentInv
  <2>2. \A s \in sent' : /\ sequence_tracker'[s.src_addr] # None
                         /\ s.sequence < sequence_tracker'[s.src_addr]
    <3>1. ASSUME NEW s \in sent
          PROVE  /\ sequence_tracker'[s.src_addr] # None
                 /\ s.sequence < sequence_tracker'[s.src_addr]
      <4>1. s.src_addr \in Integrators /\ s.sequence \in Nat
        BY DEF SentMessage
      <4>2. CASE s.src_addr = i
        BY <1>1, <1>3, <1>4, <1>5, <4>1, <4>2
      <4>3. CASE s.src_addr # i
        BY <1>3, <4>1, <4>3 DEF OutboxInv, SentInv
      <4> QED BY <4>2, <4>3
    <3> QED BY <1>1, <1>3, <1>5, <3>1
  <2>3. ASSUME NEW j \in Integrators, sequence_tracker'[j] # None,
               NEW x \in 0 .. sequence_tracker'[j] - 1
        PROVE  \E s \in sent' : s.src_addr = j /\ s.sequence = x
    <3>1. CASE j = i /\ x = n
      <4>1. new \in sent' /\ new.src_addr = j /\ new.sequence = x
        BY <1>1, <3>1
      <4> HIDE DEF new
      <4> QED BY <4>1
    <3>2. CASE j = i /\ x # n
      <4>1. n # None /\ x \in 0 .. n - 1
        BY <1>1, <1>3, <2>3, <3>2, ConfigAssumption
      <4> QED BY <1>1, <3>2, <4>1 DEF OutboxInv, SentInv
    <3>3. CASE j # i
      BY <1>1, <1>3, <2>3, <3>3 DEF OutboxInv, SentInv
    <3> QED BY <3>1, <3>2, <3>3
  <2>4. \A s, t \in sent' :
          s.src_addr = t.src_addr /\ s.sequence = t.sequence => s = t
    <3>1. \A s \in sent : ~(s.src_addr = new.src_addr
                            /\ s.sequence = new.sequence)
      BY <1>1, <1>4 DEF SentMessage
    <3> QED BY <1>1, <3>1 DEF OutboxInv, SentInv
  <2> QED BY <2>1, <2>2, <2>3, <2>4 DEF SentInv
<1>7. \A l \in OutboxKeys :
        ~(outbox_message[l] # None /\ outbox_message[l].src_addr = i
          /\ outbox_message[l].sequence = n)
  BY <1>1, <1>4 DEF OutboxInv, AccountInv, Holds, SentMessage
<1>8. AccountInv'
  <2>1. ASSUME NEW l \in OutboxKeys, outbox_message'[l] # None
        PROVE  \E s \in sent' : Holds(l, s)'
    <3>1. CASE l = k
      <4>1. PICK s \in sent' : s = new
        BY <1>1
      <4>2. Holds(l, s)'
        BY <1>2, <1>3, <3>1, <4>1 DEF Holds
      <4> QED BY <4>2
    <3>2. CASE l # k
      BY <1>1, <1>3, <2>1, <3>2 DEF Holds, OutboxInv, AccountInv
    <3> QED BY <3>1, <3>2
  <2>2. ASSUME NEW l \in OutboxKeys, NEW h \in OutboxKeys,
               outbox_message'[l] # None,
               outbox_message'[h] # None,
               outbox_message'[h].src_addr = outbox_message'[l].src_addr,
               outbox_message'[h].sequence = outbox_message'[l].sequence
        PROVE  l = h
    <3>1. CASE l = k /\ h # k
      BY <1>3, <1>7, <2>2, <3>1
    <3>2. CASE l # k /\ h = k
      BY <1>3, <1>7, <2>2, <3>2
    <3>3. CASE l # k /\ h # k
      BY <1>3, <2>2, <3>3 DEF OutboxInv, AccountInv, Holds
    <3> QED BY <3>1, <3>2, <3>3
  <2> QED BY <2>1, <2>2 DEF AccountInv, Holds
<1>9. PickUpInv'
  BY <1>1 DEF OutboxInv, PickUpInv
<1>10. ASSUME NEW s \in sent' PROVE Conserved(s)'
  <2>1. PickedUpBy(s)' = PickedUpBy(s)
    BY <1>1 DEF PickedUpBy
  <2>2. CASE s = new
    <3>1. PickedUpBy(s) = {}
      <4> SUFFICES ASSUME NEW p \in picked_up, p.src_addr = i, p.sequence = n
                   PROVE  FALSE
        BY <2>2 DEF PickedUpBy
      <4> QED BY <1>1, <1>4 DEF OutboxInv, PickUpInv, SentMessage
    <3>2. Holds(k, s)'
      BY <1>2, <1>3, <2>2 DEF Holds
    <3>3. \A l \in OutboxKeys : Holds(l, s)' => l = k
      BY <1>3, <1>7, <2>2 DEF Holds
    <3>4. outbox_message'[k].outstanding_adapters = enabled
          /\ s.adapters = enabled
      BY <1>3, <2>2
    <3> QED BY <1>1, <2>1, <3>1, <3>2, <3>3, <3>4 DEF Conserved
  <2>3. CASE s \in sent
    <3>1. ~Holds(k, s) /\ ~Holds(k, s)'
      BY <1>1, <1>3, <1>4, <2>3 DEF Holds, SentMessage
    <3>2. \A l \in OutboxKeys : l # k =>
            /\ outbox_message'[l] = outbox_message[l]
            /\ Holds(l, s)' <=> Holds(l, s)
      BY <1>3 DEF Holds
    <3>3. Conserved(s)
      BY <2>3 DEF OutboxInv
    <3> QED BY <2>1, <3>1, <3>2, <3>3 DEF Conserved
  <2> QED BY <1>1, <1>10, <2>2, <2>3
<1> QED BY <1>6, <1>8, <1>9, <1>10 DEF OutboxInv

\* What pick_up_message does to the accounts: it clears one bit, and closes
\* the account with the last one.
LEMMA PickUpClearsBit ==
  ASSUME TypeOK, NEW k \in OutboxKeys, NEW a \in Adapters,
         pick_up_message(k, a)
  PROVE  LET message == outbox_message[k]
             index   == adapter_info[message.src_addr][a]
             left    == message.outstanding_adapters \ {index}
         IN
         /\ message # None /\ index # None
         /\ index \in message.outstanding_adapters
         /\ \A l \in OutboxKeys :
              l # k => outbox_message'[l] = outbox_message[l]
         /\ left = {} => outbox_message'[k] = None
         /\ left # {} =>
              /\ outbox_message'[k] # None
              /\ outbox_message'[k].src_addr = message.src_addr
              /\ outbox_message'[k].sequence = message.sequence
              /\ outbox_message'[k].outstanding_adapters = left
<1> DEFINE message == outbox_message[k]
           index   == adapter_info[message.src_addr][a]
           left    == message.outstanding_adapters \ {index}
           updated == [message EXCEPT !.outstanding_adapters = left]
<1> USE DEF TypeOK, OutboxTypeOK
<1>1. /\ message # None /\ index # None
      /\ index \in message.outstanding_adapters
      /\ outbox_message' = [outbox_message EXCEPT ![k] = CloseIfEmpty(
           [message EXCEPT !.outstanding_adapters =
                             BitmapSet(@, index, FALSE)])]
  BY DEF pick_up_message, AdapterIndex, BitmapGet
<1>2. message \in OutboxMessage
  BY <1>1
<1>3. \A l \in OutboxKeys : l # k => outbox_message'[l] = outbox_message[l]
  BY <1>1
<1>4. outbox_message'[k] = CloseIfEmpty(updated)
  BY <1>1, <1>2 DEF BitmapSet
<1>5. /\ updated \in OutboxMessage
      /\ updated.src_addr = message.src_addr
      /\ updated.sequence = message.sequence
      /\ updated.outstanding_adapters = left
  BY <1>2 DEF OutboxMessage
<1>6. updated # None
  BY <1>5, OutboxAssumption
<1> HIDE DEF updated
<1> QED BY <1>1, <1>3, <1>4, <1>5, <1>6 DEF CloseIfEmpty

\* pick_up_message moves one bit from the account to the pick-ups of its
\* message, and closes the account with the last one.
LEMMA PickUpKeepsOutboxInv ==
  ASSUME TypeOK, OutboxInv, NEW k \in OutboxKeys, NEW a \in Adapters,
         pick_up_message(k, a), UNCHANGED configVars
  PROVE  OutboxInv'
<1> DEFINE message == outbox_message[k]
           index   == adapter_info[message.src_addr][a]
           left    == message.outstanding_adapters \ {index}
           taken   == [src_addr |-> message.src_addr,
                       sequence |-> message.sequence, adapter |-> a]
<1> USE DEF TypeOK, OutboxTypeOK
<1>1. /\ message # None /\ index # None
      /\ index \in message.outstanding_adapters
      /\ picked_up' = picked_up \cup {taken}
      /\ UNCHANGED <<sequence_tracker, sent, adapter_info>>
  BY DEF pick_up_message, AdapterIndex, BitmapGet, configVars
<1>2. message \in OutboxMessage
  BY <1>1
<1>3. \A l \in OutboxKeys : l # k => outbox_message'[l] = outbox_message[l]
  BY PickUpClearsBit
<1>4. /\ left = {} => outbox_message'[k] = None
      /\ left # {} =>
           /\ outbox_message'[k] # None
           /\ outbox_message'[k].src_addr = message.src_addr
           /\ outbox_message'[k].sequence = message.sequence
           /\ outbox_message'[k].outstanding_adapters = left
  BY PickUpClearsBit
<1>5. SentInv'
  BY <1>1 DEF OutboxInv, SentInv
<1>6. \A s \in sent : Holds(k, s)' <=> Holds(k, s) /\ left # {}
  BY <1>1, <1>4 DEF Holds
<1>7. \A s \in sent, l \in OutboxKeys : l # k => (Holds(l, s)' <=> Holds(l, s))
  BY <1>3 DEF Holds
<1>8. AccountInv'
  <2>1. ASSUME NEW l \in OutboxKeys, outbox_message'[l] # None
        PROVE  \E s \in sent' : Holds(l, s)'
    <3>1. outbox_message[l] # None /\ (l = k => left # {})
      BY <1>1, <1>3, <1>4, <2>1
    <3>2. PICK s \in sent : Holds(l, s)
      BY <3>1 DEF OutboxInv, AccountInv
    <3>3. Holds(l, s)'
      BY <1>6, <1>7, <3>1, <3>2
    <3> QED BY <1>1, <3>3
  <2>2. ASSUME NEW l \in OutboxKeys, NEW h \in OutboxKeys,
               outbox_message'[l] # None,
               outbox_message'[h] # None,
               outbox_message'[h].src_addr = outbox_message'[l].src_addr,
               outbox_message'[h].sequence = outbox_message'[l].sequence
        PROVE  l = h
    <3>1. \A x \in OutboxKeys : outbox_message'[x] # None =>
            /\ outbox_message[x] # None
            /\ outbox_message[x].src_addr = outbox_message'[x].src_addr
            /\ outbox_message[x].sequence = outbox_message'[x].sequence
      BY <1>1, <1>3, <1>4
    <3> QED BY <2>2, <3>1 DEF OutboxInv, AccountInv, Holds
  <2> QED BY <2>1, <2>2 DEF AccountInv, Holds
<1>9. PICK held \in sent : Holds(k, held)
  BY <1>1 DEF OutboxInv, AccountInv
<1>10. PickUpInv'
  BY <1>1, <1>9 DEF OutboxInv, PickUpInv, Holds
<1>11. ASSUME NEW s \in sent PROVE Conserved(s)'
  <2>1. taken \in picked_up' /\ taken.src_addr = message.src_addr
        /\ taken.sequence = message.sequence /\ taken.adapter = a
    BY <1>1
  <2>2. CASE Holds(k, s)
    <3>1. s.src_addr = message.src_addr /\ s.sequence = message.sequence
      BY <2>2 DEF Holds
    <3>2. PickedUpBy(s)' = PickedUpBy(s) \cup {index}
      <4> SUFFICES ASSUME NEW x
                   PROVE  x \in PickedUpBy(s)' <=>
                            x \in PickedUpBy(s) \/ x = index
        OBVIOUS
      <4> HIDE DEF taken
      <4> QED
        BY <1>1, <2>1, <3>1, PickedUpByMember, NextPickedUpByMember
    <3>3. /\ \A l \in OutboxKeys : Holds(l, s) => l = k
          /\ message.outstanding_adapters = s.adapters \ PickedUpBy(s)
          /\ PickedUpBy(s) \subseteq s.adapters
      BY <1>11, <2>2 DEF OutboxInv, Conserved
    <3>4. index \in s.adapters
      BY <1>1, <3>3
    <3>5. CASE left = {}
      <4>1. PickedUpBy(s)' = s.adapters
        BY <3>2, <3>3, <3>4, <3>5
      <4>2. ~ \E l \in OutboxKeys : Holds(l, s)'
        BY <1>6, <1>7, <1>11, <3>3, <3>5
      <4> QED BY <4>1, <4>2 DEF Conserved
    <3>6. CASE left # {}
      <4>1. Holds(k, s)'
        BY <1>6, <1>11, <2>2, <3>6
      <4>2. \A l \in OutboxKeys : Holds(l, s)' => l = k
        BY <1>6, <1>7, <1>11, <3>3
      <4>3. outbox_message'[k].outstanding_adapters = left
        BY <1>4, <3>6
      <4>4. left = s.adapters \ PickedUpBy(s)'
        BY <3>2, <3>3
      <4>5. PickedUpBy(s)' \subseteq s.adapters
        BY <3>2, <3>3, <3>4
      <4> QED BY <3>6, <4>1, <4>2, <4>3, <4>4, <4>5 DEF Conserved
    <3> QED BY <3>5, <3>6
  <2>3. CASE ~Holds(k, s)
    <3>1. ~(s.src_addr = message.src_addr /\ s.sequence = message.sequence)
      BY <1>1, <2>3 DEF Holds
    <3>2. PickedUpBy(s)' = PickedUpBy(s)
      <4> SUFFICES ASSUME NEW x
                   PROVE  x \in PickedUpBy(s)' <=> x \in PickedUpBy(s)
        OBVIOUS
      <4> HIDE DEF taken
      <4> QED
        BY <1>1, <2>1, <3>1, PickedUpByMember, NextPickedUpByMember
    <3>3. Conserved(s)
      BY <1>11 DEF OutboxInv
    <3>4. \A l \in OutboxKeys : /\ Holds(l, s)' <=> Holds(l, s)
                                /\ Holds(l, s) =>
                                     outbox_message'[l] = outbox_message[l]
      BY <1>3, <1>6, <1>7, <1>11, <2>3
    <3> QED BY <3>2, <3>3, <3>4 DEF Conserved
  <2> QED BY <2>2, <2>3
<1> QED BY <1>1, <1>5, <1>8, <1>10, <1>11 DEF OutboxInv

\* The other instructions leave the outbox alone but for the new tracker of a
\* registration, and adapters keep the indices the pick-ups refer to.
LEMMA OthersKeepOutboxInv ==
  ASSUME TypeOK, OutboxInv, \A i \in Integrators : AppendsOnly(i),
         \/ UNCHANGED outboxVars
         \/ \E i \in Integrators : RegisterTracker(i)
  PROVE  OutboxInv'
<1> USE DEF TypeOK, OutboxTypeOK
<1>1. UNCHANGED <<outbox_message, sent, picked_up>>
  BY DEF outboxVars, RegisterTracker
<1>2. SentInv'
  <2>1. CASE UNCHANGED outboxVars
    BY <2>1 DEF outboxVars, OutboxInv, SentInv
  <2>2. ASSUME NEW i \in Integrators, RegisterTracker(i)
        PROVE  SentInv'
    <3>1. /\ sequence_tracker[i] = None
          /\ sequence_tracker' = [sequence_tracker EXCEPT ![i] = 0]
          /\ UNCHANGED sent
      BY <2>2 DEF RegisterTracker
    <3>2. sequence_tracker'[i] = 0 /\ 0 # None
      BY <3>1, ConfigAssumption
    <3>3. \A j \in Integrators : j # i =>
            sequence_tracker'[j] = sequence_tracker[j]
      BY <3>1
    <3>4. \A s \in sent : s.src_addr \in Integrators /\ s.src_addr # i
      BY <3>1 DEF OutboxInv, SentInv, SentMessage
    <3>5. \A j \in Integrators : sequence_tracker'[j] # None =>
            sequence_tracker'[j] <= MaxSequence
      BY <3>2, <3>3, OutboxAssumption DEF OutboxInv, SentInv
    <3>6. \A s \in sent : /\ sequence_tracker'[s.src_addr] # None
                          /\ s.sequence < sequence_tracker'[s.src_addr]
      BY <3>3, <3>4 DEF OutboxInv, SentInv
    <3>7. \A j \in Integrators : sequence_tracker'[j] # None =>
            \A n \in 0 .. sequence_tracker'[j] - 1 :
              \E s \in sent : s.src_addr = j /\ s.sequence = n
      BY <3>2, <3>3 DEF OutboxInv, SentInv
    <3> QED BY <3>1, <3>5, <3>6, <3>7 DEF OutboxInv, SentInv
  <2> QED BY <2>1, <2>2
<1>3. AccountInv'
  BY <1>1 DEF OutboxInv, AccountInv, Holds
<1>4. \A p \in picked_up :
        /\ adapter_info[p.src_addr][p.adapter] # None
        /\ adapter_info'[p.src_addr][p.adapter]
             = adapter_info[p.src_addr][p.adapter]
  BY DEF OutboxInv, PickUpInv, AppendsOnly, PickUp
<1>5. PickUpInv'
  BY <1>1, <1>4 DEF OutboxInv, PickUpInv
<1>6. ASSUME NEW s \in sent PROVE Conserved(s)'
  <2>1. PickedUpBy(s)' = PickedUpBy(s)
    <3> SUFFICES ASSUME NEW x
                 PROVE  x \in PickedUpBy(s)' <=> x \in PickedUpBy(s)
      OBVIOUS
    <3> QED BY <1>1, <1>4, PickedUpByMember, NextPickedUpByMember
  <2> QED BY <1>1, <1>6, <2>1 DEF OutboxInv, Conserved, Holds
<1> QED BY <1>1, <1>2, <1>3, <1>5, <1>6 DEF OutboxInv

\* The inductive invariant holds in every reachable state.
LEMMA OutboxInvariant == Spec => []OutboxInv
<1>1. Init => OutboxInv
  BY DEF Init, OutboxInit, OutboxInv, SentInv, AccountInv, PickUpInv
<1>2. TypeOK /\ OutboxInv /\ (\A i \in Integrators : AdapterInv(i))
        /\ [Next]_vars => OutboxInv'
  <2> SUFFICES ASSUME TypeOK, OutboxInv, \A i \in Integrators : AdapterInv(i),
                      [Next]_vars
               PROVE  OutboxInv'
    OBVIOUS
  <2>1. \A i \in Integrators : AppendsOnly(i)
    BY StepAppendsOnly
  <2>2. CASE OutboxStep
    BY <2>2, SendKeepsOutboxInv, PickUpKeepsOutboxInv DEF OutboxStep
  <2>3. CASE ConfigStep \/ InboxStep \/ UNCHANGED vars
    <3>1. UNCHANGED outboxVars
      BY <2>3 DEF ConfigStep, InboxStep, vars, outboxVars
    <3> QED BY <2>1, <3>1, OthersKeepOutboxInv
  <2>4. CASE \E i \in Integrators, u \in Users : register(i, u)
    BY <2>1, <2>4, OthersKeepOutboxInv DEF register
  <2> QED BY <2>2, <2>3, <2>4 DEF Next
<1> QED
  BY <1>1, <1>2, TypeCorrect, AdapterInvariant, PTL DEF Spec

\* An integrator's messages are numbered 0, 1, 2, ... without a gap or a
\* repetition, and every account holds one of them.
THEOREM SequencesAreDense == Spec => []SequencesDense
<1>1. TypeOK /\ OutboxInv => SequencesDense
  <2> SUFFICES ASSUME TypeOK, OutboxInv, NEW i \in Integrators,
                      sequence_tracker[i] # None
               PROVE  {s.sequence : s \in {t \in sent : t.src_addr = i}}
                        = 0 .. sequence_tracker[i] - 1
    BY DEF SequencesDense, OutboxInv, SentInv, AccountInv
  <2>1. sequence_tracker[i] \in Nat
    BY DEF TypeOK, OutboxTypeOK
  <2>2. ASSUME NEW s \in sent, s.src_addr = i
        PROVE  s.sequence \in 0 .. sequence_tracker[i] - 1
    BY <2>1, <2>2
    DEF OutboxInv, SentInv, TypeOK, OutboxTypeOK, SentMessage
  <2>3. ASSUME NEW n \in 0 .. sequence_tracker[i] - 1
        PROVE  \E s \in {t \in sent : t.src_addr = i} : n = s.sequence
    BY <2>3 DEF OutboxInv, SentInv
  <2> QED BY <2>2, <2>3
<1> QED
  BY <1>1, TypeCorrect, OutboxInvariant, PTL

\* Every adapter enabled when a message was sent either has picked it up or
\* still finds its bit in the message's only account, never both.
THEOREM OutboxIsConserved == Spec => []OutboxConservation
<1>1. OutboxInv => OutboxConservation
  BY DEF OutboxInv, Conserved, OutboxConservation
<1> QED
  BY <1>1, OutboxInvariant, PTL

-----------------------------------------------------------------------------
(* The outbox implements Outbox. *)

\* A function on 1 .. n is a sequence of length n.
LEMMA FunctionIsSeq ==
  ASSUME NEW S, NEW n \in Nat, NEW f \in [1 .. n -> S]
  PROVE  f \in Seq(S) /\ Len(f) = n
BY SeqDef

\* A sequence that continues another by one element.
LEMMA AppendOfPrefix ==
  ASSUME NEW S, NEW n \in Nat, NEW f \in [1 .. n -> S],
         NEW g \in [1 .. n + 1 -> S], \A m \in 1 .. n : g[m] = f[m]
  PROVE  g = Append(f, g[n + 1])
<1>1. f \in Seq(S) /\ Len(f) = n /\ g \in Seq(S) /\ Len(g) = n + 1
  BY FunctionIsSeq
<1>2. g[n + 1] \in S
  OBVIOUS
<1>3. Append(f, g[n + 1]) \in Seq(S) /\ Len(Append(f, g[n + 1])) = n + 1
  BY <1>1, <1>2
<1>4. \A m \in 1 .. n + 1 : Append(f, g[n + 1])[m] = g[m]
  BY <1>1, <1>2
<1> QED BY <1>1, <1>3, <1>4, SeqEqual

\* What the message of integrator i with sequence n still waits for.
Waiting(i, n) ==
  UNION {outbox_message[k].outstanding_adapters :
           k \in {l \in OutboxKeys : /\ outbox_message[l] # None
                                     /\ outbox_message[l].src_addr = i
                                     /\ outbox_message[l].sequence = n}}

\* The number of messages integrator i has sent.
Count(i) == IF sequence_tracker[i] = None THEN 0 ELSE sequence_tracker[i]

\* Membership in Waiting.
LEMMA WaitingMember ==
  ASSUME NEW i, NEW n, NEW x
  PROVE  x \in Waiting(i, n) <=>
           \E k \in OutboxKeys :
             /\ outbox_message[k] # None
             /\ outbox_message[k].src_addr = i
             /\ outbox_message[k].sequence = n
             /\ x \in outbox_message[k].outstanding_adapters
BY DEF Waiting

\* The same in the next state.
LEMMA NextWaitingMember ==
  ASSUME NEW i, NEW n, NEW x
  PROVE  x \in Waiting(i, n)' <=>
           \E k \in OutboxKeys :
             /\ outbox_message'[k] # None
             /\ outbox_message'[k].src_addr = i
             /\ outbox_message'[k].sequence = n
             /\ x \in outbox_message'[k].outstanding_adapters
BY DEF Waiting

\* The queue of the refinement mapping, by the tracker instead of the number
\* of messages in the history.
QueueForm(i) ==
  /\ Count(i) \in Nat
  /\ \A n \in Nat : Waiting(i, n) \subseteq Index
  /\ QueueOf(i) = [n \in 1 .. Count(i) |-> Waiting(i, n - 1)]

\* Sequences being dense, the tracker counts the messages.
LEMMA TrackerCountsSent ==
  ASSUME TypeOK, OutboxInv, NEW i \in Integrators
  PROVE  Cardinality({s \in sent : s.src_addr = i}) = Count(i)
<1> DEFINE mine == {s \in sent : s.src_addr = i}
<1>1. CASE sequence_tracker[i] = None
  <2>1. mine = {}
    BY <1>1 DEF OutboxInv, SentInv
  <2> QED BY <1>1, <2>1, FS_EmptySet DEF Count
<1>2. CASE sequence_tracker[i] # None
  <2> DEFINE n == sequence_tracker[i]
             f == [m \in 0 .. n - 1 |-> CHOOSE s \in mine : s.sequence = m]
  <2>1. n \in Nat /\ Count(i) = n
    BY <1>2 DEF TypeOK, OutboxTypeOK, Count
  <2>2. \A m \in 0 .. n - 1 : \E s \in mine : s.sequence = m
    BY <1>2 DEF OutboxInv, SentInv
  <2>3. \A m \in 0 .. n - 1 : f[m] \in mine /\ f[m].sequence = m
    BY <2>2
  <2>4. \A s \in mine : s.sequence \in 0 .. n - 1
    BY <2>1 DEF OutboxInv, SentInv, TypeOK, OutboxTypeOK, SentMessage
  <2>5. \A s, t \in mine : s.sequence = t.sequence => s = t
    BY DEF OutboxInv, SentInv
  <2>6. f \in [0 .. n - 1 -> mine]
    BY <2>3
  <2> HIDE DEF f, mine
  <2>7. f \in Injection(0 .. n - 1, mine)
    BY <2>3, <2>6 DEF Injection, IsInjective
  <2>8. f \in Surjection(0 .. n - 1, mine)
    BY <2>3, <2>4, <2>5, <2>6 DEF Surjection
  <2>9. ExistsBijection(0 .. n - 1, mine)
    BY <2>7, <2>8 DEF ExistsBijection, Bijection
  <2>10. IsFiniteSet(0 .. n - 1) /\ Cardinality(0 .. n - 1) = n
    <3>1. n \in Nat /\ 0 \in Int /\ n - 1 \in Int
      BY <2>1
    <3>2. Cardinality(0 .. n - 1) = IF 0 > n - 1 THEN 0 ELSE (n - 1) - 0 + 1
      BY <3>1, FS_Interval
    <3>3. IsFiniteSet(0 .. n - 1)
      BY <3>1, FS_Interval
    <3> HIDE DEF n
    <3> QED BY <3>1, <3>2, <3>3
  <2>11. Cardinality(mine) = n
    BY <2>9, <2>10, FS_Bijection
  <2> QED BY <2>1, <2>11 DEF mine
<1> QED BY <1>1, <1>2

\* QueueForm holds in every reachable state.
LEMMA QueueFormInvariant == Spec => [](\A i \in Integrators : QueueForm(i))
<1>1. TypeOK /\ OutboxInv => \A i \in Integrators : QueueForm(i)
  <2> SUFFICES ASSUME TypeOK, OutboxInv, NEW i \in Integrators
               PROVE  QueueForm(i)
    OBVIOUS
  <2>1. Count(i) \in Nat
    BY DEF TypeOK, OutboxTypeOK, Count
  <2>2. ASSUME NEW n, NEW x \in Waiting(i, n) PROVE x \in Index
    BY <2>2, WaitingMember DEF TypeOK, OutboxTypeOK, OutboxMessage
  <2>3. QueueOf(i) = [n \in 1 .. Count(i) |-> Waiting(i, n - 1)]
    <3>1. QueueOf(i) = [n \in 1 .. Cardinality({s \in sent : s.src_addr = i})
                          |-> Waiting(i, n - 1)]
      BY DEF QueueOf, Waiting
    <3> QED BY <3>1, TrackerCountsSent
  <2> QED BY <2>1, <2>2, <2>3 DEF QueueForm
<1> QED
  BY <1>1, TypeCorrect, OutboxInvariant, PTL

\* A step that changes the queue of one integrator.
LEMMA QueueChanges ==
  ASSUME \A j \in Integrators : QueueForm(j) /\ QueueForm(j)',
         NEW i \in Integrators,
         \A j \in Integrators : j # i =>
           /\ Count(j)' = Count(j)
           /\ \A n \in Nat : Waiting(j, n)' = Waiting(j, n)
  PROVE  \A j \in Integrators : j # i => QueueOf(j)' = QueueOf(j)
<1> SUFFICES ASSUME NEW j \in Integrators, j # i
             PROVE  QueueOf(j)' = QueueOf(j)
  OBVIOUS
<1>1. /\ QueueOf(j) = [n \in 1 .. Count(j) |-> Waiting(j, n - 1)]
      /\ QueueOf(j)' = [n \in 1 .. Count(j)' |-> Waiting(j, n - 1)']
      /\ Count(j) \in Nat
  BY DEF QueueForm
<1>2. Count(j)' = Count(j)
  OBVIOUS
<1>3. \A n \in 1 .. Count(j) : Waiting(j, n - 1)' = Waiting(j, n - 1)
  BY <1>1
<1> QED BY <1>1, <1>2, <1>3

\* send_message appends the adapters enabled for the chain.
LEMMA SendIsSend ==
  ASSUME TypeOK, OutboxInv,
         \A j \in Integrators : QueueForm(j) /\ QueueForm(j)',
         NEW i \in Integrators, NEW k \in OutboxKeys, NEW c \in ChainIds,
         send_message(i, k, c)
  PROVE  Out!Send(i)
<1> DEFINE count   == sequence_tracker[i]
           enabled == chain_config[i][c].send_adapter_bitmap
           message == [src_addr |-> i, sequence |-> count, dst_chain |-> c,
                       outstanding_adapters |-> enabled]
<1> USE DEF TypeOK, OutboxTypeOK
<1>1. /\ count \in Nat /\ count < MaxSequence
      /\ sequence_tracker' = [sequence_tracker EXCEPT ![i] = count + 1]
      /\ outbox_message' = [outbox_message EXCEPT ![k] = message]
      /\ outbox_message[k] = None
      /\ enabled # {}
  BY DEF send_message, next_sequence
<1>2. message # None /\ enabled \in SUBSET Index
  BY <1>1, OutboxAssumption DEF ConfigTypeOK, ChainConfig, OutboxMessage
<1>3. /\ Count(i) = count /\ Count(i)' = count + 1
      /\ \A j \in Integrators : j # i => Count(j)' = Count(j)
  BY <1>1, ConfigAssumption DEF Count
<1>4. /\ outbox_message'[k] = message
      /\ \A l \in OutboxKeys : l # k => outbox_message'[l] = outbox_message[l]
  BY <1>1
<1>5. ASSUME NEW j, NEW n, ~(j = i /\ n = count)
      PROVE  Waiting(j, n)' = Waiting(j, n)
  <2> SUFFICES ASSUME NEW x
               PROVE  x \in Waiting(j, n)' <=> x \in Waiting(j, n)
    OBVIOUS
  <2> QED
    BY <1>1, <1>4, <1>5, WaitingMember, NextWaitingMember
<1>6. ASSUME NEW n, n = count PROVE Waiting(i, n)' = enabled
  <2>1. \A l \in OutboxKeys : l # k =>
          ~(outbox_message[l] # None /\ outbox_message[l].src_addr = i
            /\ outbox_message[l].sequence = n)
    <3> SUFFICES ASSUME NEW l \in OutboxKeys, outbox_message[l] # None,
                        outbox_message[l].src_addr = i,
                        outbox_message[l].sequence = count
                 PROVE  FALSE
      BY <1>6
    <3>1. PICK s \in sent : s.src_addr = i /\ s.sequence = count
      BY DEF OutboxInv, AccountInv, Holds
    <3> QED BY <1>1, <3>1 DEF OutboxInv, SentInv
  <2> SUFFICES ASSUME NEW x
               PROVE  x \in Waiting(i, n)' <=> x \in enabled
    OBVIOUS
  <2> QED BY <1>2, <1>4, <1>6, <2>1, NextWaitingMember
<1>7. \A j \in Integrators : j # i => QueueOf(j)' = QueueOf(j)
  BY <1>3, <1>5, QueueChanges
<1>8. QueueOf(i)' = Append(QueueOf(i), enabled)
  <2> DEFINE f == QueueOf(i)
             g == QueueOf(i)'
  <2>1. /\ f = [n \in 1 .. count |-> Waiting(i, n - 1)]
        /\ g = [n \in 1 .. count + 1 |-> Waiting(i, n - 1)']
    BY <1>3 DEF QueueForm
  <2>2. /\ \A n \in Nat : Waiting(i, n) \in SUBSET Index
        /\ \A n \in Nat : Waiting(i, n)' \in SUBSET Index
    BY DEF QueueForm
  <2>3. \A n \in 1 .. count + 1 : n - 1 \in Nat
    BY <1>1
  <2>4. /\ f \in [1 .. count -> SUBSET Index]
        /\ g \in [1 .. count + 1 -> SUBSET Index]
    BY <1>1, <2>1, <2>2, <2>3
  <2>5. \A n \in 1 .. count : g[n] = f[n]
    BY <1>1, <1>5, <2>1
  <2>6. g[count + 1] = enabled
    <3>1. PICK n : n = count + 1
      OBVIOUS
    <3>2. n - 1 = count /\ n \in 1 .. count + 1
      BY <1>1, <3>1
    <3>3. g[n] = Waiting(i, n - 1)'
      BY <2>1, <3>2
    <3> QED BY <1>6, <3>1, <3>2, <3>3
  <2> HIDE DEF f, g
  <2> QED BY <1>1, <2>4, <2>5, <2>6, AppendOfPrefix DEF f, g
<1>9. Len(QueueOf(i)) < MaxSequence
  <2>1. QueueOf(i) \in [1 .. count -> SUBSET Index]
    BY <1>1, <1>3 DEF QueueForm
  <2> QED BY <1>1, <2>1, FunctionIsSeq
<1>10. [j \in Integrators |-> QueueOf(j)']
         = [[j \in Integrators |-> QueueOf(j)]
              EXCEPT ![i] = Append(QueueOf(i), enabled)]
  BY <1>7, <1>8
<1> QED
  BY <1>1, <1>2, <1>9, <1>10 DEF Out!Send

\* pick_up_message is the adapter at the index taking the message.
LEMMA PickUpIsTake ==
  ASSUME TypeOK, OutboxInv,
         \A j \in Integrators : QueueForm(j) /\ QueueForm(j)',
         NEW k \in OutboxKeys, NEW a \in Adapters,
         pick_up_message(k, a)
  PROVE  Out!Next
<1> DEFINE message == outbox_message[k]
           index   == adapter_info[message.src_addr][a]
<1> USE DEF TypeOK, OutboxTypeOK
<1>1. /\ message # None
      /\ index \in message.outstanding_adapters
      /\ UNCHANGED sequence_tracker
  BY PickUpClearsBit DEF pick_up_message
<1>2. message \in OutboxMessage
  BY <1>1
<1>3. PICK i \in Integrators, m \in Nat, v \in Index :
        i = message.src_addr /\ m = message.sequence /\ v = index
  BY <1>1, <1>2 DEF OutboxMessage
<1>4. \A j \in Integrators : Count(j)' = Count(j)
  BY <1>1 DEF Count
<1>5. ASSUME NEW j, NEW n, ~(j = i /\ n = m)
      PROVE  Waiting(j, n)' = Waiting(j, n)
  <2> SUFFICES ASSUME NEW x
               PROVE  x \in Waiting(j, n)' <=> x \in Waiting(j, n)
    OBVIOUS
  <2> QED
    BY <1>3, <1>5, PickUpClearsBit, WaitingMember, NextWaitingMember
<1>6. /\ Waiting(i, m) = message.outstanding_adapters
      /\ Waiting(i, m)' = message.outstanding_adapters \ {v}
  <2>1. \A l \in OutboxKeys : l # k =>
          ~(outbox_message[l] # None /\ outbox_message[l].src_addr = i
            /\ outbox_message[l].sequence = m)
    BY <1>1, <1>3 DEF OutboxInv, AccountInv, Holds
  <2>2. ASSUME NEW x
        PROVE  x \in Waiting(i, m) <=> x \in message.outstanding_adapters
    BY <1>1, <1>3, <2>1, WaitingMember
  <2>3. ASSUME NEW x
        PROVE  x \in Waiting(i, m)' <=>
                 x \in message.outstanding_adapters \ {v}
    BY <1>3, <2>1, PickUpClearsBit, NextWaitingMember
  <2> QED BY <2>2, <2>3
<1>7. m < Count(i) /\ Count(i) \in Nat /\ Count(i) <= MaxSequence
  <2>1. PICK s \in sent : s.src_addr = i /\ s.sequence = m
    BY <1>1, <1>3 DEF OutboxInv, AccountInv, Holds
  <2> QED BY <1>3, <2>1 DEF OutboxInv, SentInv, Count
<1>8. PICK n \in 1 .. Count(i) : n = m + 1
  BY <1>3, <1>7
<1>9. /\ QueueOf(i) = [x \in 1 .. Count(i) |-> Waiting(i, x - 1)]
      /\ QueueOf(i)' = [x \in 1 .. Count(i) |-> Waiting(i, x - 1)']
  BY <1>4 DEF QueueForm
<1>10. n - 1 = m /\ \A x \in 1 .. Count(i) : x # n => x - 1 # m
  BY <1>7, <1>8
<1>11. /\ QueueOf(i)[n] = Waiting(i, m)
       /\ QueueOf(i)'[n] = Waiting(i, m)'
       /\ \A x \in 1 .. Count(i) : x # n => QueueOf(i)'[x] = QueueOf(i)[x]
  BY <1>5, <1>9, <1>10
<1>12. QueueOf(i)' = [QueueOf(i) EXCEPT ![n] = @ \ {v}]
  BY <1>6, <1>9, <1>11
<1>13. Len(QueueOf(i)) = Count(i)
  <2>1. QueueOf(i) \in [1 .. Count(i) -> SUBSET Index]
    BY <1>7, <1>9 DEF QueueForm
  <2> QED BY <1>7, <2>1, FunctionIsSeq
<1>14. \A j \in Integrators : j # i => QueueOf(j)' = QueueOf(j)
  BY <1>4, <1>5, QueueChanges
<1>15. [j \in Integrators |-> QueueOf(j)']
         = [[j \in Integrators |-> QueueOf(j)] EXCEPT ![i][n] = @ \ {v}]
  BY <1>12, <1>14
<1>16. Out!Take(i, n, v)
  BY <1>1, <1>3, <1>6, <1>11, <1>13, <1>15 DEF Out!Take
<1>17. n \in 1 .. MaxSequence
  BY <1>7, OutboxAssumption
<1> QED BY <1>16, <1>17 DEF Out!Next

\* No other instruction changes a queue: a registered integrator starts with
\* an empty one.
LEMMA OthersKeepQueues ==
  ASSUME \A j \in Integrators : QueueForm(j) /\ QueueForm(j)',
         \/ UNCHANGED outboxVars
         \/ \E i \in Integrators : RegisterTracker(i)
  PROVE  \A j \in Integrators : QueueOf(j)' = QueueOf(j)
<1>1. UNCHANGED <<outbox_message, sent>>
  BY DEF outboxVars, RegisterTracker
<1> QED BY <1>1 DEF QueueOf

\* send_message and pick_up_message implement Outbox, whatever keys are used
\* again for closed accounts.
THEOREM OutboxRefined == Spec => Out!Spec
<1> DEFINE Forms == \A i \in Integrators : QueueForm(i)
           queues == [i \in Integrators |-> QueueOf(i)]
<1>1. Init => Out!Init
  <2> SUFFICES ASSUME Init, NEW i \in Integrators PROVE QueueOf(i) = <<>>
    BY DEF Out!Init
  <2>1. {s \in sent : s.src_addr = i} = {}
    BY DEF Init, OutboxInit
  <2>2. Cardinality({s \in sent : s.src_addr = i}) = 0
    BY <2>1, FS_EmptySet
  <2>3. QueueOf(i) \in [1 .. 0 -> {}]
    <3>1. PICK zero : zero = Cardinality({s \in sent : s.src_addr = i})
      OBVIOUS
    <3>2. \A n \in 1 .. zero : FALSE
      BY <2>2, <3>1
    <3> QED BY <2>2, <3>1, <3>2 DEF QueueOf
  <2>4. QueueOf(i) \in Seq({}) /\ Len(QueueOf(i)) = 0
    BY <2>3, FunctionIsSeq
  <2> QED BY <2>4, EmptySeq
<1>2. TypeOK /\ OutboxInv /\ Forms /\ Forms' /\ [Next]_vars
        => [Out!Next]_queues
  <2> SUFFICES ASSUME TypeOK, OutboxInv, Forms, Forms', [Next]_vars
               PROVE  Out!Next \/ UNCHANGED queues
    OBVIOUS
  <2>1. \A i \in Integrators : QueueForm(i) /\ QueueForm(i)'
    OBVIOUS
  <2>2. ASSUME NEW i \in Integrators, NEW k \in OutboxKeys,
               NEW c \in ChainIds, send_message(i, k, c)
        PROVE  Out!Next
    BY <2>1, <2>2, SendIsSend DEF Out!Next
  <2>3. ASSUME NEW k \in OutboxKeys, NEW a \in Adapters,
               pick_up_message(k, a)
        PROVE  Out!Next
    BY <2>1, <2>3, PickUpIsTake
  <2>4. ASSUME \/ UNCHANGED outboxVars
               \/ \E i \in Integrators : RegisterTracker(i)
        PROVE  UNCHANGED queues
    BY <2>1, <2>4, OthersKeepQueues
  <2>5. CASE ConfigStep \/ InboxStep \/ UNCHANGED vars
    BY <2>4, <2>5 DEF ConfigStep, InboxStep, vars, outboxVars
  <2> QED BY <2>2, <2>3, <2>4, <2>5 DEF Next, OutboxStep, register
<1> QED
  BY <1>1, <1>2, TypeCorrect, OutboxInvariant, QueueFormInvariant, PTL
  DEF Spec, Out!Spec

=============================================================================
