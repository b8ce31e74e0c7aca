-------------------------- MODULE SvmEventsProofs --------------------------
(***************************************************************************)
(* Theorems about what is built on the SVM endpoint.  A reader who sees    *)
(* only its events knows the configuration of every integrator and the     *)
(* state of every message.  The programs that call it make calls of the    *)
(* endpoint, so what is proved of the endpoint holds among them too, and   *)
(* each of them acts for itself only.                                      *)
(***************************************************************************)
EXTENDS SvmEvents, SvmPrograms, SvmEndpointProofs

-----------------------------------------------------------------------------
(* Events.  The steps with events are the steps of the endpoint. *)

\* Every step is a step of the endpoint.
LEMMA EventIsStep == [EventNext]_eventVars => [Next]_vars
<1> SUFFICES ASSUME [EventNext]_eventVars PROVE [Next]_vars
  OBVIOUS
<1>1. CASE EmitsRegister
  BY <1>1 DEF EmitsRegister, Next
<1>2. CASE EmitsConfig
  BY <1>2 DEF EmitsConfig, EmitsAdmin, EmitsAdapter, EmitsEnable,
    EmitsDisable, Next, ConfigStep, AdminInstruction
<1>3. CASE EmitsOutbox
  BY <1>3 DEF EmitsOutbox, Next, OutboxStep
<1>4. CASE EmitsInbox
  BY <1>4 DEF EmitsInbox, Next, InboxStep
<1>5. CASE UNCHANGED eventVars
  BY <1>5 DEF eventVars
<1> QED BY <1>1, <1>2, <1>3, <1>4, <1>5 DEF EventNext

\* Emitting events restricts nothing: every theorem about Spec holds of
\* EventSpec.
LEMMA EventsOfSpec == EventSpec => Spec
<1>1. EventInit => Init
  BY DEF EventInit
<1> QED
  BY <1>1, EventIsStep, PTL DEF EventSpec, Spec

-----------------------------------------------------------------------------
(* The inductive invariant of the configuration *)

\* The fields of the reader's view.
ViewFields == {"admin", "pending", "known", "adapters", "send", "recv",
               "sequence", "remaining", "attested", "executed"}

\* The parts of the view that repeat an account.
RoleView ==
  /\ view.known = registered
  /\ view.admin = admin
  /\ view.pending = pending_admin
  /\ view.adapters = adapter_infos

\* A set of <<integrator, chain, adapter>> names the adapters whose bits are
\* set for chain c of integrator i, whose indices are info: the reader has
\* names where the account has bits.
Names(set, i, c, info, bitmap) ==
  \A a \in Adapters :
    <<i, c, a>> \in set <=> info[a] # None /\ info[a] \in bitmap

\* The reader's enabled adapters are those of the bitmaps.
SendView ==
  /\ view.send \subseteq Integrators \X ChainIds \X Adapters
  /\ \A i \in Integrators, c \in ChainIds :
       Names(view.send, i, c, adapter_info[i],
             chain_config[i][c].send_adapter_bitmap)

RecvView ==
  /\ view.recv \subseteq Integrators \X ChainIds \X Adapters
  /\ \A i \in Integrators, c \in ChainIds :
       Names(view.recv, i, c, adapter_info[i],
             chain_config[i][c].recv_adapter_bitmap)

\* An account that enable_adapter would take for new has no bits to lose.
NewIsEmpty ==
  \A i \in Integrators, c \in ChainIds : chain_config[i][c].chain_id = 0 =>
    /\ chain_config[i][c].send_adapter_bitmap = {}
    /\ chain_config[i][c].recv_adapter_bitmap = {}

\* The inductive invariant of the reader's configuration.
ConfigView ==
  /\ DOMAIN view = ViewFields
  /\ RoleView
  /\ SendView
  /\ RecvView
  /\ NewIsEmpty

-----------------------------------------------------------------------------
(* Each event tells the reader what its instruction did *)

\* A step that enables and adds no adapter: only the roles are left to check.
LEMMA RolesOnly ==
  ASSUME ConfigView, DOMAIN view' = ViewFields, RoleView',
         view'.send = view.send, view'.recv = view.recv,
         UNCHANGED <<adapter_info, chain_config>>
  PROVE  ConfigView'
BY DEF ConfigView, SendView, RecvView, NewIsEmpty

\* register finds nothing pending and an empty list, so it resets nothing the
\* event does not mention.
LEMMA RegisterIsTold ==
  ASSUME TypeOK, RoleInv, \A j \in Integrators : AdapterInv(j), ConfigView,
         NEW i \in Integrators, NEW u \in Users,
         register(i, u), IntegratorRegistered(i, u)
  PROVE  ConfigView'
<1>1. /\ i \notin registered
      /\ registered' = registered \cup {i}
      /\ admin' = [admin EXCEPT ![i] = u]
      /\ pending_admin' = [pending_admin EXCEPT ![i] = None]
      /\ adapter_infos' = [adapter_infos EXCEPT ![i] = <<>>]
      /\ UNCHANGED <<adapter_info, chain_config>>
  BY DEF register, RegisterConfig
<1>2. pending_admin[i] = None /\ adapter_infos[i] = <<>>
  BY <1>1 DEF RoleInv, NoPendingWithoutAdmin, AdapterInv
<1>3. pending_admin' = pending_admin /\ adapter_infos' = adapter_infos
  BY <1>1, <1>2 DEF TypeOK, ConfigTypeOK
<1>4. /\ DOMAIN view' = ViewFields
      /\ view'.known = view.known \cup {i}
      /\ view'.admin = [view.admin EXCEPT ![i] = u]
      /\ view'.pending = view.pending
      /\ view'.adapters = view.adapters
      /\ view'.send = view.send
      /\ view'.recv = view.recv
  BY DEF IntegratorRegistered, ConfigView, ViewFields
<1>5. RoleView'
  BY <1>1, <1>3, <1>4 DEF ConfigView, RoleView
<1> QED BY <1>1, <1>4, <1>5, RolesOnly

\* The events of the admin role name what they change; update_admin finds
\* nothing pending, so that nothing is pending after it either.
LEMMA AdminIsTold ==
  ASSUME TypeOK, ConfigView, NEW i \in Integrators, NEW signer \in Users,
         EmitsAdmin(i, signer)
  PROVE  ConfigView'
<1> USE DEF TypeOK, ConfigTypeOK
<1>1. ASSUME NEW u \in Users, update_admin(i, signer, u),
             AdminUpdatedTo(i, u)
      PROVE  ConfigView'
  <2>1. /\ pending_admin[i] = None
        /\ admin' = [admin EXCEPT ![i] = u]
        /\ UNCHANGED <<registered, pending_admin, adapter_infos, adapter_info,
                       chain_config>>
    BY <1>1 DEF update_admin, check_admin, adapterVars
  <2>2. /\ DOMAIN view' = ViewFields
        /\ view'.known = view.known
        /\ view'.admin = [view.admin EXCEPT ![i] = u]
        /\ view'.pending = [view.pending EXCEPT ![i] = None]
        /\ view'.adapters = view.adapters
        /\ view'.send = view.send
        /\ view'.recv = view.recv
    BY <1>1 DEF AdminUpdatedTo, ConfigView, ViewFields
  <2>3. pending_admin = [pending_admin EXCEPT ![i] = None]
    BY <2>1
  <2>4. RoleView'
    BY <2>1, <2>2, <2>3 DEF ConfigView, RoleView
  <2> QED BY <2>1, <2>2, <2>4, RolesOnly
<1>2. ASSUME NEW u \in Users, transfer_admin(i, signer, u),
             AdminUpdateRequested(i, u)
      PROVE  ConfigView'
  <2>1. /\ pending_admin' = [pending_admin EXCEPT ![i] = u]
        /\ UNCHANGED <<registered, admin, adapter_infos, adapter_info,
                       chain_config>>
    BY <1>2 DEF transfer_admin, adapterVars
  <2>2. /\ DOMAIN view' = ViewFields
        /\ view'.known = view.known
        /\ view'.admin = view.admin
        /\ view'.pending = [view.pending EXCEPT ![i] = u]
        /\ view'.adapters = view.adapters
        /\ view'.send = view.send
        /\ view'.recv = view.recv
    BY <1>2 DEF AdminUpdateRequested, ConfigView, ViewFields
  <2>3. RoleView'
    BY <2>1, <2>2 DEF ConfigView, RoleView
  <2> QED BY <2>1, <2>2, <2>3, RolesOnly
<1>3. ASSUME claim_admin(i, signer), AdminUpdatedTo(i, signer)
      PROVE  ConfigView'
  <2>1. /\ admin' = [admin EXCEPT ![i] = signer]
        /\ pending_admin' = [pending_admin EXCEPT ![i] = None]
        /\ UNCHANGED <<registered, adapter_infos, adapter_info, chain_config>>
    BY <1>3 DEF claim_admin, adapterVars
  <2>2. /\ DOMAIN view' = ViewFields
        /\ view'.known = view.known
        /\ view'.admin = [view.admin EXCEPT ![i] = signer]
        /\ view'.pending = [view.pending EXCEPT ![i] = None]
        /\ view'.adapters = view.adapters
        /\ view'.send = view.send
        /\ view'.recv = view.recv
    BY <1>3 DEF AdminUpdatedTo, ConfigView, ViewFields
  <2>3. RoleView'
    BY <2>1, <2>2 DEF ConfigView, RoleView
  <2> QED BY <2>1, <2>2, <2>3, RolesOnly
<1>4. ASSUME discard_admin(i, signer), AdminDiscarded(i)
      PROVE  ConfigView'
  <2>1. /\ admin' = [admin EXCEPT ![i] = None]
        /\ UNCHANGED <<registered, pending_admin, adapter_infos, adapter_info,
                       chain_config>>
    BY <1>4 DEF discard_admin, adapterVars
  <2>2. /\ DOMAIN view' = ViewFields
        /\ view'.known = view.known
        /\ view'.admin = [view.admin EXCEPT ![i] = None]
        /\ view'.pending = view.pending
        /\ view'.adapters = view.adapters
        /\ view'.send = view.send
        /\ view'.recv = view.recv
    BY <1>4 DEF AdminDiscarded, ConfigView, ViewFields
  <2>3. RoleView'
    BY <2>1, <2>2 DEF ConfigView, RoleView
  <2> QED BY <2>1, <2>2, <2>3, RolesOnly
<1> QED BY <1>1, <1>2, <1>3, <1>4 DEF EmitsAdmin

\* AdapterAdded carries the index, at the end of the list the reader has.
LEMMA AdapterIsTold ==
  ASSUME TypeOK, \A j \in Integrators : AdapterInv(j), ConfigView,
         NEW i \in Integrators, NEW signer \in Users, EmitsAdapter(i, signer)
  PROVE  ConfigView'
<1> USE DEF TypeOK, ConfigTypeOK
<1>1. PICK a \in Adapters : /\ add_adapter(i, signer, a)
                            /\ AdapterAdded(i, a, NextIndex(i))
  BY DEF EmitsAdapter
<1> DEFINE list == adapter_infos[i]
<1>2. PICK length \in Nat : length = Len(list)
  OBVIOUS
<1>3. /\ adapter_infos' = [adapter_infos EXCEPT ![i] = Append(list, a)]
      /\ adapter_info' = [adapter_info EXCEPT ![i][a] = length]
      /\ adapter_info[i][a] = None
      /\ UNCHANGED <<registered, admin, pending_admin, chain_config>>
  BY <1>1, <1>2 DEF add_adapter, NextIndex, AdapterInfoIsNew, roleVars
<1>4. list \in Seq(Adapters)
  OBVIOUS
<1> DEFINE heard == [n \in 1 .. length + 1 |->
                       IF n = length + 1 THEN a
                       ELSE IF n <= Len(list) THEN list[n] ELSE None]
<1>5. heard = Append(list, a)
  <2> HIDE DEF list
  <2>1. list \in [1 .. length -> Adapters]
    BY <1>2, <1>4
  <2>2. heard \in [1 .. length + 1 -> Adapters]
    BY <1>2, <1>4
  <2>3. heard[length + 1] = a
    OBVIOUS
  <2>4. \A n \in 1 .. length : heard[n] = list[n]
    BY <1>2
  <2> HIDE DEF heard
  <2>5. heard = Append(list, heard[length + 1])
    BY <2>1, <2>2, <2>4, AppendOfPrefix
  <2> QED BY <2>3, <2>5
<1>6. /\ DOMAIN view' = ViewFields
      /\ view'.known = view.known
      /\ view'.admin = view.admin
      /\ view'.pending = view.pending
      /\ view'.adapters = [view.adapters EXCEPT ![i] = heard]
      /\ view'.send = view.send
      /\ view'.recv = view.recv
  <2>1. view.adapters[i] = list /\ NextIndex(i) = length
    BY <1>2 DEF ConfigView, RoleView, NextIndex
  <2>2. view' = [view EXCEPT !.adapters[i] = heard]
    BY <1>1, <2>1 DEF AdapterAdded
  <2> HIDE DEF heard
  <2> QED BY <2>2 DEF ConfigView, ViewFields
<1>7. RoleView'
  BY <1>3, <1>5, <1>6 DEF ConfigView, RoleView
<1>8. /\ adapter_info'[i][a] = length
      /\ \A b \in Adapters : b # a => adapter_info'[i][b] = adapter_info[i][b]
      /\ \A j \in Integrators : j # i => adapter_info'[j] = adapter_info[j]
  BY <1>3
<1>9. \A c \in ChainIds :
        /\ length \notin chain_config[i][c].send_adapter_bitmap
        /\ length \notin chain_config[i][c].recv_adapter_bitmap
  BY <1>2 DEF AdapterInv, EnabledInv
<1>10. ASSUME NEW j \in Integrators, NEW c \in ChainIds
       PROVE  /\ Names(view.send, j, c, adapter_info'[j],
                       chain_config[j][c].send_adapter_bitmap)
              /\ Names(view.recv, j, c, adapter_info'[j],
                       chain_config[j][c].recv_adapter_bitmap)
  <2>1. /\ Names(view.send, j, c, adapter_info[j],
                 chain_config[j][c].send_adapter_bitmap)
        /\ Names(view.recv, j, c, adapter_info[j],
                 chain_config[j][c].recv_adapter_bitmap)
    BY DEF ConfigView, SendView, RecvView
  <2>2. CASE j # i
    BY <1>8, <2>1, <2>2
  <2>3. CASE j = i
    BY <1>3, <1>8, <1>9, <2>1, <2>3 DEF Names
  <2> QED BY <2>2, <2>3
<1>11. NewIsEmpty'
  BY <1>3 DEF ConfigView, NewIsEmpty
<1> QED
  BY <1>3, <1>6, <1>7, <1>10, <1>11 DEF ConfigView, SendView, RecvView

\* An account that is taken for new has the bits it had: none.
LEMMA InitKeepsBits ==
  ASSUME TypeOK, NewIsEmpty, NEW i \in Integrators, NEW c \in ChainIds, c # 0
  PROVE  LET old    == chain_config[i][c]
             config == InitializedChainConfig(i, c)
         IN
         /\ config \in ChainConfig
         /\ config.send_adapter_bitmap = old.send_adapter_bitmap
         /\ config.recv_adapter_bitmap = old.recv_adapter_bitmap
         /\ config.chain_id # 0
<1>1. InitializedChainConfig(i, c) \in ChainConfig
  BY ChainConfigTyped DEF TypeOK
<1> QED BY <1>1 DEF NewIsEmpty, InitializedChainConfig

\* The two events of enabling name integrator, chain and adapter: the bit that
\* was set.
LEMMA EnablingIsTold ==
  ASSUME TypeOK, \A j \in Integrators : AdapterInv(j), ConfigView,
         NEW i \in Integrators, NEW signer \in Users,
         EmitsEnable(i, signer)
  PROVE  ConfigView'
<1>1. PICK c \in ChainIds, a \in Adapters :
        \/ /\ enable_send_adapter(i, signer, c, a)
           /\ SendAdapterEnabledForChain(i, c, a)
        \/ /\ enable_recv_adapter(i, signer, c, a)
           /\ RecvAdapterEnabledForChain(i, c, a)
  BY DEF EmitsEnable
<1> DEFINE old    == chain_config[i][c]
           config == InitializedChainConfig(i, c)
           index  == adapter_info[i][a]
<1>2. /\ c # 0
      /\ index # None
      /\ UNCHANGED <<registered, admin, pending_admin, adapter_infos,
                     adapter_info>>
  BY <1>1 DEF enable_send_adapter, enable_recv_adapter, EnableAdapter,
    AdapterIndex, roleVars, adapterVars
<1>3. \A b \in Adapters : adapter_info[i][b] = index => b = a
  BY <1>2, IndexIsInjective DEF AdapterInv, TypeOK
<1>4. index \in Index
  BY <1>2 DEF TypeOK, ConfigTypeOK
<1>5. /\ config \in ChainConfig
      /\ config.send_adapter_bitmap = old.send_adapter_bitmap
      /\ config.recv_adapter_bitmap = old.recv_adapter_bitmap
      /\ config.chain_id # 0
  BY <1>2, InitKeepsBits DEF ConfigView
<1>6. ASSUME enable_send_adapter(i, signer, c, a),
             SendAdapterEnabledForChain(i, c, a)
      PROVE  ConfigView'
  <2> DEFINE updated == [config EXCEPT !.send_adapter_bitmap = @ \cup {index}]
  <2>1. /\ updated \in ChainConfig
        /\ updated.send_adapter_bitmap = old.send_adapter_bitmap \cup {index}
        /\ updated.recv_adapter_bitmap = old.recv_adapter_bitmap
        /\ updated.chain_id # 0
    BY <1>4, <1>5 DEF ChainConfig
  <2>2. chain_config' = [chain_config EXCEPT ![i][c] = updated]
    BY <1>6 DEF enable_send_adapter, BitmapSet, AdapterIndex
  <2> HIDE DEF updated
  <2>3. /\ chain_config'[i][c] = updated
        /\ \A j \in Integrators, d \in ChainIds : ~(j = i /\ d = c) =>
             chain_config'[j][d] = chain_config[j][d]
    BY <2>2 DEF TypeOK, ConfigTypeOK
  <2>4. NewIsEmpty'
    BY <2>1, <2>3 DEF ConfigView, NewIsEmpty
  <2>5. /\ DOMAIN view' = ViewFields
        /\ view'.known = view.known
        /\ view'.admin = view.admin
        /\ view'.pending = view.pending
        /\ view'.adapters = view.adapters
        /\ view'.send = view.send \cup {<<i, c, a>>}
        /\ view'.recv = view.recv
    BY <1>6 DEF SendAdapterEnabledForChain, ConfigView, ViewFields
  <2>6. RoleView'
    BY <1>2, <2>5 DEF ConfigView, RoleView
  <2>7. RecvView'
    <3> SUFFICES ASSUME NEW j \in Integrators, NEW d \in ChainIds
                 PROVE  Names(view'.recv, j, d, adapter_info'[j],
                              chain_config'[j][d].recv_adapter_bitmap)
      BY <2>5 DEF ConfigView, RecvView
    <3>1. chain_config'[j][d].recv_adapter_bitmap
            = chain_config[j][d].recv_adapter_bitmap
      BY <2>1, <2>3
    <3> QED BY <1>2, <2>5, <3>1 DEF ConfigView, RecvView
  <2>8. SendView'
    <3>1. view'.send \subseteq Integrators \X ChainIds \X Adapters
      BY <2>5 DEF ConfigView, SendView
    <3> SUFFICES ASSUME NEW j \in Integrators, NEW d \in ChainIds
                 PROVE  Names(view'.send, j, d, adapter_info[j],
                              chain_config'[j][d].send_adapter_bitmap)
      BY <1>2, <3>1 DEF SendView
    <3>2. Names(view.send, j, d, adapter_info[j],
                chain_config[j][d].send_adapter_bitmap)
      BY DEF ConfigView, SendView
    <3>3. CASE j = i /\ d = c
      BY <1>2, <1>3, <2>1, <2>3, <2>5, <3>2, <3>3 DEF Names
    <3>4. CASE ~(j = i /\ d = c)
      BY <2>3, <2>5, <3>2, <3>4 DEF Names
    <3> QED BY <3>3, <3>4
  <2> QED BY <2>4, <2>5, <2>6, <2>7, <2>8 DEF ConfigView
<1>7. ASSUME enable_recv_adapter(i, signer, c, a),
             RecvAdapterEnabledForChain(i, c, a)
      PROVE  ConfigView'
  <2> DEFINE updated == [config EXCEPT !.recv_adapter_bitmap = @ \cup {index}]
  <2>1. /\ updated \in ChainConfig
        /\ updated.recv_adapter_bitmap = old.recv_adapter_bitmap \cup {index}
        /\ updated.send_adapter_bitmap = old.send_adapter_bitmap
        /\ updated.chain_id # 0
    BY <1>4, <1>5 DEF ChainConfig
  <2>2. chain_config' = [chain_config EXCEPT ![i][c] = updated]
    BY <1>7 DEF enable_recv_adapter, BitmapSet, AdapterIndex
  <2> HIDE DEF updated
  <2>3. /\ chain_config'[i][c] = updated
        /\ \A j \in Integrators, d \in ChainIds : ~(j = i /\ d = c) =>
             chain_config'[j][d] = chain_config[j][d]
    BY <2>2 DEF TypeOK, ConfigTypeOK
  <2>4. NewIsEmpty'
    BY <2>1, <2>3 DEF ConfigView, NewIsEmpty
  <2>5. /\ DOMAIN view' = ViewFields
        /\ view'.known = view.known
        /\ view'.admin = view.admin
        /\ view'.pending = view.pending
        /\ view'.adapters = view.adapters
        /\ view'.recv = view.recv \cup {<<i, c, a>>}
        /\ view'.send = view.send
    BY <1>7 DEF RecvAdapterEnabledForChain, ConfigView, ViewFields
  <2>6. RoleView'
    BY <1>2, <2>5 DEF ConfigView, RoleView
  <2>7. SendView'
    <3> SUFFICES ASSUME NEW j \in Integrators, NEW d \in ChainIds
                 PROVE  Names(view'.send, j, d, adapter_info'[j],
                              chain_config'[j][d].send_adapter_bitmap)
      BY <2>5 DEF ConfigView, SendView
    <3>1. chain_config'[j][d].send_adapter_bitmap
            = chain_config[j][d].send_adapter_bitmap
      BY <2>1, <2>3
    <3> QED BY <1>2, <2>5, <3>1 DEF ConfigView, SendView
  <2>8. RecvView'
    <3>1. view'.recv \subseteq Integrators \X ChainIds \X Adapters
      BY <2>5 DEF ConfigView, RecvView
    <3> SUFFICES ASSUME NEW j \in Integrators, NEW d \in ChainIds
                 PROVE  Names(view'.recv, j, d, adapter_info[j],
                              chain_config'[j][d].recv_adapter_bitmap)
      BY <1>2, <3>1 DEF RecvView
    <3>2. Names(view.recv, j, d, adapter_info[j],
                chain_config[j][d].recv_adapter_bitmap)
      BY DEF ConfigView, RecvView
    <3>3. CASE j = i /\ d = c
      BY <1>2, <1>3, <2>1, <2>3, <2>5, <3>2, <3>3 DEF Names
    <3>4. CASE ~(j = i /\ d = c)
      BY <2>3, <2>5, <3>2, <3>4 DEF Names
    <3> QED BY <3>3, <3>4
  <2> QED BY <2>4, <2>5, <2>6, <2>7, <2>8 DEF ConfigView
<1> QED BY <1>1, <1>6, <1>7

\* The two events of disabling name the bit that was cleared; the account
\* exists, so it is not one that will be taken for new.
LEMMA DisablingIsTold ==
  ASSUME TypeOK, \A j \in Integrators : AdapterInv(j), ConfigView,
         ChainSentinel, NEW i \in Integrators, NEW signer \in Users,
         EmitsDisable(i, signer)
  PROVE  ConfigView'
<1>1. PICK c \in ChainIds, a \in Adapters :
        \/ /\ disable_send_adapter(i, signer, c, a)
           /\ SendAdapterDisabledForChain(i, c, a)
        \/ /\ disable_recv_adapter(i, signer, c, a)
           /\ RecvAdapterDisabledForChain(i, c, a)
  BY DEF EmitsDisable
<1> DEFINE old    == chain_config[i][c]
           config == old
           index  == adapter_info[i][a]
<1>2. /\ old.exists
      /\ index # None
      /\ UNCHANGED <<registered, admin, pending_admin, adapter_infos,
                     adapter_info>>
  BY <1>1 DEF disable_send_adapter, disable_recv_adapter, DisableAdapter,
    AdapterIndex, roleVars, adapterVars
<1>3. \A b \in Adapters : adapter_info[i][b] = index => b = a
  BY <1>2, IndexIsInjective DEF AdapterInv, TypeOK
<1>4. index \in Index
  BY <1>2 DEF TypeOK, ConfigTypeOK
<1>5. /\ config \in ChainConfig
      /\ config.send_adapter_bitmap = old.send_adapter_bitmap
      /\ config.recv_adapter_bitmap = old.recv_adapter_bitmap
      /\ config.chain_id # 0
  BY <1>2 DEF TypeOK, ConfigTypeOK, ChainSentinel
<1>6. ASSUME disable_send_adapter(i, signer, c, a),
             SendAdapterDisabledForChain(i, c, a)
      PROVE  ConfigView'
  <2> DEFINE updated == [config EXCEPT !.send_adapter_bitmap = @ \ {index}]
  <2>1. /\ updated \in ChainConfig
        /\ updated.send_adapter_bitmap = old.send_adapter_bitmap \ {index}
        /\ updated.recv_adapter_bitmap = old.recv_adapter_bitmap
        /\ updated.chain_id # 0
    BY <1>4, <1>5 DEF ChainConfig
  <2>2. chain_config' = [chain_config EXCEPT ![i][c] = updated]
    BY <1>6 DEF disable_send_adapter, BitmapSet, AdapterIndex
  <2> HIDE DEF updated
  <2>3. /\ chain_config'[i][c] = updated
        /\ \A j \in Integrators, d \in ChainIds : ~(j = i /\ d = c) =>
             chain_config'[j][d] = chain_config[j][d]
    BY <2>2 DEF TypeOK, ConfigTypeOK
  <2>4. NewIsEmpty'
    BY <2>1, <2>3 DEF ConfigView, NewIsEmpty
  <2>5. /\ DOMAIN view' = ViewFields
        /\ view'.known = view.known
        /\ view'.admin = view.admin
        /\ view'.pending = view.pending
        /\ view'.adapters = view.adapters
        /\ view'.send = view.send \ {<<i, c, a>>}
        /\ view'.recv = view.recv
    BY <1>6 DEF SendAdapterDisabledForChain, ConfigView, ViewFields
  <2>6. RoleView'
    BY <1>2, <2>5 DEF ConfigView, RoleView
  <2>7. RecvView'
    <3> SUFFICES ASSUME NEW j \in Integrators, NEW d \in ChainIds
                 PROVE  Names(view'.recv, j, d, adapter_info'[j],
                              chain_config'[j][d].recv_adapter_bitmap)
      BY <2>5 DEF ConfigView, RecvView
    <3>1. chain_config'[j][d].recv_adapter_bitmap
            = chain_config[j][d].recv_adapter_bitmap
      BY <2>1, <2>3
    <3> QED BY <1>2, <2>5, <3>1 DEF ConfigView, RecvView
  <2>8. SendView'
    <3>1. view'.send \subseteq Integrators \X ChainIds \X Adapters
      BY <2>5 DEF ConfigView, SendView
    <3> SUFFICES ASSUME NEW j \in Integrators, NEW d \in ChainIds
                 PROVE  Names(view'.send, j, d, adapter_info[j],
                              chain_config'[j][d].send_adapter_bitmap)
      BY <1>2, <3>1 DEF SendView
    <3>2. Names(view.send, j, d, adapter_info[j],
                chain_config[j][d].send_adapter_bitmap)
      BY DEF ConfigView, SendView
    <3>3. CASE j = i /\ d = c
      BY <1>2, <1>3, <2>1, <2>3, <2>5, <3>2, <3>3 DEF Names
    <3>4. CASE ~(j = i /\ d = c)
      BY <2>3, <2>5, <3>2, <3>4 DEF Names
    <3> QED BY <3>3, <3>4
  <2> QED BY <2>4, <2>5, <2>6, <2>7, <2>8 DEF ConfigView
<1>7. ASSUME disable_recv_adapter(i, signer, c, a),
             RecvAdapterDisabledForChain(i, c, a)
      PROVE  ConfigView'
  <2> DEFINE updated == [config EXCEPT !.recv_adapter_bitmap = @ \ {index}]
  <2>1. /\ updated \in ChainConfig
        /\ updated.recv_adapter_bitmap = old.recv_adapter_bitmap \ {index}
        /\ updated.send_adapter_bitmap = old.send_adapter_bitmap
        /\ updated.chain_id # 0
    BY <1>4, <1>5 DEF ChainConfig
  <2>2. chain_config' = [chain_config EXCEPT ![i][c] = updated]
    BY <1>7 DEF disable_recv_adapter, BitmapSet, AdapterIndex
  <2> HIDE DEF updated
  <2>3. /\ chain_config'[i][c] = updated
        /\ \A j \in Integrators, d \in ChainIds : ~(j = i /\ d = c) =>
             chain_config'[j][d] = chain_config[j][d]
    BY <2>2 DEF TypeOK, ConfigTypeOK
  <2>4. NewIsEmpty'
    BY <2>1, <2>3 DEF ConfigView, NewIsEmpty
  <2>5. /\ DOMAIN view' = ViewFields
        /\ view'.known = view.known
        /\ view'.admin = view.admin
        /\ view'.pending = view.pending
        /\ view'.adapters = view.adapters
        /\ view'.recv = view.recv \ {<<i, c, a>>}
        /\ view'.send = view.send
    BY <1>7 DEF RecvAdapterDisabledForChain, ConfigView, ViewFields
  <2>6. RoleView'
    BY <1>2, <2>5 DEF ConfigView, RoleView
  <2>7. SendView'
    <3> SUFFICES ASSUME NEW j \in Integrators, NEW d \in ChainIds
                 PROVE  Names(view'.send, j, d, adapter_info'[j],
                              chain_config'[j][d].send_adapter_bitmap)
      BY <2>5 DEF ConfigView, SendView
    <3>1. chain_config'[j][d].send_adapter_bitmap
            = chain_config[j][d].send_adapter_bitmap
      BY <2>1, <2>3
    <3> QED BY <1>2, <2>5, <3>1 DEF ConfigView, SendView
  <2>8. RecvView'
    <3>1. view'.recv \subseteq Integrators \X ChainIds \X Adapters
      BY <2>5 DEF ConfigView, RecvView
    <3> SUFFICES ASSUME NEW j \in Integrators, NEW d \in ChainIds
                 PROVE  Names(view'.recv, j, d, adapter_info[j],
                              chain_config'[j][d].recv_adapter_bitmap)
      BY <1>2, <3>1 DEF RecvView
    <3>2. Names(view.recv, j, d, adapter_info[j],
                chain_config[j][d].recv_adapter_bitmap)
      BY DEF ConfigView, RecvView
    <3>3. CASE j = i /\ d = c
      BY <1>2, <1>3, <2>1, <2>3, <2>5, <3>2, <3>3 DEF Names
    <3>4. CASE ~(j = i /\ d = c)
      BY <2>3, <2>5, <3>2, <3>4 DEF Names
    <3> QED BY <3>3, <3>4
  <2> QED BY <2>4, <2>5, <2>6, <2>7, <2>8 DEF ConfigView
<1> QED BY <1>1, <1>6, <1>7

\* The message instructions change neither the configuration nor the reader's
\* view of it.
LEMMA MessagesTellNoConfig ==
  ASSUME ConfigView, EmitsOutbox \/ EmitsInbox
  PROVE  ConfigView'
<1>1. UNCHANGED <<registered, admin, pending_admin, adapter_infos,
                  adapter_info, chain_config>>
  BY DEF EmitsOutbox, EmitsInbox, configVars
<1>2. /\ DOMAIN view' = ViewFields
      /\ view'.known = view.known
      /\ view'.admin = view.admin
      /\ view'.pending = view.pending
      /\ view'.adapters = view.adapters
      /\ view'.send = view.send
      /\ view'.recv = view.recv
  <2>1. DOMAIN view = ViewFields
    BY DEF ConfigView
  <2>2. CASE \E i, sequence : MessageSent(i, sequence)
    BY <2>1, <2>2 DEF MessageSent, ViewFields
  <2>3. CASE \E i, sequence, left : MessagePickedUp(i, sequence, left)
    BY <2>1, <2>3 DEF MessagePickedUp, ViewFields
  <2>4. CASE \E m, bitmap : MessageAttestedTo(m, bitmap)
    BY <2>1, <2>4 DEF MessageAttestedTo, ViewFields
  <2>5. CASE \E m : MessageReceived(m) \/ MessageExecuted(m)
    BY <2>1, <2>5 DEF MessageReceived, MessageExecuted, ViewFields
  <2> QED
    BY <2>2, <2>3, <2>4, <2>5 DEF EmitsOutbox, EmitsInbox
<1>3. RoleView'
  BY <1>1, <1>2 DEF ConfigView, RoleView
<1> QED BY <1>1, <1>2, <1>3, RolesOnly

\* ConfigView holds in every reachable state.
LEMMA ConfigViewInvariant == EventSpec => []ConfigView
<1>1. EventInit => ConfigView
  <2> SUFFICES ASSUME EventInit PROVE ConfigView
    OBVIOUS
  <2>1. /\ DOMAIN view = ViewFields
        /\ view.known = {}
        /\ view.admin = [i \in Integrators |-> None]
        /\ view.pending = [i \in Integrators |-> None]
        /\ view.adapters = [i \in Integrators |-> <<>>]
        /\ view.send = {}
        /\ view.recv = {}
    BY DEF EventInit, ViewInit, ViewFields
  <2>2. \A i \in Integrators, c \in ChainIds :
          /\ chain_config[i][c].send_adapter_bitmap = {}
          /\ chain_config[i][c].recv_adapter_bitmap = {}
    BY DEF EventInit, Init, ConfigInit, NoChainConfig
  <2>3. RoleView
    BY <2>1 DEF EventInit, Init, ConfigInit, RoleView
  <2>4. SendView /\ RecvView /\ NewIsEmpty
    BY <2>1, <2>2 DEF SendView, RecvView, NewIsEmpty, Names
  <2> QED BY <2>1, <2>3, <2>4 DEF ConfigView
<1>2. TypeOK /\ RoleInv /\ (\A i \in Integrators : AdapterInv(i))
        /\ InboxSafe /\ ConfigView /\ [EventNext]_eventVars => ConfigView'
  <2> SUFFICES ASSUME TypeOK, RoleInv, \A i \in Integrators : AdapterInv(i),
                      InboxSafe, ConfigView, [EventNext]_eventVars
               PROVE  ConfigView'
    OBVIOUS
  <2>1. CASE EmitsRegister
    BY <2>1, RegisterIsTold DEF EmitsRegister
  <2>2. CASE EmitsConfig
    <3>1. ChainSentinel
      BY DEF InboxSafe
    <3> QED
      BY <2>2, <3>1, AdminIsTold, AdapterIsTold, EnablingIsTold,
        DisablingIsTold DEF EmitsConfig
  <2>3. CASE EmitsOutbox \/ EmitsInbox
    BY <2>3, MessagesTellNoConfig
  <2>4. CASE UNCHANGED eventVars
    BY <2>4 DEF eventVars, vars, ConfigView, RoleView, SendView, RecvView,
      NewIsEmpty
  <2> QED BY <2>1, <2>2, <2>3, <2>4 DEF EventNext
<1> QED
  BY <1>1, <1>2, EventsOfSpec, TypeCorrect, RoleInvariant, AdapterInvariant,
    InboxSafeInvariant, PTL DEF EventSpec

\* The reader finds the index of an adapter in the list, and none for an
\* adapter that has no AdapterInfo.
LEMMA ReaderFindsIndex ==
  ASSUME TypeOK, NEW i \in Integrators, AdapterInv(i), NEW a \in Adapters
  PROVE  IndexIn(adapter_infos[i], a) = adapter_info[i][a]
<1> DEFINE list == adapter_infos[i]
<1>1. PICK length \in Nat : length = Len(list)
  BY DEF TypeOK, ConfigTypeOK
<1>2. \A n \in 1 .. length : list[n] = a <=> adapter_info[i][a] = n - 1
  BY <1>1 DEF AdapterInv, IndexInv
<1>3. CASE \E n \in 1 .. length : list[n] = a
  BY <1>1, <1>2, <1>3 DEF IndexIn
<1>4. CASE ~ \E n \in 1 .. length : list[n] = a
  <2>1. adapter_info[i][a] = None
    <3> SUFFICES ASSUME adapter_info[i][a] # None PROVE FALSE
      OBVIOUS
    <3>1. PICK index \in Nat : index = adapter_info[i][a] /\ index < length
      BY <1>1, ConfigAssumption
      DEF TypeOK, ConfigTypeOK, Index, AdapterInv, IndexInv
    <3>2. index + 1 \in 1 .. length /\ (index + 1) - 1 = index
      BY <3>1
    <3> QED BY <1>2, <1>4, <3>1, <3>2
  <2> QED BY <1>1, <1>4, <2>1 DEF IndexIn
<1> QED BY <1>3, <1>4

\* The bits of a bitmap within the list are the indices of the named adapters.
LEMMA NamesAreIndices ==
  ASSUME TypeOK, NEW i \in Integrators, NEW c \in ChainIds, AdapterInv(i),
         view.adapters = adapter_infos,
         NEW set \in SUBSET (Integrators \X ChainIds \X Adapters),
         NEW bitmap \in SUBSET (0 .. Len(adapter_infos[i]) - 1),
         Names(set, i, c, adapter_info[i], bitmap)
  PROVE  bitmap = Enabled(set, i, c)
<1>1. PICK length \in Nat : length = Len(adapter_infos[i])
  BY DEF TypeOK, ConfigTypeOK
<1>2. ASSUME NEW index \in bitmap
      PROVE  index \in Enabled(set, i, c)
  <2>1. index + 1 \in 1 .. length /\ (index + 1) - 1 = index
    BY <1>1
  <2>2. PICK a \in Adapters : a = adapter_infos[i][index + 1]
    BY <1>1, <2>1 DEF TypeOK, ConfigTypeOK
  <2>3. adapter_info[i][a] = index
    BY <1>1, <2>1, <2>2 DEF AdapterInv, IndexInv
  <2>4. index # None
    BY <1>1, ConfigAssumption
  <2>5. <<i, c, a>> \in set
    BY <2>3, <2>4 DEF Names
  <2>6. IndexIn(view.adapters[i], a) = index
    BY <2>3, ReaderFindsIndex
  <2> QED BY <2>5, <2>6 DEF Enabled
<1>3. ASSUME NEW index \in Enabled(set, i, c)
      PROVE  index \in bitmap
  <2>1. PICK t \in set : /\ t[1] = i /\ t[2] = c
                         /\ index = IndexIn(view.adapters[i], t[3])
    BY DEF Enabled
  <2>2. t = <<i, c, t[3]>> /\ t[3] \in Adapters
    BY <2>1
  <2>3. index = adapter_info[i][t[3]]
    BY <2>1, <2>2, ReaderFindsIndex
  <2> QED BY <2>2, <2>3 DEF Names
<1> QED BY <1>2, <1>3

\* A reader of the events knows the configuration of every integrator.
THEOREM ReaderKnowsConfig == EventSpec => []ViewMatchesConfig
<1>1. TypeOK /\ (\A i \in Integrators : AdapterInv(i)) /\ ConfigView
        => ViewMatchesConfig
  <2> SUFFICES ASSUME TypeOK, \A i \in Integrators : AdapterInv(i), ConfigView
               PROVE  ViewMatchesConfig
    OBVIOUS
  <2>1. RoleView
    BY DEF ConfigView
  <2>2. \A i \in Integrators, a \in Adapters :
          adapter_info[i][a] = IndexIn(view.adapters[i], a)
    BY <2>1, ReaderFindsIndex DEF RoleView
  <2>3. ASSUME NEW i \in Integrators, NEW c \in ChainIds
        PROVE  /\ chain_config[i][c].send_adapter_bitmap
                    = Enabled(view.send, i, c)
               /\ chain_config[i][c].recv_adapter_bitmap
                    = Enabled(view.recv, i, c)
    <3>1. /\ chain_config[i][c].send_adapter_bitmap
               \in SUBSET (0 .. Len(adapter_infos[i]) - 1)
          /\ chain_config[i][c].recv_adapter_bitmap
               \in SUBSET (0 .. Len(adapter_infos[i]) - 1)
      BY DEF AdapterInv, EnabledInv
    <3>2. /\ Names(view.send, i, c, adapter_info[i],
                   chain_config[i][c].send_adapter_bitmap)
          /\ Names(view.recv, i, c, adapter_info[i],
                   chain_config[i][c].recv_adapter_bitmap)
          /\ view.send \in SUBSET (Integrators \X ChainIds \X Adapters)
          /\ view.recv \in SUBSET (Integrators \X ChainIds \X Adapters)
      BY DEF ConfigView, SendView, RecvView
    <3>3. AdapterInv(i) /\ view.adapters = adapter_infos
      BY <2>1 DEF RoleView
    <3> QED BY <3>1, <3>2, <3>3, NamesAreIndices
  <2> QED BY <2>1, <2>2, <2>3 DEF ViewMatchesConfig, RoleView
<1> QED
  BY <1>1, EventsOfSpec, TypeCorrect, AdapterInvariant, ConfigViewInvariant,
    PTL

-----------------------------------------------------------------------------
(* The messages *)

\* Somebody has picked up message n of integrator i.
WasPickedUp(i, n) == \E p \in picked_up : p.src_addr = i /\ p.sequence = n

\* What the reader knows of outgoing messages.  It has heard of a message
\* exactly when some adapter has picked it up, which a message that is still
\* to be sent cannot be.
OutgoingView ==
  /\ view.sequence = sequence_tracker
  /\ view.remaining \in
       [Integrators -> [0 .. MaxSequence -> (SUBSET Index) \cup {None}]]
  /\ \A i \in Integrators, n \in 0 .. MaxSequence :
       /\ view.remaining[i][n] = None <=> ~WasPickedUp(i, n)
       /\ view.remaining[i][n] # None => view.remaining[i][n] = Waiting(i, n)

\* What the reader knows of incoming messages.
IncomingView ==
  /\ view.attested = Votes
  /\ \A m \in Messages : m \in view.executed <=> attestation_info[m].executed

\* The inductive invariant of the reader's messages.
MessageView ==
  /\ DOMAIN view = ViewFields
  /\ OutgoingView
  /\ IncomingView

\* A step without an event about messages.
LEMMA NoMessageTold ==
  ASSUME MessageView, DOMAIN view' = ViewFields,
         view'.sequence = view.sequence, view'.remaining = view.remaining,
         view'.attested = view.attested, view'.executed = view.executed,
         UNCHANGED <<outboxVars, inboxVars>>
  PROVE  MessageView'
<1>1. \A i, n : Waiting(i, n)' = Waiting(i, n)
  BY DEF Waiting, outboxVars
<1> QED
  BY <1>1 DEF MessageView, OutgoingView, IncomingView, outboxVars, inboxVars,
    WasPickedUp, Votes

\* The events of the configuration say nothing about messages.
LEMMA ConfigTellsNoMessage ==
  ASSUME MessageView, EmitsConfig
  PROVE  MessageView'
<1>1. PICK i \in Integrators, signer \in Users :
        \/ EmitsAdmin(i, signer)
        \/ EmitsAdapter(i, signer)
        \/ EmitsEnable(i, signer)
        \/ EmitsDisable(i, signer)
  BY DEF EmitsConfig
<1> DEFINE Same == /\ DOMAIN view' = ViewFields
                   /\ view'.sequence = view.sequence
                   /\ view'.remaining = view.remaining
                   /\ view'.attested = view.attested
                   /\ view'.executed = view.executed
<1>2. DOMAIN view = ViewFields
  BY DEF MessageView
<1>3. CASE EmitsAdmin(i, signer)
  <2>1. Same
    <3>1. CASE \E u : AdminUpdatedTo(i, u)
      BY <1>2, <3>1 DEF AdminUpdatedTo, ViewFields
    <3>2. CASE \E u : AdminUpdateRequested(i, u)
      BY <1>2, <3>2 DEF AdminUpdateRequested, ViewFields
    <3>3. CASE AdminDiscarded(i)
      BY <1>2, <3>3 DEF AdminDiscarded, ViewFields
    <3> QED BY <1>3, <3>1, <3>2, <3>3 DEF EmitsAdmin
  <2> QED BY <2>1, NoMessageTold DEF EmitsConfig
<1>4. CASE EmitsAdapter(i, signer)
  <2>1. PICK list : view' = [view EXCEPT !.adapters[i] = list]
    BY <1>4 DEF EmitsAdapter, AdapterAdded
  <2>2. Same
    BY <1>2, <2>1 DEF ViewFields
  <2> QED BY <2>2, NoMessageTold DEF EmitsConfig
<1>5. CASE EmitsEnable(i, signer) \/ EmitsDisable(i, signer)
  <2>1. PICK set : \/ view' = [view EXCEPT !.send = set]
                   \/ view' = [view EXCEPT !.recv = set]
    BY <1>5 DEF EmitsEnable, EmitsDisable, SendAdapterEnabledForChain,
      RecvAdapterEnabledForChain, SendAdapterDisabledForChain,
      RecvAdapterDisabledForChain
  <2>2. Same
    BY <1>2, <2>1 DEF ViewFields
  <2> QED BY <2>2, NoMessageTold DEF EmitsConfig
<1> QED BY <1>1, <1>3, <1>4, <1>5

\* register starts the tracker, and the reader's, at zero.
LEMMA RegisterTellsSequence ==
  ASSUME TypeOK, MessageView, NEW i \in Integrators, NEW u \in Users,
         register(i, u), IntegratorRegistered(i, u)
  PROVE  MessageView'
<1>1. /\ sequence_tracker' = [sequence_tracker EXCEPT ![i] = 0]
      /\ UNCHANGED <<outbox_message, picked_up, attestation_info>>
  BY DEF register, RegisterTracker, inboxVars
<1>2. /\ DOMAIN view' = ViewFields
      /\ view'.sequence = [view.sequence EXCEPT ![i] = 0]
      /\ view'.remaining = view.remaining
      /\ view'.attested = view.attested
      /\ view'.executed = view.executed
  BY DEF IntegratorRegistered, MessageView, ViewFields
<1>3. \A j, n : Waiting(j, n)' = Waiting(j, n)
  BY <1>1 DEF Waiting
<1>4. OutgoingView'
  BY <1>1, <1>2, <1>3 DEF MessageView, OutgoingView, WasPickedUp
<1>5. IncomingView'
  BY <1>1, <1>2 DEF MessageView, IncomingView, Votes
<1> QED BY <1>2, <1>4, <1>5 DEF MessageView

\* MessageSent carries the tracker after the send; the new message has a
\* number that nobody has picked up, so the reader's bits are not touched.
LEMMA SendIsTold ==
  ASSUME TypeOK, OutboxInv, MessageView, NEW i \in Integrators,
         NEW k \in OutboxKeys, NEW c \in ChainIds, send_message(i, k, c),
         MessageSent(i, message_sent'.sequence), UNCHANGED inboxVars
  PROVE  MessageView'
<1> DEFINE n       == sequence_tracker[i]
           enabled == chain_config[i][c].send_adapter_bitmap
           message == [src_addr |-> i, sequence |-> n, dst_chain |-> c,
                       outstanding_adapters |-> enabled]
<1>1. /\ n \in Nat
      /\ sequence_tracker' = [sequence_tracker EXCEPT ![i] = n + 1]
      /\ message_sent'.sequence = sequence_tracker'[i]
      /\ outbox_message' = [outbox_message EXCEPT ![k] = message]
      /\ picked_up' = picked_up
      /\ outbox_message[k] = None
  BY DEF send_message, next_sequence, TypeOK, OutboxTypeOK
<1>2. /\ outbox_message'[k] = message
      /\ \A l \in OutboxKeys : l # k => outbox_message'[l] = outbox_message[l]
      /\ sequence_tracker'[i] = n + 1
  BY <1>1 DEF TypeOK, OutboxTypeOK
<1>3. /\ DOMAIN view' = ViewFields
      /\ view'.sequence = [view.sequence EXCEPT ![i] = n + 1]
      /\ view'.remaining = view.remaining
      /\ view'.attested = view.attested
      /\ view'.executed = view.executed
  BY <1>1, <1>2 DEF MessageSent, MessageView, ViewFields
<1>4. ~WasPickedUp(i, n)
  <2> SUFFICES ASSUME NEW s \in sent, s.src_addr = i, s.sequence = n
               PROVE  FALSE
    BY DEF WasPickedUp, OutboxInv, PickUpInv
  <2> QED BY <1>1 DEF OutboxInv, SentInv
<1>5. ASSUME NEW j \in Integrators, NEW x, ~(j = i /\ x = n)
      PROVE  Waiting(j, x)' = Waiting(j, x)
  <2>1. message.src_addr = i /\ message.sequence = n
    OBVIOUS
  <2> HIDE DEF message
  <2>2. ASSUME NEW l \in OutboxKeys,
               outbox_message'[l] # None,
               outbox_message'[l].src_addr = j,
               outbox_message'[l].sequence = x
        PROVE  outbox_message'[l] = outbox_message[l]
    BY <1>2, <1>5, <2>1, <2>2
  <2>3. \A l \in OutboxKeys :
          outbox_message[l] # None => outbox_message'[l] = outbox_message[l]
    BY <1>1, <1>2
  <2>4. ASSUME NEW y \in Waiting(j, x) PROVE y \in Waiting(j, x)'
    BY <2>3, WaitingMember, NextWaitingMember
  <2>5. ASSUME NEW y \in Waiting(j, x)' PROVE y \in Waiting(j, x)
    BY <2>2, WaitingMember, NextWaitingMember
  <2> QED BY <2>4, <2>5
<1>6. OutgoingView'
  <2>1. view'.sequence = sequence_tracker'
    BY <1>1, <1>3 DEF MessageView, OutgoingView
  <2>2. \A j \in Integrators, x \in 0 .. MaxSequence :
          /\ view.remaining[j][x] = None <=> ~WasPickedUp(j, x)
          /\ view.remaining[j][x] # None =>
               view.remaining[j][x] = Waiting(j, x)'
    BY <1>4, <1>5 DEF MessageView, OutgoingView
  <2>3. \A j, x : WasPickedUp(j, x)' <=> WasPickedUp(j, x)
    BY <1>1 DEF WasPickedUp
  <2> QED
    BY <1>3, <2>1, <2>2, <2>3 DEF MessageView, OutgoingView
<1>7. IncomingView'
  BY <1>3 DEF MessageView, IncomingView, Votes, inboxVars
<1> QED BY <1>3, <1>6, <1>7 DEF MessageView

\* MessagePickedUp carries the bits that are left, of the one account that
\* holds the message.
LEMMA PickUpIsTold ==
  ASSUME TypeOK, OutboxInv, MessageView, NEW k \in OutboxKeys,
         NEW a \in Adapters, pick_up_message(k, a),
         MessagePickedUp(outbox_message[k].src_addr,
                         outbox_message[k].sequence, RemainingAdapters(k)),
         UNCHANGED inboxVars
  PROVE  MessageView'
<1> DEFINE message == outbox_message[k]
<1>1. message # None /\ message \in OutboxMessage
  BY DEF pick_up_message, TypeOK, OutboxTypeOK
<1>2. PICK i \in Integrators, n \in Nat :
        i = message.src_addr /\ n = message.sequence
  BY <1>1 DEF OutboxMessage
<1> DEFINE left == message.outstanding_adapters \ {adapter_info[i][a]}
<1>3. left \in SUBSET Index
  BY <1>1 DEF OutboxMessage
<1>4. PICK bits \in SUBSET Index : bits = left
  BY <1>3
<1>5. /\ \A l \in OutboxKeys : l # k => outbox_message'[l] = outbox_message[l]
      /\ bits = {} => outbox_message'[k] = None
      /\ bits # {} => /\ outbox_message'[k] # None
                      /\ outbox_message'[k].src_addr = i
                      /\ outbox_message'[k].sequence = n
                      /\ outbox_message'[k].outstanding_adapters = bits
  BY <1>2, <1>4, PickUpClearsBit
<1>6. n \in 0 .. MaxSequence
  <2>1. PICK s \in sent : s.src_addr = i /\ s.sequence = n
    BY <1>1, <1>2 DEF OutboxInv, AccountInv, Holds
  <2>2. PICK count \in Nat : /\ count = sequence_tracker[i]
                             /\ n < count
                             /\ count <= MaxSequence
    BY <2>1 DEF OutboxInv, SentInv, TypeOK, OutboxTypeOK
  <2> QED BY <2>2, OutboxAssumption
<1>7. /\ sequence_tracker' = sequence_tracker
      /\ \E p : /\ picked_up' = picked_up \cup {p}
               /\ p.src_addr = i /\ p.sequence = n
  <2> DEFINE p == [src_addr |-> i, sequence |-> n, adapter |-> a]
  <2>1. /\ sequence_tracker' = sequence_tracker
        /\ picked_up' = picked_up \cup {p}
    BY <1>2 DEF pick_up_message
  <2>2. p.src_addr = i /\ p.sequence = n
    OBVIOUS
  <2> HIDE DEF p
  <2> QED BY <2>1, <2>2
<1>8. /\ DOMAIN view' = ViewFields
      /\ view'.sequence = view.sequence
      /\ view'.remaining = [view.remaining EXCEPT ![i][n] = bits]
      /\ view'.attested = view.attested
      /\ view'.executed = view.executed
  <2>1. RemainingAdapters(k) = bits
    BY <1>5 DEF RemainingAdapters
  <2>2. MessagePickedUp(i, n, bits)
    BY <1>2, <2>1
  <2> QED BY <2>2 DEF MessagePickedUp, MessageView, ViewFields
<1>9. \A l \in OutboxKeys :
        l # k => ~(/\ outbox_message[l] # None
                   /\ outbox_message[l].src_addr = i
                   /\ outbox_message[l].sequence = n)
  BY <1>1, <1>2 DEF OutboxInv, AccountInv, Holds
<1>10. Waiting(i, n)' = bits
  <2>1. ASSUME NEW x \in Waiting(i, n)' PROVE x \in bits
    <3>1. PICK l \in OutboxKeys :
            /\ outbox_message'[l] # None
            /\ outbox_message'[l].src_addr = i
            /\ outbox_message'[l].sequence = n
            /\ x \in outbox_message'[l].outstanding_adapters
      BY <2>1, NextWaitingMember
    <3>2. l = k
      BY <1>5, <1>9, <3>1
    <3> QED BY <1>5, <3>1, <3>2
  <2>2. ASSUME NEW x \in bits PROVE x \in Waiting(i, n)'
    BY <1>5, <2>2, NextWaitingMember
  <2> QED BY <2>1, <2>2
<1>11. ASSUME NEW j \in Integrators, NEW x, ~(j = i /\ x = n)
       PROVE  /\ Waiting(j, x)' = Waiting(j, x)
              /\ WasPickedUp(j, x)' <=> WasPickedUp(j, x)
  <2>1. ASSUME NEW l \in OutboxKeys,
               outbox_message[l] # None,
               outbox_message[l].src_addr = j,
               outbox_message[l].sequence = x
        PROVE  outbox_message'[l] = outbox_message[l]
    BY <1>2, <1>5, <1>11, <2>1
  <2>2. ASSUME NEW l \in OutboxKeys,
               outbox_message'[l] # None,
               outbox_message'[l].src_addr = j,
               outbox_message'[l].sequence = x
        PROVE  outbox_message'[l] = outbox_message[l]
    BY <1>5, <1>11, <2>2
  <2>3. ASSUME NEW y \in Waiting(j, x) PROVE y \in Waiting(j, x)'
    BY <2>1, WaitingMember, NextWaitingMember
  <2>4. ASSUME NEW y \in Waiting(j, x)' PROVE y \in Waiting(j, x)
    BY <2>2, WaitingMember, NextWaitingMember
  <2>5. WasPickedUp(j, x)' <=> WasPickedUp(j, x)
    BY <1>7, <1>11 DEF WasPickedUp
  <2> QED BY <2>3, <2>4, <2>5
<1>12. WasPickedUp(i, n)'
  BY <1>7 DEF WasPickedUp
<1>13. OutgoingView'
  <2> DEFINE Numbers == 0 .. MaxSequence
             Heard   == (SUBSET Index) \cup {None}
  <2>1. /\ view.remaining \in [Integrators -> [Numbers -> Heard]]
        /\ bits \in Heard
        /\ n \in Numbers
    BY <1>6 DEF MessageView, OutgoingView
  <2>2. /\ view'.remaining \in [Integrators -> [Numbers -> Heard]]
        /\ view'.remaining[i][n] = bits
        /\ \A j \in Integrators, x \in Numbers :
             ~(j = i /\ x = n) => view'.remaining[j][x] = view.remaining[j][x]
    <3> HIDE DEF Numbers, Heard
    <3> QED BY <1>8, <2>1
  <2>3. ASSUME NEW j \in Integrators, NEW x \in Numbers
        PROVE  /\ view'.remaining[j][x] = None <=> ~WasPickedUp(j, x)'
               /\ view'.remaining[j][x] # None =>
                    view'.remaining[j][x] = Waiting(j, x)'
    <3>1. CASE j = i /\ x = n
      BY <1>10, <1>12, <2>2, <3>1, EventsAssumption
    <3>2. CASE ~(j = i /\ x = n)
      BY <1>11, <2>2, <3>2 DEF MessageView, OutgoingView
    <3> QED BY <3>1, <3>2
  <2>4. view'.sequence = sequence_tracker'
    BY <1>7, <1>8 DEF MessageView, OutgoingView
  <2> QED BY <2>2, <2>3, <2>4 DEF OutgoingView
<1>14. IncomingView'
  BY <1>8 DEF MessageView, IncomingView, Votes, inboxVars
<1> QED BY <1>8, <1>13, <1>14 DEF MessageView

\* The three inbox events name the message; MessageAttestedTo carries the bits
\* after the attestation, and no other event needs to, because init_if_needed
\* forgets none.
LEMMA InboxIsTold ==
  ASSUME TypeOK, InboxSafe, MessageView, EmitsInbox
  PROVE  MessageView'
<1> USE DEF TypeOK, InboxTypeOK
<1>1. /\ UNCHANGED <<sequence_tracker, outbox_message, picked_up>>
      /\ \A i, n : Waiting(i, n)' = Waiting(i, n)
  BY DEF EmitsInbox, outboxVars, Waiting
<1>2. ASSUME DOMAIN view' = ViewFields, view'.sequence = view.sequence,
             view'.remaining = view.remaining, IncomingView'
      PROVE  MessageView'
  <2>1. \A i, n : WasPickedUp(i, n)' <=> WasPickedUp(i, n)
    BY <1>1 DEF WasPickedUp
  <2>2. OutgoingView'
    BY <1>1, <1>2, <2>1 DEF MessageView, OutgoingView
  <2> QED BY <1>2, <2>2 DEF MessageView
<1>3. PICK m \in Messages :
        \/ \E a \in Adapters :
             /\ attest_message(m, a)
             /\ MessageAttestedTo(m, attestation_info'[m].attested_adapters)
        \/ recv_message(m) /\ MessageReceived(m)
        \/ exec_message(m) /\ MessageExecuted(m)
  BY DEF EmitsInbox
<1>4. \A x \in Messages : x # m => attestation_info'[x] = attestation_info[x]
  BY <1>3 DEF attest_message, recv_message, exec_message
<1>5. /\ InitializedAttestationInfo(m) \in AttestationInfo
      /\ InitializedAttestationInfo(m).executed = attestation_info[m].executed
      /\ InitializedAttestationInfo(m).attested_adapters =
           attestation_info[m].attested_adapters
      /\ attestation_info[m] \in AttestationInfo
  BY InitKeepsAttestations
<1>6. ASSUME NEW a \in Adapters, attest_message(m, a),
             MessageAttestedTo(m, attestation_info'[m].attested_adapters)
      PROVE  MessageView'
  <2>1. /\ DOMAIN view' = ViewFields
        /\ view'.sequence = view.sequence
        /\ view'.remaining = view.remaining
        /\ view'.attested = [view.attested EXCEPT ![m] =
                               attestation_info'[m].attested_adapters]
        /\ view'.executed = view.executed
    BY <1>6 DEF MessageAttestedTo, MessageView, ViewFields
  <2>2. attestation_info'[m].executed = attestation_info[m].executed
    BY <1>5, <1>6 DEF attest_message, AttestationInfo
  <2>3. view'.attested = Votes'
    <3>1. Votes' = [Votes EXCEPT ![m] = attestation_info'[m].attested_adapters]
      BY <1>4 DEF Votes
    <3> QED BY <2>1, <3>1 DEF MessageView, IncomingView
  <2>4. IncomingView'
    BY <1>4, <2>1, <2>2, <2>3 DEF MessageView, IncomingView
  <2> QED BY <1>2, <2>1, <2>4
<1>7. ASSUME recv_message(m) \/ exec_message(m),
             MessageReceived(m) \/ MessageExecuted(m)
      PROVE  MessageView'
  <2>1. /\ DOMAIN view' = ViewFields
        /\ view'.sequence = view.sequence
        /\ view'.remaining = view.remaining
        /\ view'.attested = view.attested
        /\ view'.executed = view.executed \cup {m}
    BY <1>7 DEF MessageReceived, MessageExecuted, MessageView, ViewFields
  <2>2. attestation_info'[m].executed
    BY <1>5, <1>7 DEF recv_message, exec_message, AttestationInfo
  <2>3. attestation_info'[m].attested_adapters =
          attestation_info[m].attested_adapters
    BY <1>5, <1>7 DEF recv_message, exec_message, AttestationInfo
  <2>4. view'.attested = Votes'
    <3>1. \A n \in Messages : attestation_info'[n].attested_adapters =
                                attestation_info[n].attested_adapters
      BY <1>4, <2>3
    <3>2. Votes' = Votes
      BY <3>1 DEF Votes
    <3> QED BY <2>1, <3>2 DEF MessageView, IncomingView
  <2>5. IncomingView'
    BY <1>4, <2>1, <2>2, <2>4 DEF MessageView, IncomingView
  <2> QED BY <1>2, <2>1, <2>5
<1> QED BY <1>3, <1>6, <1>7

\* MessageView holds in every reachable state.
LEMMA MessageViewInvariant == EventSpec => []MessageView
<1>1. EventInit => MessageView
  <2> SUFFICES ASSUME EventInit PROVE MessageView
    OBVIOUS
  <2>1. /\ DOMAIN view = ViewFields
        /\ view.sequence = [i \in Integrators |-> None]
        /\ view.remaining =
             [i \in Integrators |-> [n \in 0 .. MaxSequence |-> None]]
        /\ view.attested = [m \in Messages |-> {}]
        /\ view.executed = {}
    BY DEF EventInit, ViewInit, ViewFields
  <2>2. OutgoingView
    BY <2>1 DEF EventInit, Init, OutboxInit, OutgoingView, WasPickedUp
  <2>3. IncomingView
    BY <2>1 DEF EventInit, Init, InboxInit, NoAttestationInfo, IncomingView,
      Votes
  <2> QED BY <2>1, <2>2, <2>3 DEF MessageView
<1>2. TypeOK /\ InboxSafe /\ OutboxInv /\ MessageView
        /\ [EventNext]_eventVars => MessageView'
  <2> SUFFICES ASSUME TypeOK, InboxSafe, OutboxInv, MessageView,
                      [EventNext]_eventVars
               PROVE  MessageView'
    OBVIOUS
  <2>1. CASE EmitsRegister
    BY <2>1, RegisterTellsSequence DEF EmitsRegister
  <2>2. CASE EmitsConfig
    BY <2>2, ConfigTellsNoMessage
  <2>3. CASE EmitsOutbox
    BY <2>3, SendIsTold, PickUpIsTold DEF EmitsOutbox
  <2>4. CASE EmitsInbox
    BY <2>4, InboxIsTold
  <2>5. CASE UNCHANGED eventVars
    <3>1. UNCHANGED <<view, outboxVars, inboxVars>>
      BY <2>5 DEF eventVars, vars, outboxVars, inboxVars
    <3> QED BY <3>1, NoMessageTold DEF MessageView
  <2> QED BY <2>1, <2>2, <2>3, <2>4, <2>5 DEF EventNext
<1> QED
  BY <1>1, <1>2, EventsOfSpec, TypeCorrect, InboxSafeInvariant,
    OutboxInvariant, PTL DEF EventSpec

\* A reader of the events knows the state of every message.
THEOREM ReaderKnowsMessages == EventSpec => []ViewMatchesMessages
<1>1. MessageView => ViewMatchesMessages
  BY DEF MessageView, OutgoingView, IncomingView, WasPickedUp, Waiting, Votes,
    ViewMatchesMessages
<1> QED
  BY <1>1, MessageViewInvariant, PTL

-----------------------------------------------------------------------------
(* Programs.  Their calls are instructions of the endpoint. *)

\* No two programs share a PDA: whoever signs as the integrator program p, or
\* as the adapter program p, is p.
LEMMA PdaNamesProgram ==
  ASSUME NEW p, NEW q
  PROVE  /\ SignedBy(IntegratorPda(p), IntegratorPda(q)) => p = q
         /\ SignedBy(AdapterPda(p), AdapterPda(q)) => p = q
BY DEF SignedBy, IntegratorPda, AdapterPda, Pda

\* A call of an integrator program is an instruction of the endpoint in which
\* the program is the integrator.
LEMMA IntegratorCalls ==
  ASSUME NEW p \in Integrators, IntegratorCall(p)
  PROVE  \/ \E u \in Users : register(p, u)
         \/ /\ \E k \in OutboxKeys, c \in ChainIds : send_message(p, k, c)
            /\ UNCHANGED <<configVars, inboxVars>>
         \/ /\ \E m \in Messages : /\ m.dst_addr = p
                                   /\ recv_message(m) \/ exec_message(m)
            /\ UNCHANGED <<configVars, outboxVars>>
BY PdaNamesProgram
DEF IntegratorCall, invoke_register, invoke_send_message, invoke_recv_message,
    invoke_exec_message, EndpointRegister, EndpointSend, EndpointRecv,
    EndpointExec

\* A call of an adapter program is an instruction in which it is the adapter.
LEMMA AdapterCalls ==
  ASSUME NEW p \in Adapters, AdapterCall(p)
  PROVE  \/ /\ \E k \in OutboxKeys : pick_up_message(k, p)
            /\ UNCHANGED <<configVars, inboxVars>>
         \/ /\ \E m \in Messages : attest_message(m, p)
            /\ UNCHANGED <<configVars, outboxVars>>
BY DEF AdapterCall, invoke_pick_up_message, invoke_attest_message,
       EndpointPickUp, EndpointAttest

\* Every call is a step of the endpoint.
LEMMA CallIsStep == [ProgramNext]_programVars => [Next]_vars
<1> SUFFICES ASSUME [ProgramNext]_programVars PROVE [Next]_vars
  OBVIOUS
<1>1. ASSUME NEW p \in Integrators, IntegratorCall(p) PROVE Next
  BY <1>1, IntegratorCalls DEF Next, OutboxStep, InboxStep
<1>2. ASSUME NEW p \in Adapters, AdapterCall(p) PROVE Next
  BY <1>2, AdapterCalls DEF Next, OutboxStep, InboxStep
<1>3. ASSUME NEW u \in Users, UserCall(u) PROVE Next
  BY <1>3 DEF UserCall, Next, ConfigStep
<1>4. CASE UNCHANGED programVars
  BY <1>4 DEF programVars
<1> QED BY <1>1, <1>2, <1>3, <1>4 DEF ProgramNext

\* The endpoint called by the programs is the endpoint called by anybody:
\* every theorem about Spec holds of ProgramSpec.
THEOREM ProgramsCallEndpoint == ProgramSpec => Spec
<1>1. ProgramInit => Init
  BY DEF ProgramInit
<1> QED
  BY <1>1, CallIsStep, PTL DEF ProgramSpec, Spec

-----------------------------------------------------------------------------
(* Each program acts for itself *)

\* EachActsForItself for one integrator, one message and one account.
IntegratorActed(i) ==
  /\ i \in registered' \ registered \/
     sequence_tracker'[i] # sequence_tracker[i] => caller' = i
  /\ i \in registered /\ ConfigOf(i)' # ConfigOf(i) => caller' = admin[i]
  /\ i \in registered /\ admin'[i] # admin[i] =>
       caller' \in {admin[i], pending_admin[i]}

InboxActed(m) ==
  LET before == attestation_info[m]
      after  == attestation_info'[m]
  IN
  /\ after.executed # before.executed => caller' = m.dst_addr
  /\ after.attested_adapters # before.attested_adapters =>
       /\ caller' \in Adapters
       /\ after.attested_adapters = before.attested_adapters
            \cup {adapter_info[m.dst_addr][caller']}

OutboxActed(k) ==
  LET before == outbox_message[k]
      after  == outbox_message'[k]
  IN
  /\ before = None /\ after # None => caller' = after.src_addr
  /\ before # None /\ after # before =>
       /\ caller' \in Adapters
       /\ before.outstanding_adapters =
            {adapter_info[before.src_addr][caller']}
              \cup IF after = None THEN {} ELSE after.outstanding_adapters

\* What changes an integrator: its own registration and sending, and its
\* admins' instructions.
LEMMA IntegratorActs ==
  ASSUME TypeOK, ProgramNext, NEW i \in Integrators
  PROVE  IntegratorActed(i)
<1> USE DEF TypeOK
<1>1. ASSUME NEW p \in Integrators, caller' = p, IntegratorCall(p)
      PROVE  IntegratorActed(i)
  <2>1. CASE \E u \in Users : register(p, u)
    <3>1. PICK u \in Users : register(p, u)
      BY <2>1
    <3>2. CASE p = i
      BY <1>1, <3>1, <3>2
      DEF register, RegisterConfig, IntegratorActed
    <3>3. CASE p # i
      <4>1. UNCHANGED <<admin[i], pending_admin[i], ConfigOf(i)>>
        BY <3>1, <3>3, RegisterLeavesOthers
      <4>2. i \notin registered' \ registered
            /\ sequence_tracker'[i] = sequence_tracker[i]
        BY <3>1, <3>3 DEF register, RegisterConfig, RegisterTracker,
          OutboxTypeOK
      <4> QED BY <4>1, <4>2 DEF IntegratorActed
    <3> QED BY <3>2, <3>3
  <2>2. CASE /\ \E k \in OutboxKeys, c \in ChainIds : send_message(p, k, c)
             /\ UNCHANGED <<configVars, inboxVars>>
    <3>1. p # i => sequence_tracker'[i] = sequence_tracker[i]
      BY <2>2 DEF send_message, next_sequence, OutboxTypeOK
    <3>2. UNCHANGED <<registered, admin[i], ConfigOf(i)>>
      BY <2>2 DEF configVars, ConfigOf
    <3> QED BY <1>1, <3>1, <3>2 DEF IntegratorActed
  <2>3. CASE UNCHANGED <<configVars, outboxVars>>
    BY <2>3 DEF configVars, outboxVars, ConfigOf, IntegratorActed
  <2> QED BY <1>1, <2>1, <2>2, <2>3, IntegratorCalls
<1>2. ASSUME NEW p \in Adapters, AdapterCall(p)
      PROVE  IntegratorActed(i)
  <2>1. UNCHANGED <<configVars, sequence_tracker>>
    BY <1>2, AdapterCalls DEF pick_up_message, outboxVars
  <2> QED BY <2>1 DEF configVars, ConfigOf, IntegratorActed
<1>3. ASSUME NEW u \in Users, caller' = u, UserCall(u)
      PROVE  IntegratorActed(i)
  <2>1. PICK j \in Integrators : AdminInstruction(j, u)
    BY <1>3 DEF UserCall
  <2>2. UNCHANGED <<registered, sequence_tracker>>
    <3>1. UNCHANGED sequence_tracker
      BY <1>3 DEF UserCall, outboxVars
    <3> QED BY <2>1, <3>1 DEF AdminInstruction, update_admin, transfer_admin,
          claim_admin, discard_admin, add_adapter, enable_recv_adapter,
          enable_send_adapter, disable_recv_adapter, disable_send_adapter,
          roleVars
  <2>3. CASE j # i
    <3>1. UNCHANGED <<admin[i], pending_admin[i], ConfigOf(i)>>
      BY <2>1, <2>3, OthersUnchanged
    <3> QED BY <2>2, <3>1 DEF IntegratorActed
  <2>4. CASE j = i
    <3>1. CASE check_admin(i, u)
      BY <1>3, <2>2, <3>1 DEF check_admin, IntegratorActed
    <3>2. CASE claim_admin(i, u)
      <4>1. u \in {admin[i], pending_admin[i]} /\ UNCHANGED ConfigOf(i)
        BY <3>2 DEF claim_admin, ClaimAdmin, ConfigOf, adapterVars
      <4> QED BY <1>3, <2>2, <4>1 DEF IntegratorActed
    <3> QED BY <2>1, <2>4, <3>1, <3>2, AdminInstructionIsChecked
  <2> QED BY <2>3, <2>4
<1> QED BY <1>1, <1>2, <1>3 DEF ProgramNext

\* What changes the attestations of a message: the integrator it is for, and
\* the adapters that attest.
LEMMA InboxActs ==
  ASSUME TypeOK, InboxSafe, ProgramNext, NEW m \in Messages
  PROVE  InboxActed(m)
<1> USE DEF TypeOK, InboxTypeOK
<1>1. ASSUME UNCHANGED inboxVars PROVE InboxActed(m)
  BY <1>1 DEF inboxVars, InboxActed
<1>2. ASSUME NEW n \in Messages,
             \/ \E a \in Adapters : attest_message(n, a)
             \/ recv_message(n)
             \/ exec_message(n),
             n # m
      PROVE  InboxActed(m)
  <2>1. attestation_info'[m] = attestation_info[m]
    BY <1>2 DEF attest_message, recv_message, exec_message
  <2> QED BY <2>1 DEF InboxActed
<1>3. attestation_info[m] \in AttestationInfo
  OBVIOUS
<1>4. /\ InitializedAttestationInfo(m) \in AttestationInfo
      /\ InitializedAttestationInfo(m).executed = attestation_info[m].executed
      /\ InitializedAttestationInfo(m).attested_adapters =
           attestation_info[m].attested_adapters
  BY InitKeepsAttestations
<1>5. ASSUME NEW p \in Integrators, caller' = p, IntegratorCall(p)
      PROVE  InboxActed(m)
  <2>1. CASE UNCHANGED inboxVars
    BY <1>1, <2>1
  <2>2. ASSUME NEW n \in Messages, n.dst_addr = p,
               recv_message(n) \/ exec_message(n)
        PROVE  InboxActed(m)
    <3>1. CASE n = m /\ recv_message(n)
      <4>1. attestation_info'[m].attested_adapters =
              attestation_info[m].attested_adapters
        BY <1>3, <3>1 DEF recv_message, AttestationInfo
      <4> QED BY <1>5, <2>2, <3>1, <4>1 DEF InboxActed
    <3>2. CASE n = m /\ exec_message(n)
      <4>1. attestation_info'[m].attested_adapters =
              attestation_info[m].attested_adapters
        BY <1>4, <3>2 DEF exec_message, AttestationInfo
      <4> QED BY <1>5, <2>2, <3>2, <4>1 DEF InboxActed
    <3>3. CASE n # m
      BY <1>2, <2>2, <3>3
    <3> QED BY <2>2, <3>1, <3>2, <3>3
  <2> QED BY <1>5, <2>1, <2>2, IntegratorCalls DEF register
<1>6. ASSUME NEW p \in Adapters, caller' = p, AdapterCall(p)
      PROVE  InboxActed(m)
  <2>1. CASE UNCHANGED inboxVars
    BY <1>1, <2>1
  <2>2. ASSUME NEW n \in Messages, attest_message(n, p)
        PROVE  InboxActed(m)
    <3>1. CASE n = m
      <4> DEFINE index == adapter_info[m.dst_addr][p]
      <4>1. /\ attestation_info'[m].executed = attestation_info[m].executed
            /\ attestation_info'[m].attested_adapters =
                 attestation_info[m].attested_adapters \cup {index}
        BY <1>4, <2>2, <3>1
        DEF attest_message, AttestationInfo, BitmapSet, AdapterIndex
      <4> QED BY <1>6, <4>1 DEF InboxActed
    <3>2. CASE n # m
      BY <1>2, <2>2, <3>2
    <3> QED BY <3>1, <3>2
  <2> QED BY <1>6, <2>1, <2>2, AdapterCalls
<1>7. ASSUME NEW u \in Users, UserCall(u)
      PROVE  InboxActed(m)
  BY <1>1, <1>7 DEF UserCall
<1> QED BY <1>5, <1>6, <1>7 DEF ProgramNext

\* What changes an outbox account: its sender creates it, and the adapters
\* whose bits it holds take them.
LEMMA OutboxActs ==
  ASSUME TypeOK, ProgramNext, NEW k \in OutboxKeys
  PROVE  OutboxActed(k)
<1> USE DEF TypeOK, OutboxTypeOK
<1>1. ASSUME outbox_message'[k] = outbox_message[k] PROVE OutboxActed(k)
  BY <1>1 DEF OutboxActed
<1>2. ASSUME NEW p \in Integrators, caller' = p, IntegratorCall(p)
      PROVE  OutboxActed(k)
  <2>1. CASE UNCHANGED outbox_message
    BY <1>1, <2>1
  <2>2. ASSUME NEW l \in OutboxKeys, NEW c \in ChainIds,
               send_message(p, l, c)
        PROVE  OutboxActed(k)
    <3>1. CASE l = k
      <4>1. outbox_message[k] = None /\ outbox_message'[k].src_addr = p
        BY <2>2, <3>1 DEF send_message
      <4> QED BY <1>2, <4>1 DEF OutboxActed
    <3>2. CASE l # k
      BY <1>1, <2>2, <3>2 DEF send_message
    <3> QED BY <3>1, <3>2
  <2>3. CASE \E u \in Users : register(p, u)
    BY <2>1, <2>3 DEF register, RegisterTracker
  <2> QED BY <1>2, <2>1, <2>2, <2>3, IntegratorCalls DEF outboxVars
<1>3. ASSUME NEW p \in Adapters, caller' = p, AdapterCall(p)
      PROVE  OutboxActed(k)
  <2>1. CASE UNCHANGED outbox_message
    BY <1>1, <2>1
  <2>2. ASSUME NEW l \in OutboxKeys, pick_up_message(l, p)
        PROVE  OutboxActed(k)
    <3>1. CASE l = k
      <4> DEFINE message == outbox_message[k]
                 index   == adapter_info[message.src_addr][p]
                 left    == message.outstanding_adapters \ {index}
      <4>1. /\ message # None /\ index \in message.outstanding_adapters
            /\ left = {} => outbox_message'[k] = None
            /\ left # {} =>
                 /\ outbox_message'[k] # None
                 /\ outbox_message'[k].outstanding_adapters = left
        BY <2>2, <3>1, PickUpClearsBit
      <4>2. message.outstanding_adapters = {index} \cup left
        BY <4>1
      <4> HIDE DEF index, left
      <4>3. left = IF outbox_message'[k] = None THEN {}
                   ELSE outbox_message'[k].outstanding_adapters
        BY <4>1
      <4> QED BY <1>3, <4>1, <4>2, <4>3 DEF OutboxActed, index
    <3>2. CASE l # k
      BY <1>1, <2>2, <3>2, PickUpClearsBit
    <3> QED BY <3>1, <3>2
  <2> QED BY <1>3, <2>1, <2>2, AdapterCalls DEF outboxVars
<1>4. ASSUME NEW u \in Users, UserCall(u)
      PROVE  OutboxActed(k)
  BY <1>1, <1>4 DEF UserCall, outboxVars
<1> QED BY <1>2, <1>3, <1>4 DEF ProgramNext

\* Whatever arguments the programs are called with, each acts for itself
\* only.
THEOREM ProgramsActForThemselves == ProgramSpec => EachActsForItself
<1>1. TypeOK /\ InboxSafe /\ [ProgramNext]_programVars
        => [/\ \A i \in Integrators : IntegratorActed(i)
            /\ \A m \in Messages : InboxActed(m)
            /\ \A k \in OutboxKeys : OutboxActed(k)]_programVars
  BY IntegratorActs, InboxActs, OutboxActs
<1> QED
  BY <1>1, ProgramsCallEndpoint, TypeCorrect, InboxSafeInvariant, PTL
  DEF ProgramSpec, EachActsForItself, IntegratorActed, InboxActed, OutboxActed

=============================================================================
