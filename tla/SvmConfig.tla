----------------------------- MODULE SvmConfig -----------------------------
(***************************************************************************)
(* The configuration half of the SVM endpoint program: the accounts an     *)
(* integrator's admin controls (IntegratorConfig, AdapterInfo and          *)
(* IntegratorChainConfig) and the instructions that change them.           *)
(*                                                                         *)
(* An instruction is atomic: Anchor validates the accounts, runs the       *)
(* handler and keeps no effect when any check fails, so one action is one  *)
(* successful instruction and a failing one is a disabled action.  Public  *)
(* keys are model values; a Bitmap is the set of the positions of its      *)
(* one bits; a PDA is modelled by the seeds it is derived from.            *)
(***************************************************************************)
EXTENDS Naturals, Sequences

CONSTANTS
  Integrators,   \* integrator programs
  Users,         \* keys that can be an admin and can sign
  Adapters,      \* adapter programs
  ChainIds,      \* the chain ids callers pass, 0 among them
  MaxAdapters,   \* IntegratorConfig::MAX_ADAPTERS and Bitmap::BITS, both 128
  None           \* Option::None, and "there is no such account"

ASSUME ConfigAssumption ==
  /\ ChainIds \subseteq Nat
  /\ MaxAdapters \in Nat \ {0}
  /\ None \notin Users
  /\ None \notin Nat

VARIABLES
  registered,      \* integrators whose IntegratorConfig account exists
  admin,           \* IntegratorConfig.admin
  pending_admin,   \* IntegratorConfig.pending_admin
  adapter_infos,   \* IntegratorConfig.adapter_infos, the append-only list
  adapter_info,    \* AdapterInfo.index by (integrator, adapter), or None
  chain_config,    \* IntegratorChainConfig by (integrator, chain)
  admin_updated    \* the last AdminUpdated event; the other events of these
                   \* instructions repeat arguments or the new index

roleVars == <<registered, admin, pending_admin, admin_updated>>

adapterVars == <<adapter_infos, adapter_info>>

configVars == <<registered, admin, pending_admin, admin_updated,
                adapter_infos, adapter_info, chain_config>>

Index == 0 .. MaxAdapters - 1

\* IntegratorChainConfig, with whether the account has been created.  Anchor
\* creates an account zeroed, so an absent one already reads as zeros.
ChainConfig == [exists : BOOLEAN, chain_id : ChainIds \cup {0},
                send_adapter_bitmap : SUBSET Index,
                recv_adapter_bitmap : SUBSET Index]

NoChainConfig == [exists |-> FALSE, chain_id |-> 0,
                  send_adapter_bitmap |-> {}, recv_adapter_bitmap |-> {}]

\* The AdminUpdated event, all None while none has been emitted.
AdminUpdated == [integrator : Integrators \cup {None},
                 old_admin : Users \cup {None}, new_admin : Users \cup {None}]

ConfigTypeOK ==
  /\ registered \subseteq Integrators
  /\ admin \in [Integrators -> Users \cup {None}]
  /\ pending_admin \in [Integrators -> Users \cup {None}]
  /\ adapter_infos \in [Integrators -> Seq(Adapters)]
  /\ adapter_info \in [Integrators -> [Adapters -> Index \cup {None}]]
  /\ chain_config \in [Integrators -> [ChainIds -> ChainConfig]]
  /\ admin_updated \in AdminUpdated

ConfigInit ==
  /\ registered = {}
  /\ admin = [i \in Integrators |-> None]
  /\ pending_admin = [i \in Integrators |-> None]
  /\ adapter_infos = [i \in Integrators |-> <<>>]
  /\ adapter_info = [i \in Integrators |-> [a \in Adapters |-> None]]
  /\ chain_config = [i \in Integrators |-> [c \in ChainIds |-> NoChainConfig]]
  /\ admin_updated = [integrator |-> None, old_admin |-> None,
                      new_admin |-> None]

-----------------------------------------------------------------------------
\* Bitmap::get and Bitmap::set, on the set of the one bits.  Both fail on an
\* index past the last bit, which disables the action that uses them.
BitmapIndexOk(index) == index < MaxAdapters

BitmapGet(bitmap, index) == index \in bitmap

BitmapSet(bitmap, index, value) ==
  IF value THEN bitmap \cup {index} ELSE bitmap \ {index}

\* Mutant: a pending transfer is not looked at.
check_admin_IgnoresPending(i, signer) ==
  /\ i \in registered
  /\ admin[i] = signer

\* Mutant: without an admin, anybody may act.
check_admin_OpenWithoutAdmin(i, signer) ==
  /\ i \in registered
  /\ admin[i] \in {signer, None}
  /\ pending_admin[i] = None

\* IntegratorConfig::check_admin, with the account constraint that the
\* configuration exists.
check_admin(i, signer) ==
  /\ i \in registered
  /\ admin[i] = signer
  /\ pending_admin[i] = None

\* The IntegratorConfig part of `register`.  `init` refuses an account that
\* already exists, so an integrator registers once.
RegisterConfig(i, initial_admin) ==
  /\ i \notin registered
  /\ registered' = registered \cup {i}
  /\ admin' = [admin EXCEPT ![i] = initial_admin]
  /\ pending_admin' = [pending_admin EXCEPT ![i] = None]
  /\ adapter_infos' = [adapter_infos EXCEPT ![i] = <<>>]
  /\ UNCHANGED <<adapter_info, chain_config, admin_updated>>

\* update_admin: one-step hand over.  The event reads the admin field after
\* it was assigned.
update_admin(i, signer, new_admin) ==
  /\ check_admin(i, signer)
  /\ admin' = [admin EXCEPT ![i] = new_admin]
  /\ admin_updated' = [integrator |-> i,
                       old_admin |-> admin'[i], new_admin |-> new_admin]
  /\ UNCHANGED <<registered, pending_admin, adapterVars, chain_config>>

\* transfer_admin: first step of the two-step hand over.
transfer_admin(i, signer, new_admin) ==
  /\ check_admin(i, signer)
  /\ pending_admin' = [pending_admin EXCEPT ![i] = new_admin]
  /\ UNCHANGED <<registered, admin, admin_updated, adapterVars, chain_config>>

\* Mutant: whoever signs may settle a pending transfer.
ClaimAdmin_AnySigner(i, signer) ==
  /\ i \in registered
  /\ admin[i] # None
  /\ pending_admin[i] # None

\* The account constraints of claim_admin.
ClaimAdmin(i, signer) ==
  /\ i \in registered
  /\ admin[i] # None
  /\ pending_admin[i] # None
  /\ signer \in {pending_admin[i], admin[i]}

\* claim_admin: the pending admin completes the hand over, or the current
\* admin cancels it.  The event reads the admin field after the assignment.
claim_admin(i, signer) ==
  /\ ClaimAdmin(i, signer)
  /\ admin' = [admin EXCEPT ![i] = signer]
  /\ pending_admin' = [pending_admin EXCEPT ![i] = None]
  /\ admin_updated' = [integrator |-> i,
                       old_admin |-> admin'[i], new_admin |-> signer]
  /\ UNCHANGED <<registered, adapterVars, chain_config>>

\* discard_admin: the configuration becomes immutable.
discard_admin(i, signer) ==
  /\ check_admin(i, signer)
  /\ admin' = [admin EXCEPT ![i] = None]
  /\ UNCHANGED <<registered, pending_admin, admin_updated, adapterVars,
                 chain_config>>

\* Mutant: the index is read after the push.
NextIndex_AfterPush(i) == Len(adapter_infos[i]) + 1

NextIndex(i) == Len(adapter_infos[i])

\* Mutant: one adapter too many.
HasRoom_OffByOne(i) == Len(adapter_infos[i]) <= MaxAdapters

\* The length check of IntegratorConfig::add_adapter.
HasRoom(i) == Len(adapter_infos[i]) < MaxAdapters

\* Mutant: init_if_needed instead of init.
AdapterInfoIsNew_IfNeeded(i, a) == TRUE

\* `init` refuses an adapter that already has an AdapterInfo account.
AdapterInfoIsNew(i, a) == adapter_info[i][a] = None

\* add_adapter: the index is the list's length before the push.
add_adapter(i, signer, a) ==
  LET index == NextIndex(i) IN
  /\ check_admin(i, signer)
  /\ AdapterInfoIsNew(i, a)
  /\ HasRoom(i)
  /\ adapter_infos' = [adapter_infos EXCEPT ![i] = Append(@, a)]
  /\ adapter_info' = [adapter_info EXCEPT ![i][a] = index]
  /\ UNCHANGED <<roleVars, chain_config>>

\* The AdapterInfo PDA is derived from the integrator and the adapter.
AdapterIndex(i, a) == adapter_info[i][a]

\* The accounts and the access control of the four enable and disable
\* instructions; enabling also refuses chain id 0.
EnableAdapter(i, signer, c, a) ==
  /\ check_admin(i, signer)
  /\ c # 0
  /\ AdapterIndex(i, a) # None
  /\ BitmapIndexOk(AdapterIndex(i, a))

DisableAdapter(i, signer, c, a) ==
  /\ check_admin(i, signer)
  /\ chain_config[i][c].exists
  /\ AdapterIndex(i, a) # None
  /\ BitmapIndexOk(AdapterIndex(i, a))

\* `init_if_needed` followed by set_inner when chain_id still reads 0.
InitializedChainConfig(i, c) ==
  IF chain_config[i][c].chain_id = 0
  THEN [exists |-> TRUE, chain_id |-> c, send_adapter_bitmap |-> {},
        recv_adapter_bitmap |-> {}]
  ELSE chain_config[i][c]

enable_recv_adapter(i, signer, c, a) ==
  LET config == InitializedChainConfig(i, c)
      index  == AdapterIndex(i, a)
  IN
  /\ EnableAdapter(i, signer, c, a)
  /\ ~BitmapGet(config.recv_adapter_bitmap, index)
  /\ chain_config' = [chain_config EXCEPT ![i][c] =
       [config EXCEPT !.recv_adapter_bitmap = BitmapSet(@, index, TRUE)]]
  /\ UNCHANGED <<roleVars, adapterVars>>

enable_send_adapter(i, signer, c, a) ==
  LET config == InitializedChainConfig(i, c)
      index  == AdapterIndex(i, a)
  IN
  /\ EnableAdapter(i, signer, c, a)
  /\ ~BitmapGet(config.send_adapter_bitmap, index)
  /\ chain_config' = [chain_config EXCEPT ![i][c] =
       [config EXCEPT !.send_adapter_bitmap = BitmapSet(@, index, TRUE)]]
  /\ UNCHANGED <<roleVars, adapterVars>>

disable_recv_adapter(i, signer, c, a) ==
  LET config == chain_config[i][c]
      index  == AdapterIndex(i, a)
  IN
  /\ DisableAdapter(i, signer, c, a)
  /\ BitmapGet(config.recv_adapter_bitmap, index)
  /\ chain_config' = [chain_config EXCEPT ![i][c] =
       [config EXCEPT !.recv_adapter_bitmap = BitmapSet(@, index, FALSE)]]
  /\ UNCHANGED <<roleVars, adapterVars>>

disable_send_adapter(i, signer, c, a) ==
  LET config == chain_config[i][c]
      index  == AdapterIndex(i, a)
  IN
  /\ DisableAdapter(i, signer, c, a)
  /\ BitmapGet(config.send_adapter_bitmap, index)
  /\ chain_config' = [chain_config EXCEPT ![i][c] =
       [config EXCEPT !.send_adapter_bitmap = BitmapSet(@, index, FALSE)]]
  /\ UNCHANGED <<roleVars, adapterVars>>

\* The instructions an admin (or a pending admin) signs for integrator i.
AdminInstruction(i, signer) ==
  \/ \E new_admin \in Users : update_admin(i, signer, new_admin)
  \/ \E new_admin \in Users : transfer_admin(i, signer, new_admin)
  \/ claim_admin(i, signer)
  \/ discard_admin(i, signer)
  \/ \E a \in Adapters : add_adapter(i, signer, a)
  \/ \E c \in ChainIds, a \in Adapters : enable_recv_adapter(i, signer, c, a)
  \/ \E c \in ChainIds, a \in Adapters : enable_send_adapter(i, signer, c, a)
  \/ \E c \in ChainIds, a \in Adapters : disable_recv_adapter(i, signer, c, a)
  \/ \E c \in ChainIds, a \in Adapters : disable_send_adapter(i, signer, c, a)

=============================================================================
