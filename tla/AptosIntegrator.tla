-------------------------- MODULE AptosIntegrator --------------------------
(***************************************************************************)
(* integrator.move and bitmap.move: the registration of integrators, their *)
(* admins and adapters on Aptos.  A transaction that fails an assertion    *)
(* aborts without effect, so assertions are guards.  A bitmap is the set   *)
(* of its one bits; a chain without a table entry reads as the empty one.  *)
(***************************************************************************)
EXTENDS Naturals, Sequences

CONSTANTS
  Integrators,   \* accounts that register
  Users,         \* addresses callers pass as admins
  ZeroAddress,   \* @0x0, which signs nothing
  Adapters,      \* addresses callers pass as adapters
  ChainIds,      \* chain ids callers pass; nothing is refused, not even 0
  None,          \* an empty Option, an absent resource or table entry
  MAX_ADAPTERS,  \* 128
  MaxSequence    \* the last u64: adding one to it aborts

ASSUME AptosAssumption ==
  /\ MAX_ADAPTERS \in 1 .. 128
  /\ MaxSequence \in Nat
  /\ None \notin Users \cup Nat

VARIABLES
  sequence,            \* IntegratorCapability, None before registration
  admin_addr,          \* AdminConfig.admin_addr
  pending_admin_addr,  \* AdminConfig.pending_admin_addr
  adapters,            \* AdaptersStore.adapters
  adapter_to_index,    \* AdapterToIndexStore.adapter_to_index
  send_bitmap,         \* SendAdapterStore.per_chain_adapter_bitmap
  recv_bitmap          \* RecvAdapterStore.per_chain_adapter_bitmap

adminVars == <<admin_addr, pending_admin_addr>>

adapterVars == <<adapters, adapter_to_index, send_bitmap, recv_bitmap>>

integratorVars == <<sequence, admin_addr, pending_admin_addr, adapters,
                    adapter_to_index, send_bitmap, recv_bitmap>>

Index == 0 .. MAX_ADAPTERS - 1

IntegratorTypeOK ==
  /\ sequence \in [Integrators -> 0 .. MaxSequence \cup {None}]
  /\ admin_addr \in [Integrators -> Users \cup {None}]
  /\ pending_admin_addr \in [Integrators -> Users \cup {None}]
  /\ adapters \in [Integrators -> Seq(Adapters)]
  /\ adapter_to_index \in [Integrators -> [Adapters -> Index \cup {None}]]
  /\ send_bitmap \in [Integrators -> [ChainIds -> SUBSET Index]]
  /\ recv_bitmap \in [Integrators -> [ChainIds -> SUBSET Index]]

IntegratorInit ==
  /\ sequence = [i \in Integrators |-> None]
  /\ admin_addr = [i \in Integrators |-> None]
  /\ pending_admin_addr = [i \in Integrators |-> None]
  /\ adapters = [i \in Integrators |-> <<>>]
  /\ adapter_to_index = [i \in Integrators |-> [a \in Adapters |-> None]]
  /\ send_bitmap = [i \in Integrators |-> [c \in ChainIds |-> {}]]
  /\ recv_bitmap = [i \in Integrators |-> [c \in ChainIds |-> {}]]

-----------------------------------------------------------------------------
(* bitmap.move *)

CanEnable(bitmap, index) == index \notin bitmap

enable(bitmap, index) == bitmap \cup {index}

CanDisable(bitmap, index) == index \in bitmap

disable(bitmap, index) == bitmap \ {index}

-----------------------------------------------------------------------------
(* Admins *)

\* Each resource of an integrator exists once it is registered; to borrow it
\* before that aborts.
Registered(i) == sequence[i] # None

\* Mutant: a pending transfer does not stop the admin.
CheckAdmin_IgnoresPending(i, signer) ==
  Registered(i) /\ admin_addr[i] = signer

\* The first assertions of every admin function but claim_admin.
CheckAdmin(i, signer) ==
  /\ Registered(i)
  /\ admin_addr[i] = signer
  /\ pending_admin_addr[i] = None

new_integrator(i, initial) ==
  /\ ~Registered(i)
  /\ initial # ZeroAddress
  /\ sequence' = [sequence EXCEPT ![i] = 0]
  /\ admin_addr' = [admin_addr EXCEPT ![i] = initial]
  /\ UNCHANGED <<pending_admin_addr, adapterVars>>

update_admin(i, signer, new) ==
  /\ CheckAdmin(i, signer)
  /\ new # ZeroAddress
  /\ admin_addr' = [admin_addr EXCEPT ![i] = new]
  /\ UNCHANGED <<sequence, pending_admin_addr, adapterVars>>

transfer_admin(i, signer, new) ==
  /\ CheckAdmin(i, signer)
  /\ new # ZeroAddress
  /\ pending_admin_addr' = [pending_admin_addr EXCEPT ![i] = new]
  /\ UNCHANGED <<sequence, admin_addr, adapterVars>>

\* swap aborts when there is no admin left.
claim_admin(i, signer) ==
  /\ Registered(i)
  /\ pending_admin_addr[i] # None
  /\ signer \in {admin_addr[i], pending_admin_addr[i]}
  /\ admin_addr[i] # None
  /\ admin_addr' = [admin_addr EXCEPT ![i] = signer]
  /\ pending_admin_addr' = [pending_admin_addr EXCEPT ![i] = None]
  /\ UNCHANGED <<sequence, adapterVars>>

discard_admin(i, signer) ==
  /\ CheckAdmin(i, signer)
  /\ admin_addr' = [admin_addr EXCEPT ![i] = None]
  /\ UNCHANGED <<sequence, pending_admin_addr, adapterVars>>

-----------------------------------------------------------------------------
(* Adapters *)

\* Mutant: the index is that of the next adapter.
NewIndex_AfterPush(i) == Len(adapters[i]) + 1

NewIndex(i) == Len(adapters[i])

add_adapter(i, signer, a) ==
  /\ CheckAdmin(i, signer)
  /\ \A n \in 1 .. Len(adapters[i]) : adapters[i][n] # a
  /\ Len(adapters[i]) < MAX_ADAPTERS
  /\ adapters' = [adapters EXCEPT ![i] = Append(@, a)]
  /\ adapter_to_index' = [adapter_to_index EXCEPT ![i][a] = NewIndex(i)]
  /\ UNCHANGED <<sequence, adminVars, send_bitmap, recv_bitmap>>

enable_send_adapter(i, signer, c, a) ==
  LET index == adapter_to_index[i][a] IN
  /\ CheckAdmin(i, signer)
  /\ index # None
  /\ CanEnable(send_bitmap[i][c], index)
  /\ send_bitmap' = [send_bitmap EXCEPT ![i][c] = enable(@, index)]
  /\ UNCHANGED <<sequence, adminVars, adapters, adapter_to_index, recv_bitmap>>

disable_send_adapter(i, signer, c, a) ==
  LET index == adapter_to_index[i][a] IN
  /\ CheckAdmin(i, signer)
  /\ index # None
  /\ CanDisable(send_bitmap[i][c], index)
  /\ send_bitmap' = [send_bitmap EXCEPT ![i][c] = disable(@, index)]
  /\ UNCHANGED <<sequence, adminVars, adapters, adapter_to_index, recv_bitmap>>

enable_recv_adapter(i, signer, c, a) ==
  LET index == adapter_to_index[i][a] IN
  /\ CheckAdmin(i, signer)
  /\ index # None
  /\ CanEnable(recv_bitmap[i][c], index)
  /\ recv_bitmap' = [recv_bitmap EXCEPT ![i][c] = enable(@, index)]
  /\ UNCHANGED <<sequence, adminVars, adapters, adapter_to_index, send_bitmap>>

disable_recv_adapter(i, signer, c, a) ==
  LET index == adapter_to_index[i][a] IN
  /\ CheckAdmin(i, signer)
  /\ index # None
  /\ CanDisable(recv_bitmap[i][c], index)
  /\ recv_bitmap' = [recv_bitmap EXCEPT ![i][c] = disable(@, index)]
  /\ UNCHANGED <<sequence, adminVars, adapters, adapter_to_index, send_bitmap>>

use_sequence(i) ==
  /\ Registered(i)
  /\ sequence[i] < MaxSequence
  /\ sequence' = [sequence EXCEPT ![i] = @ + 1]
  /\ UNCHANGED <<adminVars, adapterVars>>

AdminFunction(i, signer) ==
  \/ \E new \in Users : update_admin(i, signer, new)
  \/ \E new \in Users : transfer_admin(i, signer, new)
  \/ claim_admin(i, signer)
  \/ discard_admin(i, signer)
  \/ \E a \in Adapters : add_adapter(i, signer, a)
  \/ \E c \in ChainIds, a \in Adapters : enable_send_adapter(i, signer, c, a)
  \/ \E c \in ChainIds, a \in Adapters : disable_send_adapter(i, signer, c, a)
  \/ \E c \in ChainIds, a \in Adapters : enable_recv_adapter(i, signer, c, a)
  \/ \E c \in ChainIds, a \in Adapters : disable_recv_adapter(i, signer, c, a)

-----------------------------------------------------------------------------
\* The vector of adapters and the table of their indices, which add_adapter
\* writes one after the other, say the same, and every enabled bit is the index
\* of an adapter: a bit of no adapter would keep a message in the outbox.
AdapterTablesAgree ==
  \A i \in Integrators :
    /\ \A a \in Adapters, n \in 1 .. Len(adapters[i]) :
         adapters[i][n] = a <=> adapter_to_index[i][a] = n - 1
    /\ \A a \in Adapters : adapter_to_index[i][a] # None =>
         adapter_to_index[i][a] < Len(adapters[i])
    /\ \A c \in ChainIds :
         send_bitmap[i][c] \cup recv_bitmap[i][c]
           \subseteq 0 .. Len(adapters[i]) - 1

=============================================================================
