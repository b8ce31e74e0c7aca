----------------------------- MODULE SvmOutbox -----------------------------
(***************************************************************************)
(* The sending half of the SVM endpoint: send_message creates an           *)
(* OutboxMessage account holding the bitmap of the adapters enabled for    *)
(* the destination chain at that moment, and each of those adapters later  *)
(* clears its own bit with pick_up_message; the last one closes the        *)
(* account.  The account is a fresh key pair chosen by the caller, not a   *)
(* PDA, so a key can be used again once its account is closed.             *)
(*                                                                         *)
(* The destination address, the payload hash and the rent refund do not    *)
(* influence control and are left out: a message is identified by its      *)
(* source and its sequence, as in the MessagePickedUp event.               *)
(***************************************************************************)
EXTENDS SvmConfig

CONSTANTS
  OutboxKeys,    \* key pairs callers use for OutboxMessage accounts
  MaxSequence    \* u64::MAX

OutboxMessage == [src_addr : Integrators, sequence : Nat, dst_chain : ChainIds,
                  outstanding_adapters : SUBSET Index]

ASSUME OutboxAssumption ==
  /\ MaxSequence \in Nat
  /\ None \notin OutboxMessage

VARIABLES
  sequence_tracker,   \* SequenceTracker.sequence, None before `register`
  outbox_message,     \* OutboxMessage by key, None when closed
  message_sent,       \* the last MessageSent event (its sender and sequence)
  sent,               \* history: every message sent, with its send adapters
  picked_up           \* history: who picked up which message

outboxVars == <<sequence_tracker, outbox_message, message_sent, sent,
                picked_up>>

SentMessage == [src_addr : Integrators, sequence : Nat,
                adapters : SUBSET Index]

PickUp == [src_addr : Integrators, sequence : Nat, adapter : Adapters]

OutboxTypeOK ==
  /\ sequence_tracker \in [Integrators -> Nat \cup {None}]
  /\ outbox_message \in [OutboxKeys -> OutboxMessage \cup {None}]
  /\ message_sent \in [sender : Integrators \cup {None}, sequence : Nat]
  /\ sent \subseteq SentMessage
  /\ picked_up \subseteq PickUp

OutboxInit ==
  /\ sequence_tracker = [i \in Integrators |-> None]
  /\ outbox_message = [k \in OutboxKeys |-> None]
  /\ message_sent = [sender |-> None, sequence |-> 0]
  /\ sent = {}
  /\ picked_up = {}

-----------------------------------------------------------------------------
\* The SequenceTracker part of `register`, an `init` like the other account.
RegisterTracker(i) ==
  /\ sequence_tracker[i] = None
  /\ sequence_tracker' = [sequence_tracker EXCEPT ![i] = 0]
  /\ UNCHANGED <<outbox_message, message_sent, sent, picked_up>>

\* Mutant: the number is read without being consumed.
next_sequence_NotConsumed(i) ==
  /\ sequence_tracker[i] # None
  /\ UNCHANGED sequence_tracker

\* SequenceTracker::next_sequence: hands out the stored number and adds one;
\* the checked addition panics, and so fails the instruction, at u64::MAX.
next_sequence(i) ==
  /\ sequence_tracker[i] # None
  /\ sequence_tracker[i] < MaxSequence
  /\ sequence_tracker' = [sequence_tracker EXCEPT ![i] = @ + 1]

\* send_message by integrator i to chain c in the account of key k.  The event
\* reads the tracker after next_sequence has advanced it.
send_message(i, k, c) ==
  LET enabled == chain_config[i][c].send_adapter_bitmap IN
  /\ chain_config[i][c].exists
  /\ outbox_message[k] = None
  /\ enabled # {}
  /\ next_sequence(i)
  /\ outbox_message' = [outbox_message EXCEPT ![k] =
       [src_addr |-> i, sequence |-> sequence_tracker[i], dst_chain |-> c,
        outstanding_adapters |-> enabled]]
  /\ message_sent' = [sender |-> i, sequence |-> sequence_tracker'[i]]
  /\ sent' = sent \cup {[src_addr |-> i, sequence |-> sequence_tracker[i],
                         adapters |-> enabled]}
  /\ UNCHANGED picked_up

\* Mutant: the account is closed at the first pick-up.
CloseIfEmpty_AtOnce(message) == None

\* Mutant: the account is never closed.
CloseIfEmpty_Never(message) == message

\* Writing the remaining bits back, or closing the account at the last one.
CloseIfEmpty(message) ==
  IF message.outstanding_adapters = {} THEN None ELSE message

\* pick_up_message by adapter a.  Only the AdapterInfo of the message's source
\* and the bitmap taken at send time count, not the current chain config.
pick_up_message(k, a) ==
  LET message == outbox_message[k]
      index   == AdapterIndex(message.src_addr, a)
  IN
  /\ message # None
  /\ index # None
  /\ BitmapGet(message.outstanding_adapters, index)
  /\ outbox_message' = [outbox_message EXCEPT ![k] = CloseIfEmpty(
       [message EXCEPT !.outstanding_adapters = BitmapSet(@, index, FALSE)])]
  /\ picked_up' = picked_up \cup {[src_addr |-> message.src_addr,
                                   sequence |-> message.sequence,
                                   adapter |-> a]}
  /\ UNCHANGED <<sequence_tracker, message_sent, sent>>

=============================================================================
