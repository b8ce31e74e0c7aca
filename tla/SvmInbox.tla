------------------------------ MODULE SvmInbox ------------------------------
(***************************************************************************)
(* The receiving half of the SVM endpoint: adapters attest to messages and *)
(* the destination integrator receives or executes each message once.      *)
(* The AttestationInfo account is the PDA of the message hash, which       *)
(* covers every field of the message, so an account is named by the        *)
(* message itself.  The account is created by whichever of attest_message  *)
(* and exec_message comes first; the handlers tell a new account by its    *)
(* zero src_chain.                                                         *)
(***************************************************************************)
EXTENDS SvmConfig

CONSTANTS
  Messages,    \* the messages callers name in their arguments
  CHAIN_ID     \* the chain this program runs on

\* A message is the fields the handlers look at; the source address, the
\* sequence and the payload hash would only tell more messages apart.
ASSUME InboxAssumption ==
  /\ CHAIN_ID \in ChainIds \ {0}
  /\ \A m \in Messages : /\ m.src_chain \in ChainIds
                         /\ m.dst_chain \in ChainIds
                         /\ m.dst_addr \in Integrators

VARIABLES
  attestation_info,   \* AttestationInfo by message
  message_received,   \* the last MessageReceived event
  deliveries,         \* history: the recv and exec calls that succeeded
  attested_by         \* history: who attested to which message

inboxVars == <<attestation_info, message_received, deliveries, attested_by>>

AttestationInfo == [exists : BOOLEAN, src_chain : ChainIds \cup {0},
                    executed : BOOLEAN, attested_adapters : SUBSET Index]

\* What init_if_needed finds or creates before a handler has written it.
NoAttestationInfo == [exists |-> FALSE, src_chain |-> 0, executed |-> FALSE,
                      attested_adapters |-> {}]

InboxTypeOK ==
  /\ attestation_info \in [Messages -> AttestationInfo]
  /\ message_received \in [message : Messages \cup {None},
                           enabled_bitmap : SUBSET Index,
                           attested_bitmap : SUBSET Index]
  /\ deliveries \in [Messages -> Seq({"recv", "exec"})]
  /\ attested_by \subseteq Messages \X Adapters

InboxInit ==
  /\ attestation_info = [m \in Messages |-> NoAttestationInfo]
  /\ message_received = [message |-> None, enabled_bitmap |-> {},
                         attested_bitmap |-> {}]
  /\ deliveries = [m \in Messages |-> <<>>]
  /\ attested_by = {}

-----------------------------------------------------------------------------
\* Mutant: chain ids are not checked.
NewIsValid_Unchecked(m) == TRUE

\* AttestationInfo::new refuses a zero chain id on either side.
NewIsValid(m) == m.src_chain # 0 /\ m.dst_chain # 0

NewAttestationInfo(m) ==
  [exists |-> TRUE, src_chain |-> m.src_chain, executed |-> FALSE,
   attested_adapters |-> {}]

\* init_if_needed, then set_inner(new(...)?) when src_chain still reads 0.
InitGuard(m) == attestation_info[m].src_chain = 0 => NewIsValid(m)

\* Mutant: the account is initialised on every call.
InitializedAttestationInfo_Always(m) == NewAttestationInfo(m)

InitializedAttestationInfo(m) ==
  IF attestation_info[m].src_chain = 0
  THEN NewAttestationInfo(m)
  ELSE attestation_info[m]

\* attest_message by adapter a.
attest_message(m, a) ==
  LET index  == AdapterIndex(m.dst_addr, a)
      config == chain_config[m.dst_addr][m.src_chain]
      info   == InitializedAttestationInfo(m)
  IN
  /\ index # None
  /\ config.exists
  /\ m.dst_chain = CHAIN_ID
  /\ BitmapGet(config.recv_adapter_bitmap, index)
  /\ InitGuard(m)
  /\ ~BitmapGet(info.attested_adapters, index)
  /\ attestation_info' = [attestation_info EXCEPT ![m] =
       [info EXCEPT !.attested_adapters = BitmapSet(@, index, TRUE)]]
  /\ attested_by' = attested_by \cup {<<m, a>>}
  /\ UNCHANGED <<message_received, deliveries>>

\* Mutant: no replay protection.
NotExecuted_Unchecked(m) == TRUE

NotExecuted(m) == ~attestation_info[m].executed

\* Mutant: recv_message creates the account when it is missing.
AttestationInfoExists_IfNeeded(m) == TRUE

\* recv_message takes the account without `init`: it must exist.
AttestationInfoExists(m) == attestation_info[m].exists

\* recv_message by the integrator the message is for.  The attestation account
\* must exist; nothing else is asked of its bitmap, of the chains, or of the
\* enabled adapters.
recv_message(m) ==
  LET info   == attestation_info[m]
      config == chain_config[m.dst_addr][m.src_chain]
  IN
  /\ config.exists
  /\ AttestationInfoExists(m)
  /\ NotExecuted(m)
  /\ attestation_info' = [attestation_info EXCEPT ![m].executed = TRUE]
  /\ message_received' = [message |-> m,
                          enabled_bitmap |-> config.recv_adapter_bitmap,
                          attested_bitmap |-> info.attested_adapters]
  /\ deliveries' = [deliveries EXCEPT ![m] = Append(@, "recv")]
  /\ UNCHANGED attested_by

\* exec_message by the integrator the message is for: no attestation, no
\* registration and no chain config needed.
exec_message(m) ==
  LET info == InitializedAttestationInfo(m) IN
  /\ NotExecuted(m)
  /\ InitGuard(m)
  /\ attestation_info' = [attestation_info EXCEPT ![m] =
                            [info EXCEPT !.executed = TRUE]]
  /\ deliveries' = [deliveries EXCEPT ![m] = Append(@, "exec")]
  /\ UNCHANGED <<message_received, attested_by>>

=============================================================================
