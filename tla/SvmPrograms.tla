---------------------------- MODULE SvmPrograms ----------------------------
(***************************************************************************)
(* The programs that call the SVM endpoint: integrators that run the mock  *)
(* integrator's code and adapters that run the mock adapter's.  Anyone may *)
(* call them with any arguments; each makes one cross-program call to the  *)
(* endpoint, signed with a PDA of its own, the only kind the runtime lets  *)
(* a program sign with.  The mock integrator passes its caller's           *)
(* integrator_program_id on to recv_message and exec_message, so it is the *)
(* endpoint that must refuse a foreign one.                                *)
(***************************************************************************)
EXTENDS SvmEndpoint

VARIABLE
  caller   \* history: who called the endpoint last, a program or a user

programVars == <<vars, caller>>

\* The address derived from a seed and a program id; no two have the same.
Pda(seed, program_id) == <<seed, program_id>>

IntegratorPda(program_id) == Pda("endpoint_integrator", program_id)

AdapterPda(program_id) == Pda("adapter_pda", program_id)

\* Mutant: any signer will do.
SignedBy_Unchecked(pda, signer) == TRUE

\* The `seeds` and `seeds::program` constraints on the signing account: the
\* endpoint derives the address from the program id in the arguments.
SignedBy(pda, signer) == signer = pda

-----------------------------------------------------------------------------
(* The instructions of the endpoint that a PDA must sign. *)

EndpointRegister(integrator_program_id, initial_admin, signer) ==
  /\ SignedBy(IntegratorPda(integrator_program_id), signer)
  /\ register(integrator_program_id, initial_admin)

EndpointSend(integrator_program_id, k, dst_chain, signer) ==
  /\ SignedBy(IntegratorPda(integrator_program_id), signer)
  /\ send_message(integrator_program_id, k, dst_chain)
  /\ UNCHANGED <<configVars, inboxVars>>

EndpointRecv(m, signer) ==
  /\ SignedBy(IntegratorPda(m.dst_addr), signer)
  /\ recv_message(m)
  /\ UNCHANGED <<configVars, outboxVars>>

EndpointExec(m, signer) ==
  /\ SignedBy(IntegratorPda(m.dst_addr), signer)
  /\ exec_message(m)
  /\ UNCHANGED <<configVars, outboxVars>>

EndpointPickUp(k, adapter_program_id, signer) ==
  /\ SignedBy(AdapterPda(adapter_program_id), signer)
  /\ pick_up_message(k, adapter_program_id)
  /\ UNCHANGED <<configVars, inboxVars>>

EndpointAttest(m, adapter_program_id, signer) ==
  /\ SignedBy(AdapterPda(adapter_program_id), signer)
  /\ attest_message(m, adapter_program_id)
  /\ UNCHANGED <<configVars, outboxVars>>

-----------------------------------------------------------------------------
(* The mock integrator, as program self. *)

invoke_register(self, initial_admin) ==
  EndpointRegister(self, initial_admin, IntegratorPda(self))

invoke_send_message(self, k, dst_chain) ==
  EndpointSend(self, k, dst_chain, IntegratorPda(self))

\* The caller's arguments, integrator_program_id (m.dst_addr) among them.
invoke_recv_message(self, m) == EndpointRecv(m, IntegratorPda(self))

invoke_exec_message(self, m) == EndpointExec(m, IntegratorPda(self))

(* The mock adapter, as program self. *)

\* The caller chooses the outbox account, and so the source integrator.
invoke_pick_up_message(self, k) ==
  EndpointPickUp(k, self, AdapterPda(self))

invoke_attest_message(self, m) ==
  EndpointAttest(m, self, AdapterPda(self))

-----------------------------------------------------------------------------
IntegratorCall(self) ==
  \/ \E u \in Users : invoke_register(self, u)
  \/ \E k \in OutboxKeys, c \in ChainIds : invoke_send_message(self, k, c)
  \/ \E m \in Messages : invoke_recv_message(self, m)
  \/ \E m \in Messages : invoke_exec_message(self, m)

AdapterCall(self) ==
  \/ \E k \in OutboxKeys : invoke_pick_up_message(self, k)
  \/ \E m \in Messages : invoke_attest_message(self, m)

UserCall(u) ==
  /\ \E i \in Integrators : AdminInstruction(i, u)
  /\ UNCHANGED <<outboxVars, inboxVars>>

ProgramInit == Init /\ caller = None

ProgramNext ==
  \/ \E p \in Integrators : IntegratorCall(p) /\ caller' = p
  \/ \E p \in Adapters : AdapterCall(p) /\ caller' = p
  \/ \E u \in Users : UserCall(u) /\ caller' = u

ProgramSpec == ProgramInit /\ [][ProgramNext]_programVars

-----------------------------------------------------------------------------
\* Whatever arguments a program is called with, it acts for itself only.  Its
\* registration, its sequence, its messages and their delivery change in its
\* own calls; a bit of an outbox message or of an attestation changes in the
\* call of the adapter registered at that index by the message's integrator;
\* everything else about an integrator is changed by its admins.
EachActsForItself ==
  [][/\ \A i \in Integrators :
          /\ i \in registered' \ registered \/
             sequence_tracker'[i] # sequence_tracker[i] => caller' = i
          /\ i \in registered /\ ConfigOf(i)' # ConfigOf(i) =>
               caller' = admin[i]
          /\ i \in registered /\ admin'[i] # admin[i] =>
               caller' \in {admin[i], pending_admin[i]}
     /\ \A m \in Messages :
          LET before == attestation_info[m]
              after  == attestation_info'[m]
          IN
          /\ after.executed # before.executed => caller' = m.dst_addr
          /\ after.attested_adapters # before.attested_adapters =>
               /\ caller' \in Adapters
               /\ after.attested_adapters = before.attested_adapters
                    \cup {adapter_info[m.dst_addr][caller']}
     /\ \A k \in OutboxKeys :
          LET before == outbox_message[k]
              after  == outbox_message'[k]
          IN
          /\ before = None /\ after # None => caller' = after.src_addr
          /\ before # None /\ after # before =>
               /\ caller' \in Adapters
               /\ before.outstanding_adapters =
                    {adapter_info[before.src_addr][caller']}
                      \cup IF after = None THEN {}
                           ELSE after.outstanding_adapters]_programVars

=============================================================================
