# TLA+ models of the GMP endpoint

The repository implements a message *endpoint* three times: as a Solana program
(`src/svm`), as Solidity contracts (`src/evm`) and as Move modules
(`src/aptos`). An *integrator* registers with the endpoint on its chain and
names an *admin*; the admin registers *adapters* (bridges) and enables them per
chain, separately for sending and for receiving. To send, the integrator hands a
message to the endpoint and every enabled send adapter carries it; to receive,
adapters attest to the message at the endpoint of the destination and the
integrator asks the endpoint to mark it received, once. How many attestations
are enough is for the integrator to decide.

This directory holds models of that system, the TLC configurations that check
them and proofs of the main properties for every value of the parameters.

## Inventory

### SVM endpoint (`src/svm/programs/endpoint`)

| part | state | operations |
|---|---|---|
| configuration | `IntegratorConfig` (admin, pending admin, list of adapters), `AdapterInfo` (index per integrator and adapter), `IntegratorChainConfig` (two bitmaps per integrator and chain) | `register`, `update_admin`, `transfer_admin`, `claim_admin`, `discard_admin`, `add_adapter`, `enable_recv_adapter`, `enable_send_adapter`, `disable_recv_adapter`, `disable_send_adapter` |
| outbox | `SequenceTracker`, `OutboxMessage` (one account per message, with the bitmap of the adapters that still have to take it) | `send_message`, `pick_up_message` |
| inbox | `AttestationInfo` (bitmap of attestations, executed flag) | `attest_message`, `recv_message`, `exec_message` |
| bitmap | the 128 bits inside the others | `get`, `set`, `is_empty` |

The configuration is shared: `send_message` copies the send bitmap into the
outbox account, `attest_message` reads the receive bitmap, and every stored
bitmap is read through the index in `AdapterInfo`. Admins, integrators and
adapters submit instructions independently, so their steps interleave in any
order. What makes this hard:

- accounts created by `init_if_needed` tell "new" from "old" by a zero chain id
  in their data, in three handlers;
- `recv_message` looks at no attestation: it relies on what the other two
  handlers leave in the account;
- outbox accounts live at keys the caller chooses, which can be used again;
- an admin change can be in progress, and adapters can be disabled, between any
  two steps of a message.

It is correct when: a list index, once given, always means the same adapter; a
transfer locks the configuration and a discard ends it; every message sent is
taken exactly once by exactly the adapters enabled at that time and then its
account disappears; a message is delivered at most once, and received only when
attested to.

### EVM endpoint (`src/evm/src`)

| part | state | operations |
|---|---|---|
| `AdapterRegistry.sol` | `AdapterInfo`, array of registered adapters, array of send adapters and bitmap of receive adapters per chain | `_addAdapter`, `_enable…`/`_disable{Send,Recv}Adapter`, getters |
| `Endpoint.sol`, admin side | `IntegratorConfig` | `register`, `updateAdmin`, `transferAdmin`, `claimAdmin`, `discardAdmin`, the five adapter functions |
| `Endpoint.sol`, receiving | `AttestationInfo` (bitmap, counter, executed) | `attestMessage`, `recvMessage`, `execMessage` |
| `Endpoint.sol`, sending | `MessageSequence` | `sendMessage`, which calls each adapter in a loop |
| `AdapterInstructions.sol` | none | encode and parse the instructions `sendMessage` takes |

Hard here: swap-and-pop in the send array, two representations (array, bitmap)
of the enabled adapters, a counter kept beside a bitmap, default values of
mappings that look like real ones (index 0), and, in `sendMessage`, calls into
foreign contracts in the middle of the function. It is correct under the same
conditions as the SVM endpoint, and when the array, the bitmap, the counter, the
getters and the events agree.

### Aptos endpoint (`src/aptos/endpoint/sources`)

| part | state | operations |
|---|---|---|
| `integrator.move`, `bitmap.move` | one resource each for the sequence, the admin and the pending admin, the adapters, their indices and the two kinds of enabled bitmaps | `new_integrator`, the four admin functions, `add_adapter`, the four enable and disable functions, `use_sequence` |
| `endpoint.move`, sending | `OutboxState`: outstanding bitmap by integrator and sequence | `register`, `send_message`, `pick_up_message` |
| `endpoint.move`, receiving | `AttestationState`: bitmap and executed flag by hash | `attest_message`, `recvMessage`, `execMessage` |

The structure is that of the SVM endpoint, with resources and tables in place of
accounts, and it is correct under the same conditions. Its own difficulties are
that a table entry is created by whichever of two functions comes first, and
that addresses are vectors of any length.

### What connects the parts

- `MessageDigest`, in no single file: each platform computes the key of an
  attestation from its own address type, in its own language. A message attested
  to must be the message received.
- Events. Indexers and relayers see the SVM endpoint only through its events.
- The mock programs show how an integrator and an adapter call the SVM
  endpoint: by a cross-program call signed with a program-derived address.
- Relay networks between two endpoints. They are not in the repository; they may
  deliver late, twice, out of order or never.

### The rest

Deployment scripts, interfaces and error codes keep no state that the properties
could be about. `PROJECT.json` lists every part with its status, and the hazards
of the code at their lines.

## Modules

| module | models |
|---|---|
| `SvmConfig` | the SVM configuration: accounts, checks and the ten instructions |
| `SvmOutbox` | `SequenceTracker`, `OutboxMessage`, `send_message`, `pick_up_message` |
| `SvmInbox` | `AttestationInfo`, `attest_message`, `recv_message`, `exec_message` |
| `SvmEndpoint` | the composition of the three, its properties and the refinement mappings |
| `SvmEvents` | the events of `event.rs` and a reader who sees nothing else, over `SvmEndpoint` |
| `SvmPrograms` | the mock integrator and the mock adapter, and the signer constraints of the endpoint, over `SvmEndpoint` |
| `EvmRegistry` | `AdapterRegistry.sol` |
| `EvmEndpoint` | `Endpoint.sol` without `sendMessage`, over `EvmRegistry` |
| `EvmSend` | `sendMessage`, `MessageSequence.sol`, calls back from adapters and reverts, over `EvmEndpoint` |
| `AdapterInstructions` | `AdapterInstructions.sol` on bytes |
| `AptosIntegrator` | `integrator.move` and `bitmap.move` |
| `AptosEndpoint` | `endpoint.move`, over `AptosIntegrator`, its properties and refinement mappings |
| `MessageDigest` | the digest and the address conversions of the three platforms |
| `Bridge` | an SVM sender and an EVM receiver (`SvmEndpoint` extended, `EvmEndpoint` instantiated) with relays between them |
| `AdminRole` | abstract: the admin role an endpoint promises |
| `Delivery` | abstract: what an endpoint promises about an incoming message |
| `Outbox` | abstract: what an endpoint whose adapters pull messages promises about outgoing ones |
| `MCSvmEndpoint`, `MCSvmPrograms`, `MCEvmEndpoint`, `MCEvmSend`, `MCAptosEndpoint`, `MCBridge`, `MCEncodings` | the message sets, initial configurations and symmetry the TLC configurations use |
| `SvmEndpointProofs`, `EvmEndpointProofs`, `AptosProofs` | theorems about the three endpoints |
| `SvmEventsProofs` | theorems about `SvmEvents` and `SvmPrograms` |
| `EvmSendProofs`, `BridgeProofs` | theorems about `EvmSend` and `Bridge` |
| `EncodingProofs` | theorems about `AdapterInstructions` and `MessageDigest` |
| `Recursion` | induction and recursion over the naturals, for the proofs about loops and encodings |

`SvmOutbox` and `SvmInbox` extend `SvmConfig`, because both read the
configuration; `SvmEndpoint` extends both and adds the frame conditions. All
three endpoints implement `AdminRole` and `Delivery`; SVM and Aptos implement
`Outbox`, EVM pushes messages to its adapters instead.

**Correspondence.** One action is one successful instruction (SVM), external
call (EVM) or entry function (Aptos). The platforms undo every effect of a
failing one, so a failing check is a disabled action. Account constraints of
Anchor, modifiers of Solidity and aborts of the Move library are part of the
guard. A bitmap is the set of the positions of its one bits; a program-derived
address or a digest is the tuple it is computed from (the hashes are taken to be
injective). An account that does not exist is `None`, or `exists = FALSE` where
the code reads fields of a freshly zeroed account. Variable, field and action
names are the ones of the source; the five internal functions of the registry
end in `Internal`, where the source puts a leading underscore.

**`EvmSend`.** `sendMessage` is the one function that gives control away, so it
takes several steps: the part before the loop, one call of an adapter per turn,
and the event. The calls that wait for an adapter form a stack. While an adapter
runs, anybody may call any function of the endpoint, since an adapter can be any
contract and can act for an admin or an integrator; then it returns or reverts.
A frame keeps the storage from before its call, which a revert restores. Prices
are chosen at every turn, because an adapter may quote what it likes; a price
above the balance reverts. Between `quoteDeliveryPrice` and the call nothing can
happen: the quote is a static call.

**`AdapterInstructions`.** The parser reads without bounds checks. What it reads
past the end of its input is nondeterministic, one value per read. Bytes have
three values, so that the eight- and sixteen-bit fields overflow within reach:
255 is 2, 65535 is 8.

**`SvmEvents`.** Every instruction is taken together with the event it emits; a
reader applies it to its view. The reader is external, its rules are what the
names of the events suggest, with two exceptions it must know: the sequence in
`MessageSent` is that of the next message, and `adapters_num` is an index.

**`SvmPrograms`.** A program may sign only with addresses derived from its own
id; the endpoint derives the expected signer from the program id in the
arguments. The mock programs put their own id there, except in `recv_message`
and `exec_message`, where the mock integrator passes its caller's.

**`MessageDigest`.** A digest is the byte string that is hashed. The three
attest functions and the three receive functions compute it from their own
arguments; on Aptos those are vectors of any length. An integer is a number that
can be written with so many bytes, and its bytes are the remainders of the
number shifted byte by byte, in either order.

**`Bridge`.** The relay is external: an adapter that picked a message up may
attest to it on EVM any number of times, in any order and at any later time, or
never. The run starts with both endpoints registered and two adapters added and
enabled, and opens the functions a message meets (`BridgeNext`). `RouteSpec`
starts both endpoints empty and opens everything; the theorem is about it, and
the lemma `CheckedSteps` says that the steps of the run are steps of it.

**History variables** (`sent`, `picked_up`, `deliveries`, `attested_by` and
their twins on EVM and Aptos, `indexedSend`, `indexedRecv`, `received`,
`carried`, `caller`, and `enabled` and `toWhom` in the frames of `EvmSend`)
record what an observer of the chain saw. No guard of an endpoint reads them;
the external relays of `Bridge` know from `picked_up` what they carry, and
`received` is what `MaxValue` bounds.

**Left out** of the modelled functions: destination address and payload hash of
outgoing messages, rent and its refund, the refund address and the content of
instructions on EVM, sequence number and payload of incoming messages (a message
is its chains and destination; two messages that differ elsewhere have different
digests, which `encodings` checks, and behave like two messages of the set), and
on EVM and Aptos the events, except `MessageSent` and `MessageReceived` on EVM.
`AdminUpdated`, `MessageSent` and `MessageReceived` are state of `SvmEndpoint`,
because the code computes what they carry; the other SVM events are in
`SvmEvents`.

**Integers.** Sequences stop at `MaxSequence`, as the checked addition does at
the largest 64-bit value on all three platforms. On EVM the length of the
adapter array is narrowed to eight bits, as in the code, before it is compared
and used; the attestation counter stops at 255 (checked arithmetic).

## Runs

All are exhaustive over the stated constants. Deadlock is not checked: with a
bounded number of adapters, sequences and messages, and with admins that can
discard themselves, the system really can stop.

| run | constants | distinct states | checks |
|---|---|---|---|
| `svm_endpoint` | 1 integrator, 3 users, 3 adapters for 2 places, 3 messages, chains 0, 1, 2; symmetric in users and adapters | 124,516 | configuration: `AdapterIndexesAgree`, `AdaptersAppendOnly`, `PendingLocksConfig`, `DiscardIsForever`, `ImplementsAdminRole`; inbox: `InitSentinelSound`, `ReceivedWasAttested`, `AttestationsAreAttributed`, `ImplementsDelivery`; events: `ViewMatchesConfig`, `ViewMatchesMessages` |
| `svm_outbox` | 1 integrator, 1 user, 2 adapters, 2 keys, sequences up to 2, chains 0, 1; with fairness | 26,095 | `OutboxConservation`, `SequencesDense`, `ViewMatchesMessages`, `EveryMessagePickedUp`, `ImplementsOutbox` |
| `svm_programs` | 2 integrator programs, 2 adapter programs for 1 place each, 1 user, 1 key, 1 message each; symmetric in the programs | 413,629 | `TypeOK`, `EachActsForItself` |
| `evm_endpoint` | 1 integrator, 3 users and zero, 4 adapters and zero for 3 places, 4 messages, chains 0, 2; symmetric in users and adapters | 25,492 | registry and admins: `TypeOK`, `RegistryIndexesAgree`, `SendArrayMatchesEvents`, `RecvGetterMatchesEvents`, `ImplementsAdminRole`; inbox: `AttestationsAreAttributed`, `ImplementsDelivery` |
| `evm_send` | 1 integrator, 2 adapters enabled, 1 message in, values and prices 0 and 1, 2 units in all, 2 sequences, 2 nested sends | 1,444,775 | `SentSequencesDense`, `SentIsCarriedByAll`, `FundsConserved` |
| `aptos_endpoint` | 1 integrator, 2 users and zero, 3 adapters for 2 places, 2 sequences, 1 message, chain 1; with fairness | 158,188 | `TypeOK`, `AdapterTablesAgree`, `AttestationsAreAttributed`, `ImplementsAdminRole`, `ImplementsDelivery`, `ImplementsOutbox` |
| `bridge` | 1 sender, 1 receiver, 2 adapters, 2 messages, 2 keys; with fairness | 77,024 | `NothingFromNowhere`, `SentIsReceivedAndAttested` |
| `encodings` | all inputs of up to 7 bytes of 3 values; lists of up to 3 instructions with payloads of 0, 1, 8 and 9 bytes; 0 to 2 adapters. Digests: bytes of 2 values, chain ids, sequences and addresses of 2 bytes, hashes and EVM addresses of 1; on Aptos vectors of 0 to 3 bytes | 375,556 | `AcceptedIsWellFormed`, `RoundTrip`, `DigestDeterminesMessage`, `ReceivedByAddressee` |
| `svm_message_sent`, `svm_admin_updated`, `evm_pending_lock`, `evm_exec_event` | as `svm_outbox`; as `svm_endpoint` without messages; as `evm_endpoint` without messages; with 3 adapters for 2 places | stops at the violation | one property each, violated; see Findings |

What the less obvious ones mean:

- `OutboxConservation`: at any time each adapter enabled when a message was sent
  has taken it or still finds its bit, never both, through key reuse and
  reconfiguration.
- `ViewMatchesConfig`, `ViewMatchesMessages`: an indexer that sees only events
  arrives at the state of the accounts.
- `EachActsForItself`: whoever calls a program, and with whatever arguments, it
  changes only its own registration, messages and bits.
- `SentIsCarriedByAll`: a committed message went once to each adapter enabled
  when `sendMessage` was called, with the instruction meant for it, and nothing
  of a reverted one is left.
- `FundsConserved`: the endpoint's balance is what came in less the prices of
  the messages adapters keep, nested and reverted sends included.
- `SentIsReceivedAndAttested`: if the receiver ends up with its adapters
  enabled, each message sent on SVM is delivered on EVM and attested to by every
  adapter enabled at the time of sending.
- `AcceptedIsWellFormed`: a parser that checks no read accepts only encodings.
- `DigestDeterminesMessage`: all three implementations store an attestation
  under the packed form of `src/README.md`, from which every field can be read.

**Why the bounds are enough to be interesting.** In `svm_endpoint`,
`svm_programs`, `evm_endpoint` and `aptos_endpoint` there is one adapter more
than there are places, so the limit is reached and exceeded. The first and the
third have three users, so that the current admin, the pending admin and a
stranger differ; with the two of Aptos a stranger appears when an admin
transfers to itself. Chain id 0, which the code treats specially, is an argument
of every call on SVM and EVM; Aptos does not treat it specially. Two keys and
two messages let two messages wait at a time, and let a key be used again for
the second message once the first is gone. The message sets of the SVM and EVM
endpoints hold a good message, one for another chain (which `exec_message`
accepts and `attest_message` refuses), one with source chain 0 and, on EVM, one
for an address that is no EVM address. Three entries are the smallest send array
in which swap-and-pop removes an entry that is neither first nor last. In
`svm_programs` each integrator has room for one of two adapters, so the same
index means different adapters.

`evm_send` starts with an integrator whose two adapters are enabled. Of the
other functions of the endpoint the run opens those that `sendMessage` depends
on: enabling and disabling send adapters, `attestMessage`, and `recvMessage`
with a value. Two adapters, one user who is the admin and two levels of sending
let the first adapter disable the second, or send again, while the outer loop
still has it to call; a nested send can fail and be caught by the adapter, or
succeed and be undone with the outer one. The budget of two units lets one send
be paid from another's value, or from that of `recvMessage`. `SendNext` itself
opens every function; its state space is out of reach with two adapters.

In `encodings` seven bytes hold two instructions with one byte to spare, a
payload that runs past the end, and, with the lists, both length fields at their
maximum and one above. The widths of EVM and universal addresses differ, and the
integers have more than one byte, so that truncation and byte order show. The
two modules share no state; the run takes the inputs of one or of the other. In
`bridge` both admins reconfigure at any time, and the EVM contract may also
execute a message that was never sent.

**Symmetry.** `svm_endpoint`, `svm_programs` and `evm_endpoint` use it. Users,
adapters and programs are only compared with each other (the zero address, which
EVM tells apart, is left out of the permutations), the message sets are closed
under the permutations, and none of these runs checks liveness.

**Fairness.** Three runs assume any.

- `svm_outbox` and `aptos_endpoint`: weak fairness of each adapter's
  `pick_up_message` on each key or sequence. Adapters are off-chain relayers
  paid to take messages and they retry; and once a bit is set in an outbox entry
  no instruction other than that adapter's pick-up clears it, disabling the
  adapter included, so a pick-up that is possible stays possible until it is
  made. The abstract `Outbox` states the same fairness of its `Take`, and the
  refinement shows that it is kept.
- `bridge`: also weak fairness of each relay's attestation and of the contract's
  `recvMessage`, for each message. The receiver's admin can disable adapters and
  so keep an attestation from being made; the property therefore speaks of
  behaviours in which all adapters are enabled from some point on, and then an
  attestation stays possible until it is made.

Nothing is assumed of admins or senders. The safety properties of these runs do
not depend on fairness.

## Findings

- `svm_message_sent`: `send_message` emits `MessageSent` with the tracker's
  value after `next_sequence` advanced it, one more than the sequence of the
  message it stored. `MessagePickedUp` carries the stored one.
- `svm_admin_updated`: `update_admin` and `claim_admin` fill `old_admin` from
  the field they have just assigned, so it always equals the new admin. The EVM
  contract fills it in before it assigns.
- `evm_pending_lock`: the specification in `src/README.md` asks every adapter
  function to refuse while an admin transfer is pending. The EVM contract does
  not; the SVM program does (`PendingLocksConfig` holds there, and is proved).
- `evm_exec_event`: `execMessage` on EVM emits no event, though the
  specification asks for one from every method and the SVM program has
  `MessageExecuted`.

Differences between code and documents that were met while modelling and have no
run of their own, because a glance at the lines shows them:

- `IEndpointAdmin.sol` line 18 says that only the current admin may call
  `claimAdmin`; the code, like `src/README.md`, lets the pending admin do so.
- `src/README.md` line 307 asks that an adapter that picks a message up is
  enabled; the SVM program looks at the adapters enabled when the message was
  sent. That it does so is what makes `EveryMessagePickedUp` hold: under the
  rule of the document a message whose adapter is disabled would keep its
  account for ever.
- `AdapterAdded.adapters_num` is the index of the new adapter on SVM (the length
  before the push) and the new length on EVM.
- The comment at `endpoint.move` line 155 names the destination chain; the code
  looks the adapter up for the source chain, as the specification asks.

## Proofs

Eight modules hold theorems that TLAPS checks. They are about every set of
integrators, users, adapters, chains, keys and messages, and every limit that
satisfies the assumptions below, not about the small instances of the runs.

**Assumptions.** All are about constants, are named in the module that declares
the constants, and are evaluated by TLC on the runs that extend that module.

- SVM: `ConfigAssumption` (chain ids are natural numbers, at least one adapter
  fits, `None` is neither a user nor a number), `OutboxAssumption` and
  `InboxAssumption` (likewise for the other accounts; the endpoint's own chain
  id is not zero; messages have chains and integrators of the model),
  `EventsAssumption` (`None` is not a bitmap).
- EVM: `RegistryAssumption` (chain ids are natural numbers, `MAX_ADAPTERS` is
  at most 128, so that it fits the `uint8` it is stored in), and
  `EndpointAssumption` (the zero address is an address; messages have chains of
  the model), `SendAssumption` (prices and bounds are natural numbers).
- The route: `BridgeAssumption` (at most as many adapters as EVM allows, the EVM
  chain is a chain of the model, the zero address is nobody's).
- Encodings: `InstructionsAssumption` and `WidthAssumption` (a byte has at least
  two values, every field at least one byte, an EVM address is not longer than a
  universal one), `ListsAssumption` (what is encoded are lists of instructions).
- Aptos: `AptosAssumption` (as for EVM, and `None` is neither a user nor a
  number), `AptosMessagesAssumption`, `AptosNoneAssumption` (`None` is neither a
  bitmap nor an entry).

| module | theorem | states |
|---|---|---|
| `SvmEndpointProofs` | `TypeCorrect` | `TypeOK`: in particular every index fits a bitmap |
| | `SentinelIsSound` | `InitSentinelSound` |
| | `NoReplay` | `DeliveredOnce` |
| | `ReceivedIsAttested` | `ReceivedWasAttested` |
| | `DeliveryRefined` | the SVM endpoint implements `Delivery` |
| | `NoPendingTransferWithoutAdmin` | `NoPendingWithoutAdmin` |
| | `DiscardingIsForever` | `DiscardIsForever` |
| | `TransferLocksConfig` | `PendingLocksConfig` |
| | `IndexesAgree` | `AdapterIndexesAgree` |
| | `EnabledAdaptersAreRegistered` | `EnabledAreRegistered` |
| | `AdaptersAreAppendOnly` | `AdaptersAppendOnly` |
| | `AttestationsAttributed` | `AttestationsAreAttributed` |
| | `AdminRoleRefined` | the SVM endpoint implements `AdminRole` |
| | `SequencesAreDense` | `SequencesDense` |
| | `OutboxIsConserved` | `OutboxConservation` |
| | `OutboxRefined` | the SVM endpoint implements `Outbox` without its fairness |
| `SvmEventsProofs` | `ReaderKnowsConfig` | `ViewMatchesConfig` |
| | `ReaderKnowsMessages` | `ViewMatchesMessages` |
| | `ProgramsCallEndpoint` | the programs' behaviours are behaviours of the endpoint |
| | `ProgramsActForThemselves` | `EachActsForItself` |
| `EvmEndpointProofs` | `TypeCorrect` | `TypeOK` |
| | `IndexesAgree` | `RegistryIndexesAgree` |
| | `SendArrayMatches` | `SendArrayMatchesEvents` |
| | `RecvGetterMatches` | `RecvGetterMatchesEvents` |
| | `AttestationsAttributed` | `AttestationsAreAttributed` |
| | `DeliveryRefined` | the EVM endpoint implements `Delivery` |
| | `AdminRoleRefined` | the EVM endpoint implements `AdminRole` |
| `EvmSendProofs` | `SendTypeCorrect` | `SendTypeOK` |
| | `SequencesDense` | `SentSequencesDense` |
| | `CarriedByAll` | `SentIsCarriedByAll` |
| | `FundsAreConserved` | `FundsConserved` |
| | `RegistryUnderReverts` | `RegistryIndexesAgree` and `SendArrayMatchesEvents` in the middle of `sendMessage` and after a revert |
| `BridgeProofs` | `NothingIsFromNowhere` | `NothingFromNowhere` |
| `EncodingProofs` | `DigestsDetermineMessages` | `DigestDeterminesMessage` |
| | `ReceivedByTheAddressee` | `ReceivedByAddressee` |
| | `AcceptedIsAnEncoding` | `AcceptedIsWellFormed` |
| | `EncodedIsParsedBack` | `RoundTrip` |
| `AptosProofs` | `TypeCorrect` | `TypeOK` |
| | `TablesAgree` | `AdapterTablesAgree` |
| | `AttestationsAttributed` | `AttestationsAreAttributed` |
| | `DeliveryRefined` | the Aptos endpoint implements `Delivery` |
| | `AdminRoleRefined` | the Aptos endpoint implements `AdminRole` |
| | `OutboxRefined` | the Aptos endpoint implements `Outbox` without its fairness |

*Structure.* A part of the state is changed only by its own instructions, so an
invariant of one part is proved against those and carried over the rest. The
arguments below name the inductive invariant and why the property alone is not
one.

*SVM inbox.* None of the three inbox invariants is inductive alone. That an
account which exists has a nonzero chain (`InitSentinelSound`) is needed to see
that `exec_message` does not overwrite an account, which is needed for the
executed flag to be final (`DeliveredOnce`); and that the flag records the
deliveries is needed to see that an account which exists and is not executed was
attested to (`ReceivedWasAttested`). Their conjunction is `InboxSafe`; it is
inductive, and `InboxSafeSplits` says that it is exactly the three. Refinement
of `Delivery` uses it in each step: `attest_message` adds a new vote,
`recv_message` finds one.

*SVM admin role.* `NoPendingWithoutAdmin` needs no more than itself to be kept,
but the action properties speak of unregistered integrators too: `RoleInv` adds
that those have no admin. The two action properties follow from it, because
every instruction but `claim_admin` passes `check_admin`, and `claim_admin`
needs an admin; the refinement of `AdminRole` goes through the same cases.

*SVM adapters.* `register` writes an empty list, which would break
`AdapterIndexesAgree` and `EnabledAreRegistered` if anything had been added
before. `AdapterInv` adds that the list of an unregistered integrator is empty.
It also gives `AdaptersAppendOnly`, and with it the attribution of attestations:
the bits of a message are read through the current indices, which may not have
changed since the adapters attested. `AttributedInv` adds that whoever attested
still has an index.

*SVM outbox.* The tracker is ahead of every message and has handed out every
number below it once (`SentInv`); an account holds a message that was sent and
no two hold the same (`AccountInv`), which is what makes reusing a key harmless;
whoever picked a message up has an index with its sender (`PickUpInv`), so that
the index does not come to mean somebody else; and then each message is
conserved. The refinement of `Outbox` maps the accounts to a queue as long as
the tracker says: by `SentInv` that is the number of messages sent.

*SVM events.* Both views are proved over `EventSpec`, each of whose behaviours
is one of `Spec`, so every invariant above is at hand. For the bitmaps the
reader has names where the account has bits: `ConfigView` relates them through
the indices, and needs `AdapterInv` so that no two names share a bit, and
`NewIsEmpty` for the accounts `enable_adapter` initialises. The reader first
hears of a message when it is picked up, not when it is sent: `OutgoingView`
says that it has heard of exactly those, and that their bits are what the
accounts hold. That a message number which the tracker has not reached was never
picked up comes from `OutboxInv`.

*SVM programs.* A program signs with its own PDA and nobody else can, so the
signer constraints name the program that was called (`PdaNamesProgram`). With
that, each of the three parts of `EachActsForItself` is a case distinction on
the entry points. `exec_message` needs `InboxSafe`, or initialising an account
could clear another adapter's bits.

*EVM.* The registry's two arrays are separate storage, kept in step by
`RegistryInv`. The swap-and-pop of `_disableSendAdapter` keeps the array free of
repetitions only because it was so before, and removes the right entry only
because the search finds the one position (`SwapAndPopIs`). The length of
`registeredAdapters` is cast to `uint8` for the next index: `TypeOK` and
`IndexesOk` show that it is below `MAX_ADAPTERS` then and does not wrap. For
attestations `AttributedInv` adds that who attested is registered and stays so
(`KeepsIndexes`), and that the separate counter is the number of bits.
`claimAdmin` checks neither that the caller's integrator is initialised nor that
it has an admin; `TransferInv`, that a transfer is only pending while there is
one, keeps it from bringing a discarded admin back.

*EVM receive getter.* `RecvInv` says that the bits are those of the indices of
the adapters the events leave enabled, all of them registered. From it alone the
result of `getRecvAdaptersByChain` does not follow, since that is computed by a
loop: after n turns it holds, once each, the enabled ones of the first n
adapters, by induction on n.

*EVM `sendMessage`.* The three properties are about moments between
transactions, so the invariant has to say what is true while calls are under
way. `StorageOk` says it of a storage and the calls that are then in progress:
every number the counter handed out is that of one event or one call, and of no
other; a call has handed its message to the adapters its loop has passed, and an
event to all that were enabled; the balance and what the adapters were paid add
up. A revert may go back to any of the storages in the frames, and so `SendInv`
asks `StorageOk` of the present storage with the whole stack and of the storage
in the k-th frame with the k - 1 calls below it: what a revert restores is in
order by assumption. `LoopOk` adds that a loop works on the adapters that were
enabled, each once, whatever has happened to the array since. `SendSpec` opens
every function of the endpoint to the adapters, more than the run can.

*Route.* Every step on the EVM side is a step of `EvmEndpoint`, whose lemmas
`BridgeProofs` instantiates with the variables of that side, and every step on
the SVM side is one of `SvmEndpoint`. `CarriedInv` joins them: who attested on
EVM has picked the message up on SVM. The counter is the number of bits, the
bits are those of different adapters, and what was picked up was sent
(`OutboxInv`).

*Encodings.* `DigestInv` says that an attestation is stored under the packed
form of its arguments. That the arguments can be read back from it needs that
`to_be_bytes` and the reversed `bcs` give the bytes that write the number, for
every width, and that all fields have fixed widths. For the parser, `ParseInv`
says that as long as it has not read past the end, the bytes behind it are the
count and the encodings of the instructions it has parsed; past the end the
offset only grows, so that the comparison at the end of `parseInstructions`
fails. `RoundInv` says that on an encoded list the parser is always at the
beginning of the next instruction of that list.

*Induction.* The library's induction theorems take an operator as a parameter,
which no installed prover can instantiate. `Recursion` derives from the
well-foundedness of the naturals an induction rule for sets and the existence of
recursively defined functions whose steps are functions; the loops, the sum of
the prices and the encodings above are proved with these.

*Aptos.* `AdapterInv` ties the vector, the table and the bitmaps together.
`InboxInv` says that an entry's flag records the delivery, that its bits are
those of the adapters that attested, and that it is without bits only if it was
executed. `RoleInv` says that before registration there is nothing to claim.
`OutboxInv` says that the sequence counts the messages and that the table holds
only messages that were sent, so that the next sequence's key is free.

`DeliveredOnce`, `NoPendingWithoutAdmin` and `EnabledAreRegistered` are proved
and not checked by a run: the first is part of `ImplementsDelivery`, the other
two are the facts the theorems beside them rest on.

**Model-checked only.**

- `EveryMessagePickedUp`, `SentIsReceivedAndAttested` and the fairness in
  `ImplementsOutbox` (SVM and Aptos): liveness and `ENABLED` are out of the
  prover's reach. The theorems `OutboxRefined` are the rest of
  `ImplementsOutbox`.
- The four properties that are violated; see Findings.

Every other property of the runs is stated by a theorem.

## Not modelled

- Getters and views: `getMessageStatus`, the two `quoteDeliveryPrice` functions
  and the Aptos views change nothing. The EVM getters whose result could
  disagree with the storage are in `EvmRegistry`.
- `parseInstruction` for a single instruction, which no code of the endpoint
  calls, and `count_enabled_bits` and `len` of the SVM bitmap, likewise unused.
- Error codes (`error.rs`): a failing call has no effect, whichever it returns.
- Interfaces (no code) and deployment scripts (run once, around the contracts).
- Gas, rent and compute limits: a loop over 128 adapters may cost more than a
  transaction may spend, which no code of the repository looks at.

## What is left

The invariants, the action properties and the safety of the refinements are
proved. Liveness rests on the small instances of the runs:
`EveryMessagePickedUp` and `SentIsReceivedAndAttested` speak of messages one by
one, and the instances hold two of them with two adapters each. A change that
touches a guard of `pick_up_message`, of `attestMessage` or of `recvMessage`
should be followed by these runs.
