# ZeroGrid: a TLA+ verification project

ZeroGrid is a messenger with a Rust core (`rust/src`) and a Flutter app
(`lib/`). This directory holds TLA+ models of their stateful parts, the TLC
configurations that check them, and TLAPS proofs of the properties that matter
most. Every definition is translated from the source; `PROJECT.json` maps each
one to its lines and lists, under `hazards`, what is hard to test in this code and
which property watches it.

## 1. The system

### Rust core

| Part | State it keeps | Operations | What makes it correct |
|---|---|---|---|
| File transfer, `p2p/transfer.rs` | `TransferSession`: chunks by index, counters, completed | cut, add_chunk, assemble | completed means all chunks are there; assemble returns the file or an error |
| Double ratchet, `crypto/double_ratchet.rs` | `RatchetState`: root key, two chains with numbers, key pairs, skipped keys | encrypt, decrypt, two DH ratchets | no message key twice; headers locate keys; no way back; both sides meet |
| Sessions and X3DH, `crypto/session.rs`, `crypto/x3dh.rs` | one ratchet per peer, key bundle, one-time keys | initiate, accept, encrypt, decrypt | one secret on both sides; right peers' keys; no reuse across replaced sessions |
| Group keys, `p2p/group_e2ee.rs` | per group: sender keys, group key, epoch | create, register, remove, ratchet, encrypt, decrypt | a message opens in its epoch only; equal views give equal keys |
| DASN store, `dasn/storage.rs` | objects, CID index, usage, replica lists | store, retrieve, pin, unpin, register_replica, eviction | index, store and usage agree; pinned objects stay |
| C interface, `ffi.rs` | two global mutexes: the core and the last error | initialise, id, key, encrypt, decrypt, last error | calls return; an initialised core is seen; errors are the caller's |
| P2P network, `p2p/network.rs` | peer tables, zero-id index, topics, NAT status, event channel, optional session manager | bootstrap, subscribe, send, post, next_event | tables follow the connections; a failed publish wastes a key and no more; what was accepted is heard once |
| Calls, `p2p/webrtc_signaling.rs` | active calls, history | offer, answer, accept, end | the two ends agree; a call is logged once and for good |
| Bluetooth, `ble/protocol.rs` | bounded queue, sequence counter, devices, mesh nodes | create, enqueue, dequeue, register, (de)serialize | loss only at the bound and of the oldest; numbers stay their messages'; one entry per device |
| Identity and wallet, `identity.rs`, `wallet/` | a phrase's seed and keys | derive keys, paths, addresses, the zero id | equal inputs give equal keys and nothing else does |
| Assistant, `ai/assistant.rs` | bounded history, knowledge base | chat, add, clear | an answer follows its question; knowledge is used |

### Flutter services

| Part | State it keeps | Operations | What makes it correct |
|---|---|---|---|
| Identity storage, `services/identity_service.dart` | three entries of the platform's secure store | create, load, clear, with timeouts | a restart finds the identity; cleared is cleared |
| Onion circuits, `services/onion/` | nodes, circuits, the chat's active circuit | build, destroy, refresh, expire, send | distinct regions; no circuit in use that the service lost |
| Group keys, `services/crypto/group_e2ee_service.dart` | groups with member keys and an epoch | create, join, leave, rotate, seal, open | who left knows no key; no key serves two senders |
| Calls, `services/call/call_service.dart` and the call screen | current call, history, timers | start, receive, accept, end, reject, call again | a call's duration is its own; one log entry per call |
| DAO, `services/dao/zero_dao_service.dart` and its screen | proposals, votes, the open sheet | propose, vote, end | an outcome fits the counters it shows |

The app's services are singletons on one isolate: what interleaves there are
awaits, timers, screens over screens and the platform's answers.
`lib/services/ffi/native_bridge.dart` is a stub, so the app does not call the Rust
core yet, and the two sides' group keys and calls are separate implementations.

### How the parts interact

The C interface owns the process's one `ZeroCore`, and with it the session
manager; initialising again replaces it. The session manager drives the ratchet
and X3DH. The P2P network calls the session manager before it publishes. File
chunks, group messages, call signals and Bluetooth frames are produced and consumed
as bytes; the code that would carry them between nodes is libp2p or not in the
repository. The models take that transport to be as bad as the handlers must
expect: losing, repeating, reordering and, for file chunks, damaging. In the app,
the chat service keeps references into the onion service's circuits, the call
screens share the call service's current call, and the DAO screen decides which
proposal may be voted on.

### What is hard here

Messages out of order or repeated against state that only moves forward; steps
that change state before they know whether they succeed (a decrypt that fails, a
publish that is refused, a write nobody waits for); sessions and groups replaced
while messages of the old ones are under way; a connection closed while its twin
lives; stores, queues and histories at capacity; two locks and an error slot shared
by all threads; timers that outlive their call.

## 2. The modules

`X.tla` is a component, `MCX.tla` the module TLC checks it in, `XProofs.tla` the
theorems; the table below says what each module of theorems extends.
Operators commented as "Slip" are the mutated forms of the definition that follows;
they show that a property can fail and are used by no specification.

### How the MC modules combine components

Several components never call each other and share no state (the core's group
keys and the app's, for instance). An MC module puts such components side by side:
a variable `part` is chosen at the start, and a behaviour takes only the steps of
that component while the others stay in an initial state. The states are then the
sum of the components' states and not their product, and no behaviour of a
component is lost. `part = x => P` restricts an invariant to the component it is
about where it would be costly to evaluate elsewhere. Components that do interact
are composed for real: the session managers act on `Ratchet`, the network's sends
on the session keys, the chat service on the onion service's circuits, the call
screens on the call service.

| MC module | Components | Theorems about it |
|---|---|---|
| FileTransfer, FFICore | (checked as they are) | FileTransferProofs, FFICoreProofs |
| MCRatchets | DoubleRatchet (extended), E2EESessions | DoubleRatchetProofs |
| MCGroups | GroupKeys (extended), AppGroupKeys | GroupProofs |
| MCNetwork | Network (extended) in two parts, Messaging | NetworkProofs |
| MCCalls | CallSignalling (extended), AppCalls | CallsProofs |
| MCApp | IdentityStore (extended), OnionCircuits, Governance | AppProofs |
| MCDevice | DASNStorage (extended), BLEProtocol, Assistant, Frames, KeyDerivation | DeviceProofs |

The bounds and names of the components that are instances are constants of the MC
module too, and only the .cfg gives them values. (`MCDevice` also defines `MCSize`, the
sizes of five objects the .cfg names.) Where an instantiated module needs something of
its constants, it defines the assumption and the MC module ASSUMEs it.
So a theorem about a module's `MCSpec` holds for all values of all its constants, and
a behaviour of either component alone is one of `MCSpec`.

### FileTransfer (`p2p/transfer.rs`)

One file, the chunks on the wire, and the receiver's `TransferSession`, field by
field. `Deliver` is deserialize_chunk and add_chunk of one copy that arrived; a
copy stays on the wire and may come again. `Lose` and `Damage` are the transport.
`assemble` is a state function. `SpecShared` adds `DeliverOther`, a chunk of
another transfer. A hash is the content it is of. The lengths of a serialized chunk
are in `Frames`; its redundant header fields (offset, size, is_last) are left out:
add_chunk and assemble do not use them.

### Ratchet, DoubleRatchet (`crypto/double_ratchet.rs`)

`Ratchet` has one operator per function of the source, from a `RatchetState` to the
next, and no variables. Keys are symbolic: a DH output is the set of the two key
pairs, a root key is the list of outputs mixed into it, a chain key is a root, a
half and a step count, so two keys are equal only if the code derives equal bytes.
`DoubleRatchet` has two parties that start as the tests set them up. Messages are
never removed: replays, losses and overtaking are all there. `SpecInTurn` restricts
it to the schedule of the repository's own test. `ratchet_decrypt` never stores a
skipped key (the only loop that would runs over an empty range when it is reached),
so `skipped` stays empty; the lookup is modelled all the same.

### E2EESessions (`crypto/session.rs`, `crypto/x3dh.rs`, `ffi.rs`)

Several managers with their bundles, pending one-time keys and one session per
peer. `initiate_session` draws the ephemeral key, the stand-in for the peer's
ratchet key and its own; `accept_session` may run again for the same initiation;
`initialize` rebuilds a manager. `owner` and `derived` are history: who drew a key
pair, and which secrets were returned for which ephemeral key. Of the ten one-time
keys only the first is modelled, because `bundle_one_time_key` returns no other.

### GroupKeys (`p2p/group_e2ee.rs`), AppGroupKeys (`group_e2ee_service.dart`)

In `GroupKeys` several devices hold one group. Nothing in the source distributes
registrations, removals or ratchets, so each device makes its own. The epoch in a
message is history: the code sends none. A device that creates its group again is
back in epoch 0 with the keys of its first time, since `create_group` derives them
from the member alone. In `AppGroupKeys` one service holds several
groups, a screen may create its group again, and `learnt` remembers which keys each
member was ever given; the sharing of the keys is external.

### DASNStorage (`dasn/storage.rs`)

The two maps, the usage counter and the replica lists. `store_new`, `access` and
`store_too_large` are the three ways through store. An eviction removes a set
allowed by `Evictable`: ties between equal access counts are open because the
source sorts a HashMap's iteration. The loop in `evict_lru` borrows the map it
removes from; it is modelled as removing the listed keys one after the other.
Storing a content again with `pinned = true` returns Ok without pinning it
(`storage.rs:56`); the model does the same.

### FFICore (`ffi.rs`)

Threads, two locks, and a step for each lock taken and for the work under it.
`ready` and `begun_ready` are history. Mutex poisoning by a panic is not modelled.
No exported function initiates a session, so encrypt and decrypt find none.
`OwnError` is about a thread while no other has called: `LAST_ERROR` is one slot
for all threads, written after `ZERO_CORE` was released, and with a second
reporting thread one reads the other's error.

### Network, Messaging (`p2p/network.rs`)

`Network` is one node: an action is one call of `next_event` (a swarm event, or one
event off the node's own channel) or one call of `bootstrap` or `subscribe_*`.
libp2p opens and closes connections and is external. `doubled`, `announced`,
`told_error` and `established` are history. `Messaging` is several nodes that
publish: the payload with or without encryption, gossipsub's message id (the hash of
the payload, `network.rs:163`), refusal by gossipsub after the session key was
spent, and delivery over links that lose. gossipsub itself, that is the mesh, the
seen cache and forwarding, is external and modelled from how the code configures
it. The code's split into a table part and a message part is exact: no gossipsub
message touches the tables.

### CallLog, CallSignalling, AppCalls

`CallLog` is the abstract specification of both: a call is opened, closed at most
once, and logged for good. `CallSignalling` (`webrtc_signaling.rs`) has several nodes
and a channel that delays, repeats and loses offers and answers; a call id is the
hash of two names and a millisecond, so a second call in one millisecond is the
same call. `AppCalls` (`call_service.dart`, `voice_call_screen.dart`) has screens over
each other. A screen keeps the delayed starts it waits for, the timer it has a handle
on, and the timers it has lost; a tick of any of them counts for the call the screen
has by then. It is drawn some time after its state has changed (`build`, `shown`), and
until then the old buttons work: "call again" or "accept" pressed once more leaves a
second start that nothing cancels. `hasty` is the calls this happened to, and those
begun on the same screen after them; `ticks` counts each call's seconds by the timer
started for it ("own") and by all others. Both are history. `DurationIsOwn` says that
a call is shown and logged with its own timer's seconds, and a hasty one with no more
than all its screen's timers ticked for it: once a button was pressed again, the code
does count double. `IsCallLog` in each states
the refinement (`INSTANCE CallLog WITH` the map or current call and the history).

### BoundedQueue, BLEProtocol, Assistant

`BoundedQueue` is the abstract specification of a queue that drops its oldest when
full and nothing else; `IsBoundedQueue` in `BLEProtocol` (which makes room before it
pushes) and in `Assistant` (which pushes first and makes room after) state the
refinements. In `BLEProtocol` making a message and queueing it are the two calls they
are in the code: `create_message` takes the number and gives the message to its caller,
who queues it later, out of order, again or never (`EnqueueMade`); messages that were
not made here are queued too (`EnqueueOther`). `made`, `queued` and `in_order` are
history: what was made, what of it was ever queued, and whether each was queued after
all made before it. Numbers may have gaps, since callers may leave messages out;
`QueueIsUnbroken` says which gaps overflow may not add. The sequence counter is taken
modulo `SequenceMod` (2^32 in the code). The assistant's texts are sets of topics; the
property about its answers is about the seven built-in ones.

### Frames

The four byte formats (file chunk, ratchet message, gossip header, Bluetooth
message) as lengths: header, the length that is checked, the width of the length
field, and what the parser makes of a frame cut or continued anywhere.

### KeyDerivation (`identity.rs`, `wallet/`, `bip44_wallet.dart`, `pay_service.dart`)

Seeds, keys and addresses are records of what they were derived from; the parser
of derivation paths works on numbers on both sides of 2^31 (`Half` stands for it),
with 32-bit overflow refused as in the code. Base-58 is computed: the two texts
whose first letter matters, and hashes with zero bytes in front.

### IdentityStore (`identity_service.dart`)

Three entries, calls on their way to the storage plugin and answers on their way
back, both first in, first out, since the plugin takes its calls over one method
channel. A timeout leaves the call under way; a kill drops what the plugin has not
done. `old`, `since`, `raced` and `cleared` are history.

### OnionCircuits (`services/onion/`)

Circuits are objects in a heap, because the service's list and the chat's
`_activeCircuit` share them. Every operation of both services is an action; the
in-place `refreshCircuit` of the service has no caller, and `refreshed` remembers
whether it was taken, for the one property that does not survive it. The lists are
filtered by `Kept`, a recursive function on the length of the list: the prover knows
nothing of a `SelectSeq` whose test is a LAMBDA.

### Governance (`zero_dao_service.dart`, `zero_dao_screen.dart`)

Proposals, votes and the one open detail sheet. `vote` tests neither status nor end
of a proposal, so the sheet is part of the model: it is what keeps a decided
proposal from getting another vote.

## 3. What TLC checks

| Run | Instance | States | Holds |
|---|---|---|---|
| transfer | 2 byte values, chunk size 2, files to 4 bytes, lossy and damaging | 110,000 | CompletedIsWhole, AssembleExact, FirstCopyWins; EventuallyAssembled |
| ratchets | chain limit 2, 5 messages, 8 key pairs, receive number to 4; 3 peers, 2 initiations, 3 messages, 18 key pairs | 328,000 | NoKeyReuse, NumbersInStep, ForwardOnly; SessionKeysDiffer, KeysHaveTheRightOwner |
| groups | 2 devices, 2 members, 3 epochs, 2 messages; 2 app groups, 6 keys, 3 changes | 843,000 | CoreOpensOnlyInItsEpoch, SameKeySameView; AppOpensOnlyTheLatest, AppKeysArePrivate |
| ffi | 2 threads, 2 calls each, 2 identities | 211,000 | TypeOK, InitializedIsSeen, OwnError; CallsReturn |
| network | 2 peers, 2 connections each, 3 names, 3 addresses, 2 NAT states; 3 nodes in a triangle or a line, 2 or 3 publishes | 325,000 | TablesAndNewsAgree, BootstrapIsReported; KeysAreSpent, EventsAreGenuine, OkIsHeard |
| calls | 3 nodes, 2 milliseconds, 4 sessions; 2 screens, 3 calls, 2 seconds each, 1 hasty call | 418,000 | EndsAgree, LostOnlyToItsTwin; DurationIsOwn; BothAreCallLogs |
| device | sizes 0, 1, 1, 2 and one too large, capacity 2, batch 2; queue of 3, counter modulo 3, 2 devices, 4 messages made and others queued; history of 4, 3 questions; payloads around 255, 65535 and their neighbours; path numbers around 2^31 | 508,000 | IndexAndUsageMatchStore, EvictOnlyIdle, EvictedForANewcomer, OverfullOnlyAfterEviction; QueueIsUnbrokenAndEntriesAreUnique; QuestionsAreAnswered; FramesAreNotMistaken; KeysFollowTheirPaths, WalletAddressesAreAccepted; BothAreBoundedQueues |
| app | 2 identities, 2 loads, 1 clear, 1 refusal, 1 kill; 3 nodes, 2 regions, 4 circuits, time 2; 2 voters, 2 proposals, 4 votes | 1,080,000 | RestartKeepsTheIdentity, ClearIsFinal; CircuitsStayListedOnce; OutcomeFitsVotes |
| ratchet_in_turn | chain limit 2, 4 messages in turn | | TriedMeansOpened fails |
| session_secrets | 3 peers | | SecretsAgree fails |
| governance_stake | 2 voters, 2 proposals | | OneVotePerZero fails |
| frames_cut | 8 payload lengths, cut anywhere in the header and 4 bytes around each boundary | | NeverPanics fails |

A property of an MC module names the properties of the components it stands for;
the definition and its comment say which.

**Why the bounds are enough.** Files reach zero, one and two chunks, with the
last one full or short. A chain limit of 2 makes the limit bite within the message
bound, and five messages allow a ratchet in each direction and a replay of an old
key after it. Three peers are needed for a third peer's key to end up in a session;
two initiations make both directions and a replacement happen. Batch 2 at capacity
2 makes both ways of overfilling happen: batch too small, and rest pinned. With two
threads both lock orders would meet. Two connections per peer are what it takes to
close one of two, two peers for the mode to depend on the other. A line of three
nodes has a refused publish (no neighbour subscribes the topic) and a forwarded
post; two milliseconds give equal and different time stamps. Three nodes are
needed for an answer from neither end. Three calls on the screens let a screen call
again twice, with a start left over from before the second, or another screen's call
come in between; one hasty press is enough for timers to overlap. A queue of three
overflows with the fourth message, and a counter modulo three has wrapped by then. In the app, two identities with one kill put the kill between
any two of six writes; three nodes in two regions make some selections impossible;
two voters with four votes cast again, reach the quorum of three and try to pass it.
Runs with bounds on counters end when the bounds are used up, so deadlock checking
is off; where blocking is a question (`FFICore`) it is asked as liveness.

**Symmetry.** The runs calls and device declare symmetry in node, call, screen, device and
identity names, none of which the specifications tell apart. Their only properties over
steps are of the form [][A]_v, some of them as refinements with Init, for which it is
sound; the runs with liveness properties use none.

**Fairness.** `FileTransfer!FairSpec` has weak fairness on the delivery of each
chunk: a libp2p stream hands over what it has not lost. EventuallyAssembled is
stated for behaviours in which the wire always holds exactly the chunks that were
cut. `FFICore!FairSpec` has weak fairness on a thread's steps inside a call: the
operating system runs it again. Calls per thread are finite, so no fairness of the
mutex itself is assumed. In `Network`, weak fairness on `Recv`: the application
calls `next_event` in a loop, and `select!` picks at random among its ready
branches. In `Messaging`, weak fairness on the delivery of what flies on the open
links; OkIsHeard is stated for behaviours that lose nothing. Nothing obliges anybody
to begin a call, to publish, or to connect.

## 4. Where the code and its documents part

Four runs show a property failing that the repository states of itself:

- **ratchet_in_turn.** The sender mixes one DH output into its root before it cuts
  the first half of the expansion; the receiver mixes two, draws a new key pair in
  between, and cuts the second half. `test_double_ratchet_full_cycle` unwraps the
  decryption (`double_ratchet.rs:482`).
- **session_secrets.** The associated data that salts HKDF holds the sender's secret
  key on one side and its public key on the other. `test_x3dh_key_exchange` asserts
  equal secrets (`x3dh.rs:410`).
- **governance_stake.** A vote adds one whatever the voting power, and again when a
  voter votes again; `docs/ZERO_ECOSYSTEM.md:232` gives one vote per ZERO.
- **frames_cut.** `deserialize_message` returns None below 24 bytes and then reads a
  header of 28 (`ble/protocol.rs:122`): a frame that ends inside its header panics.
  The integration tests' own copy of the function says "if data.len() < 28 { return
  None; }" (`tests_integration/src/main.rs:256`). The ratchet's parser has the same
  four bytes missing (`double_ratchet.rs:419`).

Further configurations in this directory, which are not among the runs of
`PROJECT.json`, each end in a counterexample to what the repository states (with
`-continue`, KeyDerivationClaims shows both of its own; KeyDerivationZeroId stands
apart because TLC reports only the first violated invariant of a state):

| Configuration (module) | Property | The statement | What the code does |
|---|---|---|---|
| FileTransferEmpty (FileTransfer) | AllAddedMeansCompleted | "assert!(session.completed)" once all chunks were added, `transfer.rs:224` | an empty file has no chunks, so nothing raises completed |
| FileTransferShared (FileTransfer) | CompletedAssembles | "session.assemble().unwrap()" after that, `transfer.rs:227` | `add_chunk` counts a chunk of another transfer |
| E2EESessionsOneTime (E2EESessions) | OneTimeKeysServeOnce | one-time keys protect against replays, `zero_ai_service.dart:152` | `get_one_time_key` returns the first key for ever (`x3dh.rs:213`) |
| AppGroupKeysJoin (AppGroupKeys) | ChangesRotateAll | all keys are rotated when members change, `zero_ai_service.dart:159` | `addMember` draws a key for the newcomer only |
| AssistantRules (Assistant) | AnswersAsTheTests | topics before greetings, `tests_integration/src/main.rs:353` | the greeting rule comes first and matches inside "which" or "this" |
| FramesSender (Frames) | SenderSurvives | the sender id survives a round trip, `ble/protocol.rs:226` | only its first twelve bytes do |
| KeyDerivationClaims (KeyDerivation) | SamePathSameKey | BIP-44 derivation from one phrase, `tests_integration/src/main.rs:356` | `bip44_wallet.dart:337` derives from the chain's name |
| KeyDerivationZeroId (KeyDerivation) | ZeroIdStartsWithZ | "starts_with('z')", `identity.rs:322` | the base-58 text of "zid1..." begins with 8 |
| KeyDerivationClaims (KeyDerivation) | CidStartsWithB | "starts_with('b')", `dasn/storage.rs:251` | base 58 without a multibase prefix begins with 7 |
| OnionLayers (OnionCircuits) | LayersCanBeBuilt | multi-layer encryption, `onion_circuit_panel.dart:166` | `buildOnionLayers` indexes past the last hop |

Other observations made while modelling, about which no document says anything:

- `loadIdentity` while identities are created may take a seed whose mnemonic it has
  just missed for one of an old version, and write its mnemonic over a newer one
  (`identity_service.dart:46`); `LoadIsFresh` excludes that order.
- A process killed while `clearIdentity` runs may leave the flag without a mnemonic;
  `InitializedIsLoadable` ends with the first clear.
- `sendMessage` without any circuit throws on null (`onion_chat_service.dart:77`),
  and a circuit past its ten minutes is used until `expireStaleCircuits` runs.
- The Dart zero id ("Z" and base 32) is not the Rust one, and `did/manager.rs:63`
  lower-cases an id whose base-58 text is case-sensitive.
- A path written with a number above 2^31 means the same key as its hardened form:
  "m/2147483692" is "m/44'".
- `getLatestBlocks` of an empty chain clamps to 1..0 and throws
  (`zerochain_service.dart:259`).

The passing ratchet and session properties are about each side's own state and the
messages sent; they do not depend on the two sides meeting.

## 5. What is proved

Everything in this section holds for every value of the constants that satisfies the
assumptions the modules state of them: that bounds and sizes are natural numbers and
some of them positive, that members and regions are finitely many, that links go both
ways, and that a placeholder such as None is none of the values it stands beside. The
list names the theorem, what it says, and the inductive invariant behind it.
`PROJECT.json` gives the property of the runs each theorem is about.

**FileTransferProofs** (`Spec`: the session receives the chunks of one transfer)

- *TypeCorrect*, *CompletedMeansWhole*: completed is raised by a count, so
  `CompletedIsWhole` is not inductive. `IndInv` adds that the count is the number of
  stored indices and that completed implies the count reached the total; a set of
  that many indices within `0 .. total-1` is all of them.
- *FirstCopyStays*: a chunk that was stored is never replaced, and completed stays.
- *AssembleIsExact*: assemble gives the file exactly when every stored chunk is the
  one that was cut. `AsLongAsCut` keeps the lengths of the
  chunks (damage does not change them); that cutting a file and joining the pieces
  gives the file back (`CutThenJoin`), and the other way round (`JoinThenCut`), is by
  induction over the number of chunks, from the well-foundedness of `<` on Nat
  (`WFMin`), since the induction theorems with an operator parameter cannot be used.

**DoubleRatchetProofs**

- *TypeCorrect*, *KeysAreUsedOnce*: `SendChainInv` ties each sending chain to the
  current key pair (the last DH output of its root is that pair's and an older one's,
  so the pair is the larger number in it) and to its number; `SentInv` says the same
  of every message sent, that public key and number identify it, and that numbers
  under a live key pair are below the next one. New pairs are larger than all before,
  so a new chain's keys are new.
- *NumbersStayInStep*: a header's number locates its key, and a receiving chain moves
  with its number. `NumbersInv`: a chain starts at 0 under a key pair of its own, and
  every number below the next one was sent under it.
- *StatesMoveForward*: no number goes back within a chain and no chain returns.
- *SessionKeysNeverRepeat*, *KeysBelongToTheirPeers*: over all the sessions of all
  the managers. `ManagersInv`: whose each key pair is, that no pair is in use in two
  sessions, that a session's own pair is its owner's and its remote one the peer's
  (or, before the first answer, the stand-in its owner drew), and, message by
  message, what `SentInv` says of two parties. Assumes that the
  bound on key pairs leaves room for the first bundles (`3 * N <= MaxKeys`).

**GroupProofs**

- *MessagesOpenInTheirEpoch*, *ViewsDecideKeys* (the core): `CoreInv` computes every
  key in a group from its member and epoch, and every message's key from its sender
  and epoch; keys of different members or epochs differ (`KeysApart`).
- *OnlyTheLatestOpens*, *KeysArePrivate* (the app): `AppInv` has `UsedByItsSender`:
  the member that holds a message's key today, if any does, is the message's sender, in
  its group, and either the group has not changed since or its epoch is a later one.
  Nobody who left knows a key of the group and no two senders share one, because keys
  drawn later are larger than all before.

**DeviceProofs**

- *IndexIsTheStore*, *EvictionTakesTheIdle*, *EvictionServesANewcomer* (the content
  store): a step either stores a newcomer or keeps the keys of both maps; the set
  removed is one `Evictable` allows.
- *StoreIsConsistent*: with the first of these, the counter kept by hand is the sum of
  the sizes of what is stored. `StoreInv` adds that the store is finite; what a sum over
  a finite set is after one element more or less (`TotalStep`) is by induction over
  finite sets.
- *OverfullHasEvicted*: a store that ends above its capacity has evicted a full
  batch, or whatever it still had before is pinned.
- *WaitingAreUnbroken* (Bluetooth), for every bound and every modulus of the counter.
  `QueueInv` adds to the property what was made (`MadeInv`): the counter is the number of
  messages made, wrapped, and each was numbered by its place among them; and that what
  waits of it was queued. A newcomer in order is later than all that wait, and overflow
  takes the first, behind which nothing is missed; `TablesInv`, that the entries of a device are one. Both tables are
  updated in place or appended to, depending on a search for the device.
- *QueuesDropTheOldest*: both queues implement `BoundedQueue`, one making room before it
  pushes and one after. Pushing twice and dropping from the front while there are too
  many is what `BoundedQueue` does with two newcomers (`Excess`, `Pushed`), also in a
  history of one entry, where a question is dropped for its own answer.
- *AnswersStayWithQuestions* (assistant). `HistoryInv`: an entry from a chat is beside
  the other of its turn (`Fits`), except the oldest entry, which may have lost the
  question before it. Dropping from the front keeps that, entry by entry.
- *FramesAreTakenWhole*: the arithmetic of the four formats. `FrameInv` says that what
  came out is what deserializing the frame as far as it arrived gives; the rest is a
  case for each reason to take or refuse a frame.
- *PathsTellKeysApart* (identity and wallets). `KeysInv`: identity, key and address are
  those of the phrase, passphrase and path last asked for. Equal phrases and
  passphrases are equal identities and the other way round, and so it is with the path
  and the addresses of the core's wallet. In the app's wallet equal keys mean equal
  paths, but not the other way round: ETH and BSC share a path and have different keys
  (`bip44_wallet.dart:336`). That a key is its seed and
  the indexes it was derived by (`KeyOfIndexes`) is by induction over the indexes; with
  it, equal keys have equal indexes, and below 2^31 and above a number and its hardening
  can be read off an index.
- *AnyAddressIsAccepted*, *AddressesOfWalletsAreAccepted*: for every hash, where the run
  has samples. The code makes a big number of the bytes and divides it down; the model
  multiplies and adds digit by digit, since TLC's numbers have 32 bits. `TextIsEncoded`
  says that both are the same: the digits are worth what the bytes are (a carry is never
  more than a byte), with none too many on top. Then length and first digit follow from
  comparing powers of 58 and 256 (`Comparisons`), and each zero in front takes away
  at most two digits and gives one. A Bitcoin hash that is zero throughout the
  first 21 bytes is left out: its text may be too short, and `pay_service.dart`
  would refuse it.

**FFICoreProofs** (any number of threads and calls)

- *InitializedStaysSeen*: `CoreStays` adds that a thread about to report a successful
  initialisation has installed a core, and that no step takes one away.
- *LocksAreHeldInside*: the type invariant, which says who holds which lock at which
  point. `LocksInv` adds that initialise gets as far as `ZERO_CORE` only with an
  identity: a mnemonic that does not parse returns before.
- *ErrorsAreOwn*: `OwnInv`: with no other thread about, `LAST_ERROR` lags behind the
  thread's last message only while the thread is on its way to write it.

**NetworkProofs**

- *ModeIsRight*, *CountedHaveConnections*, *AnnouncersAreFound*, *NodeIsConsistent*:
  all of `TablesAndNewsAgree`, for any number of peers and connections.
  `TwoAreRemembered` is what makes the second inductive (a peer with two connections
  is one that had two, so closing one of them explains the other),
  `IndexFollowsNews` relates the index to the announcements name by name, and `News`
  says that each snapshot on the channel was taken of the addresses of its time, of
  which there are only ever more. Assumes that None is no peer, no name and no table
  entry.
- *KeysAreSpentForGood*, *EventsStayGenuine*: `MessagesInv`. What a session has left
  behind is counted by its publishes (`Publishing`); a node has seen nothing that
  nobody sent; a copy under way goes to a subscriber of its topic, and one that is
  passed on to a node that has it (`CopiesAreMeant`); every event was made from a
  publish its node has seen. The last needs the others: a direct message is given
  under its author's name because only its author's own copy reaches its receiver
  first.

**CallsProofs**

- *EndsFindEachOther*, *ReplacedByItsTwin*: `CallsInv`. An offer names both ends of
  its call; an answer was given by the callee of an offer it took; each session was
  drawn at its end of its call, under a key of its own, and a caller that connects was
  accepted.
- *SecondsAreOwn*: `AppInv`. A screen whose call is not hasty has one start or one timer
  for that call, never both, and none while it is incoming or ended (`InTime`); so what
  ticks is the call's own. A screen's seconds were ticked for the call it has
  (`CountsItsCall`), and an id in the current call or the history was issued.
- *CallsAreLogged*: both implement `CallLog`: the first states map to first states,
  and every action to a step of CallLog or a stutter, one action after the other.

**AppProofs**

- *OutcomesFit*: `ProposalsInv`. Proposals are numbered from 1, an open sheet is of an
  undecided one, votes that stand are one per voter and proposal and were all counted.
- *ClearedStaysCleared* and *RestartsKeepTheIdentity*: the invariants speak of places
  in the two queues. `StoreBase`: an answer or call is for a method that has begun,
  for the entry it waits for, and there is one of them at most. `ClearInv`: once the
  delete of an entry is under way no write of it is behind it, an answer that could start
  a migration is taken before that of the delete behind it, and the migration's write
  is carried out before the delete of the mnemonic. `FreshInv`: whatever a read under
  way will find (`ValueAt`, the entry after the calls before it) is absent or the last
  identity. `FlagInv`: a write of the flag is behind one of the mnemonic. `FreshInv`
  holds while nothing was refused, killed or raced, which is when `LoadIsFresh` says
  something; a step never leads back there (`QuietBefore`).
- *CircuitsListedOnce*: `CircuitsInv`. It is stronger than the property in that every
  circuit ever made, listed or not, has its hops in distinct regions; that `Kept`
  keeps exactly what it should, once each, is by induction over the list's length.

### Only model-checked

- Liveness: EventuallyAssembled, CallsReturn, BootstrapIsReported and OkIsHeard. ENABLED
  and fairness are beyond the prover.
- Every property over single states or steps is proved.
- The four statements of the repository that fail (section 4) are counterexamples.

## 6. Not modelled

Cryptographic primitives are symbolic throughout: hashes and derivations are
injective, and a ciphertext opens under its own key only. libp2p, gossipsub, the
secure-storage plugin and Flutter's screens are modelled from how the code uses
them, and marked external. Of the rest:

- *DID documents and credentials*: builders without state of their own.
- *App E2EE sessions* (`e2ee_service.dart`): no code of the app calls it.
- *Cross-chain bridge*: no chain is ever added, so every transaction begins by
  throwing and the life cycle after it cannot be reached.
- *OAuth*: no application can be registered, so no session comes to be.
- *Marketplace, channels, feed, node services, App DASN storage*: in-memory lists
  changed by one screen at a time, with counters for display.
- *ZeroChain, tokenomics, name service*: generated demonstration data.
- *Payments, RPC*: balances are network calls (pure I/O); the address check is in
  `KeyDerivation`.
- *User interface and platform projects*: layout, except the call screen, the group
  chat screen and the DAO sheet, which decide when a service is called.

`PROJECT.json` lists every part with its reason. `ble_service.dart` (simulated
devices) and the curve arithmetic and texts of the wallets are the parts of
components marked partly modelled.

## 7. Plan

Every safety property and action property of the passing runs is proved; only the
liveness properties are left to TLC. What could follow:

1. the components listed as not modelled, once the app calls the Rust core: the bridge
   would compose the app's group keys and calls with the core's;
2. the ways to repair the four failing statements, as variants of `Ratchet`,
   `E2EESessions`, `Governance` and `Frames` under the same properties.
