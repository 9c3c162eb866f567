------------------------------ MODULE MCDevice ------------------------------
(***************************************************************************)
(* What one device does on its own, for TLC: its content store, its        *)
(* Bluetooth protocol state, its assistant, the frames it parses and the   *)
(* keys it derives.  None of them calls another and they share no          *)
(* variable: a behaviour takes the steps of one of them, chosen at the     *)
(* start, and leaves the others as they began.                             *)
(***************************************************************************)
EXTENDS DASNStorage, TLC

CONSTANTS
    o0, o1, o2, o3, big,  \* the contents of the .cfg
    MAX_QUEUE_SIZE, SequenceMod, Devices, ZeroIds, None, OtherNumbers, MaxMessages,
    max_history, Titles, MaxTurns,
    PayloadLengths, IdLengths, Slack,
    Words, Spellings, Passphrases, NoPassphrase, Half, Numbers, MaxParts, Counts

VARIABLES
    part,
    message_queue, known_devices, mesh_nodes, sequence_counter, made, queued, in_order,
    conversation_history, knowledge_base, turns, last,
    frame, arrived, outcome,
    identity, given, key, address

ble_vars ==
    <<message_queue, known_devices, mesh_nodes, sequence_counter, made, queued, in_order>>
chat_vars == <<conversation_history, knowledge_base, turns, last>>
frame_vars == <<frame, arrived, outcome>>
key_vars == <<identity, given, key, address>>
all_vars == <<part, vars, ble_vars, chat_vars, frame_vars, key_vars>>

Bluetooth == INSTANCE BLEProtocol
Chat == INSTANCE Assistant
Frame == INSTANCE Frames
Keys == INSTANCE KeyDerivation

ASSUME BluetoothAssumption == Bluetooth!BLEAssumption
ASSUME ChatAssumption == Chat!AssistantAssumption
ASSUME FrameAssumption == Frame!FramesAssumption
ASSUME KeysAssumption == Keys!KeyDerivationAssumption

\* The contents' sizes: empty, two small, one that fills the store and one too large.
MCSize == (o0 :> 0) @@ (o1 :> 1) @@ (o2 :> 1) @@ (o3 :> 2) @@ (big :> 3)

\* Where a part is not the one that takes steps, any one of its first states will do.
MCInit ==
    /\ part \in {"storage", "bluetooth", "assistant", "frames", "keys"}
    /\ Init
    /\ Bluetooth!Init
    /\ Chat!Init
    /\ Frame!Init
    /\ part # "frames" => frame = CHOOSE fr \in Frame!Frames : fr.known
    /\ Keys!Init

MCNext ==
    \/ part = "storage" /\ Next
       /\ UNCHANGED <<part, ble_vars, chat_vars, frame_vars, key_vars>>
    \/ part = "bluetooth" /\ Bluetooth!Next
       /\ UNCHANGED <<part, vars, chat_vars, frame_vars, key_vars>>
    \/ part = "assistant" /\ Chat!Next
       /\ UNCHANGED <<part, vars, ble_vars, frame_vars, key_vars>>
    \/ part = "frames" /\ Frame!Carry
       /\ UNCHANGED <<part, vars, ble_vars, chat_vars, key_vars>>
    \/ part = "keys" /\ Keys!Next
       /\ UNCHANGED <<part, vars, ble_vars, chat_vars, frame_vars>>

MCSpec == MCInit /\ [][MCNext]_all_vars

\* No device and no zero id is told apart from another, and the properties of steps
\* are of the form [][A]_v.
MCSymmetry == Permutations(Devices) \cup Permutations(ZeroIds)

-----------------------------------------------------------------------------
\* The index and the usage that are kept by hand are those of what is stored, and the
\* four maps stay well formed beside each other.
IndexAndUsageMatchStore == TypeOK /\ IndexMatchesStore /\ UsageIsSum

\* Waiting Bluetooth messages bear the numbers of their making; of messages queued in
\* that order no later one is missing behind a waiting one; and a device has one entry.
QueueIsUnbrokenAndEntriesAreUnique == Bluetooth!TypeOK /\ Bluetooth!QueueIsUnbroken

\* The Bluetooth queue, which makes room before it pushes, and the conversation
\* history, which does so after, both drop their oldest entries and nothing else.
BothAreBoundedQueues == Bluetooth!IsBoundedQueue /\ Chat!IsBoundedQueue

\* Dropping old entries never parts a question from its answer, and a question about
\* one of the seven built-in topics is not answered with the general help text.
QuestionsAreAnswered == Chat!AnswersFollowQuestions /\ Chat!KnownTopicIsAnswered

\* A frame that arrives whole is taken as it was sent; one that was cut is not taken
\* for a shorter message.
FramesAreNotMistaken ==
    part = "frames" => Frame!TypeOK /\ Frame!WholeIsTaken /\ Frame!CutIsNotTaken

\* The identity is the same exactly for the same phrase and passphrase; a derived key,
\* exactly for the same indexes; an address of the core's wallet, exactly for the same
\* path.  In the app's wallet a key is shared only by addresses of one path; addresses
\* of one path need not share it.
KeysFollowTheirPaths ==
    part = "keys" =>
        /\ Keys!OneKeyPerPath /\ Keys!PhraseRestores
        /\ Keys!OneAddressPerPath /\ Keys!PathsApart

\* The payment service takes every address the wallets derive.
WalletAddressesAreAccepted == part = "keys" => Keys!AddressesAreAccepted

=============================================================================
