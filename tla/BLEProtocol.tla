----------------------------- MODULE BLEProtocol -----------------------------
(***************************************************************************)
(* One node's Bluetooth protocol state (rust/src/ble/protocol.rs): the     *)
(* outgoing message queue, the numbering of its messages, and the tables   *)
(* of devices and mesh nodes in radio range.  Callers make messages, and   *)
(* queue what they like of them when they like, also messages that they    *)
(* received from another node or made up themselves.  The byte layout of   *)
(* a message is in Frames.                                                 *)
(***************************************************************************)
EXTENDS Naturals, Sequences, FiniteSets

CONSTANTS
    MAX_QUEUE_SIZE,  \* 100 in the code
    SequenceMod,     \* sequence numbers wrap here: 2^32 in the code
    Devices,         \* device and mesh node ids
    ZeroIds,
    None,
    OtherNumbers,    \* numbers of messages not made here that callers queue
    MaxMessages      \* bound: messages made

BLEAssumption ==
    /\ MAX_QUEUE_SIZE \in Nat \ {0}
    /\ SequenceMod \in Nat \ {0}
    /\ None \notin ZeroIds
    /\ OtherNumbers \subseteq 0 .. SequenceMod - 1
    /\ MaxMessages \in Nat

VARIABLES
    message_queue,
    known_devices,     \* the entries, in the order they were pushed
    mesh_nodes,
    sequence_counter,
    made,              \* history: the messages made, in order
    queued,            \* history: which of them, by their place in made, were ever queued
    in_order           \* history: each of these after all that were made before it

tables == <<known_devices, mesh_nodes>>
callers == <<made, queued, in_order>>
vars == <<message_queue, tables, sequence_counter, callers>>

\* Of whatever type; nr is history: the place in made, or 0 if it was not made here.
Messages == [nr : Nat, sequence : 0 .. SequenceMod - 1]

Init ==
    /\ message_queue = <<>>
    /\ known_devices = <<>>
    /\ mesh_nodes = <<>>
    /\ sequence_counter = 0
    /\ made = <<>>
    /\ queued = {}
    /\ in_order = TRUE

\* Slip: when the queue is full it is the newest that makes way.
EnqueuedOverNewest(q, msg) ==
    Append(IF Len(q) >= MAX_QUEUE_SIZE THEN SubSeq(q, 1, Len(q) - 1) ELSE q, msg)

\* enqueue_message
Enqueued(q, msg) == Append(IF Len(q) >= MAX_QUEUE_SIZE THEN Tail(q) ELSE q, msg)

\* Slip: a contact exchange does not take a number of its own.
NextSequenceOfText(type) ==
    IF type = "Text" THEN (sequence_counter + 1) % SequenceMod ELSE sequence_counter

\* The number of the next message; the addition wraps in a release build.
NextSequence(type) == (sequence_counter + 1) % SequenceMod

\* create_text_message and create_contact_exchange: the message is the caller's.
create_message(type) ==
    /\ Len(made) < MaxMessages
    /\ sequence_counter' = NextSequence(type)
    /\ made' = Append(made, [nr |-> Len(made) + 1, sequence |-> sequence_counter'])
    /\ UNCHANGED <<message_queue, tables, queued, in_order>>

enqueue_message(msg) ==
    /\ message_queue' = Enqueued(message_queue, msg)
    /\ UNCHANGED <<tables, sequence_counter, made>>

\* A caller queues a message it made, once, again or never, sooner or later.
EnqueueMade(n) ==
    /\ enqueue_message(made[n])
    /\ queued' = queued \cup {n}
    /\ in_order' = (in_order /\ \A m \in queued : m < n)

EnqueueOther(number) ==
    /\ enqueue_message([nr |-> 0, sequence |-> number])
    /\ UNCHANGED <<queued, in_order>>

dequeue_message ==
    /\ message_queue # <<>>
    /\ message_queue' = Tail(message_queue)
    /\ UNCHANGED <<tables, sequence_counter, callers>>

IndexOf(table, d) == {i \in 1..Len(table) : table[i].id = d}

\* A sighting without a zero id leaves the one that is known.
Registered(d, zero_id, rssi) ==
    IF IndexOf(known_devices, d) = {}
    THEN Append(known_devices, [id |-> d, zero_id |-> zero_id, rssi |-> rssi])
    ELSE [i \in 1..Len(known_devices) |->
             IF i \in IndexOf(known_devices, d)
             THEN [known_devices[i] EXCEPT !.rssi = rssi,
                                           !.zero_id = IF zero_id = None THEN @ ELSE zero_id]
             ELSE known_devices[i]]

Signal == {"near", "far"}

register_device(d) ==
    /\ \E zero_id \in ZeroIds \cup {None}, rssi \in Signal :
           known_devices' = Registered(d, zero_id, rssi)
    /\ UNCHANGED <<message_queue, mesh_nodes, sequence_counter, callers>>

\* A node that is known keeps its zero id; hops and signal follow the sighting.
update_mesh_node(d) ==
    /\ \E zero_id \in ZeroIds, hops \in {1, 2} :
           mesh_nodes' =
               IF IndexOf(mesh_nodes, d) = {}
               THEN Append(mesh_nodes, [id |-> d, zero_id |-> zero_id, hop_count |-> hops])
               ELSE [i \in 1..Len(mesh_nodes) |->
                        IF i \in IndexOf(mesh_nodes, d)
                        THEN [mesh_nodes[i] EXCEPT !.hop_count = hops] ELSE mesh_nodes[i]]
    /\ UNCHANGED <<message_queue, known_devices, sequence_counter, callers>>

Next ==
    \/ \E type \in {"Text", "ContactExchange"} : create_message(type)
    \/ \E n \in 1..Len(made) : EnqueueMade(n)
    \/ \E number \in OtherNumbers : EnqueueOther(number)
    \/ dequeue_message
    \/ \E d \in Devices : register_device(d) \/ update_mesh_node(d)

Spec == Init /\ [][Next]_vars

-----------------------------------------------------------------------------
\* Types; a device or a mesh node has one entry however often it is seen.
TypeOK ==
    /\ \A i \in 1..Len(message_queue) : message_queue[i] \in Messages
    /\ \A i \in 1..Len(known_devices) :
        known_devices[i] \in [id : Devices, zero_id : ZeroIds \cup {None}, rssi : Signal]
    /\ \A d \in Devices : /\ Cardinality(IndexOf(known_devices, d)) <= 1
                          /\ Cardinality(IndexOf(mesh_nodes, d)) <= 1
    /\ sequence_counter \in 0 .. SequenceMod - 1

Own(i) == message_queue[i].nr # 0

\* A message made here waits under the number of its making, however often the counter
\* has wrapped and whatever callers did with the messages before it.  If callers queue
\* what they make in the order they make it, though perhaps not all of it, then numbers
\* only go up along the queue, and what is missing behind a waiting message was never
\* queued: overflow opens no gap.
QueueIsUnbroken ==
    \A i \in 1..Len(message_queue) : Own(i) =>
        LET nr == message_queue[i].nr IN
        /\ message_queue[i].sequence = nr % SequenceMod
        /\ in_order =>
            /\ \A j \in 1 .. i - 1 : Own(j) => message_queue[j].nr < nr
            /\ \A n \in queued : n > nr => \E j \in 1..Len(message_queue) : message_queue[j].nr = n

\* The message queue implements a bounded queue that drops its oldest.
Queue == INSTANCE BoundedQueue WITH
    Items <- Messages, Capacity <- MAX_QUEUE_SIZE, Burst <- 1, queue <- message_queue
IsBoundedQueue == Queue!Spec
==============================================================================
