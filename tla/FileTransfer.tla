---------------------------- MODULE FileTransfer ----------------------------
(***************************************************************************)
(* One file sent in chunks from a sender to a receiver's TransferSession   *)
(* (rust/src/p2p/transfer.rs).                                             *)
(*                                                                         *)
(* The sender runs create_file_metadata and split_into_chunks once and     *)
(* hands every serialized chunk to the transport.  The transport is not    *)
(* part of the repository: it may lose, duplicate, reorder and damage the  *)
(* payload of a chunk.  The receiver calls add_chunk for each chunk that   *)
(* deserializes and may call assemble at any time.                         *)
(*                                                                         *)
(* A file is a sequence of bytes; SHA-256 is taken to be injective, so the *)
(* hash of a file is the file itself.                                      *)
(***************************************************************************)
EXTENDS Naturals, Sequences, FiniteSets

CONSTANTS
    Bytes,        \* the byte values files are made of
    CHUNK_SIZE,   \* bytes per chunk (262144 in the code)
    MaxFileSize,  \* bound: the longest file
    Unreliable    \* whether the transport may lose and damage chunks

ASSUME ChunkSizeAssumption == CHUNK_SIZE \in Nat \ {0}
ASSUME MaxFileSizeAssumption == MaxFileSize \in Nat
ASSUME UnreliableAssumption == Unreliable \in BOOLEAN

VARIABLES
    file,            \* the bytes being sent
    wire,            \* chunks handed to the transport that may still arrive
    chunks,          \* TransferSession.chunks : index -> data
    received_count,  \* TransferSession.received_count
    bytes_received,  \* TransferSession.bytes_received
    completed        \* TransferSession.completed

session == <<chunks, received_count, bytes_received, completed>>
vars == <<file, wire, session>>

Files == UNION {[1..n -> Bytes] : n \in 0..MaxFileSize}

\* file_size rounded up to whole chunks.
ChunkCount(data) == (Len(data) + CHUNK_SIZE - 1) \div CHUNK_SIZE

\* total_chunks is copied from the metadata and never changes.
total_chunks == ChunkCount(file)

LesserOf(a, b) == IF a < b THEN a ELSE b

\* Slip: the end of the last chunk is one short.
ChunkDataShort(data, i) ==
    SubSeq(data, i * CHUNK_SIZE + 1, LesserOf((i + 1) * CHUNK_SIZE, Len(data) - 1))

\* The bytes of chunk i: from i * CHUNK_SIZE to the end of the chunk or file.
ChunkData(data, i) ==
    SubSeq(data, i * CHUNK_SIZE + 1, LesserOf((i + 1) * CHUNK_SIZE, Len(data)))

split_into_chunks(data) ==
    {[index |-> i, data |-> ChunkData(data, i)] : i \in 0 .. ChunkCount(data) - 1}

\* What may arrive in place of chunk c: same header, payload damaged in one byte.
Damaged(c) ==
    {[index |-> c.index, data |-> [c.data EXCEPT ![k] = b]] :
        k \in 1..Len(c.data), b \in Bytes}

\* The concatenation of the chunks 0 .. n-1.
Concat(cs, n) ==
    LET upTo[i \in 0..n] == IF i = 0 THEN <<>> ELSE upTo[i - 1] \o cs[i - 1]
    IN  upTo[n]

-----------------------------------------------------------------------------
Init ==
    /\ file \in Files
    /\ wire = split_into_chunks(file)
    /\ chunks = [i \in {} |-> <<>>]
    /\ received_count = 0
    /\ bytes_received = 0
    /\ completed = FALSE

\* Slip: a repeated chunk is counted again.
AddDuplicateCounted(c) ==
    /\ c.index \in DOMAIN chunks
    /\ received_count' = received_count + 1
    /\ completed' = (completed \/ received_count + 1 >= total_chunks)
    /\ UNCHANGED <<chunks, bytes_received>>

\* Slip: a repeated chunk replaces the stored one.
AddDuplicateOverwrites(c) ==
    /\ c.index \in DOMAIN chunks
    /\ chunks' = [chunks EXCEPT ![c.index] = c.data]
    /\ UNCHANGED <<received_count, bytes_received, completed>>

\* add_chunk of a chunk whose index is already present: Ok(false).
AddDuplicate(c) ==
    /\ c.index \in DOMAIN chunks
    /\ UNCHANGED session

\* Slip: completed needs more chunks than there are.
AddNewStrict(c) ==
    /\ c.index \notin DOMAIN chunks
    /\ chunks' = [i \in DOMAIN chunks \cup {c.index} |->
                     IF i = c.index THEN c.data ELSE chunks[i]]
    /\ received_count' = received_count + 1
    /\ bytes_received' = bytes_received + Len(c.data)
    /\ completed' = (completed \/ received_count + 1 > total_chunks)

\* add_chunk of a new index: the index is stored as it came, whatever it is.
AddNew(c) ==
    /\ c.index \notin DOMAIN chunks
    /\ chunks' = [i \in DOMAIN chunks \cup {c.index} |->
                     IF i = c.index THEN c.data ELSE chunks[i]]
    /\ received_count' = received_count + 1
    /\ bytes_received' = bytes_received + Len(c.data)
    /\ completed' = (completed \/ received_count + 1 >= total_chunks)

add_chunk(c) == AddDuplicate(c) \/ AddNew(c)

\* A copy of chunk i arrives; the transport may deliver it again later.
Deliver(i) ==
    /\ \E c \in wire : c.index = i /\ add_chunk(c)
    /\ UNCHANGED <<file, wire>>

Lose ==
    /\ Unreliable
    /\ \E c \in wire : wire' = wire \ {c}
    /\ UNCHANGED <<file, session>>

Damage ==
    /\ Unreliable
    /\ \E c \in wire : \E d \in Damaged(c) : wire' = wire \cup {d}
    /\ UNCHANGED <<file, session>>

Next ==
    \/ \E i \in 0 .. total_chunks - 1 : Deliver(i)
    \/ Lose
    \/ Damage

Spec == Init /\ [][Next]_vars

\* A chunk of another transfer reaches the session: add_chunk compares neither the
\* transfer id in the header nor the index with its own.
DeliverOther ==
    /\ \E other \in Files : \E c \in split_into_chunks(other) : add_chunk(c)
    /\ UNCHANGED <<file, wire>>

\* The chunks of two transfers arrive over one stream.
SpecShared == Init /\ [][Next \/ DeliverOther]_vars

\* The transport hands over every chunk it has not lost.
FairSpec ==
    /\ Spec
    /\ \A i \in 0 .. MaxFileSize : WF_vars(Deliver(i))

-----------------------------------------------------------------------------
\* What assemble returns in the current state: it fails on the first absent
\* chunk, then compares the hash of the concatenation with the metadata's.
assemble ==
    IF ~ (0 .. total_chunks - 1 \subseteq DOMAIN chunks) THEN "missing chunk"
    ELSE IF Concat(chunks, total_chunks) # file THEN "hash mismatch"
    ELSE "file"

TypeOK ==
    /\ file \in Seq(Bytes)
    /\ DOMAIN chunks \subseteq 0 .. total_chunks - 1
    /\ chunks \in [DOMAIN chunks -> Seq(Bytes)]
    /\ wire \subseteq [index : 0 .. total_chunks - 1, data : Seq(Bytes)]
    /\ received_count \in 0 .. total_chunks
    /\ bytes_received \in Nat
    /\ completed \in BOOLEAN

\* completed is raised by a count alone; it must still mean that every index
\* assemble will ask for is there, so that assemble never reports a missing
\* chunk for a completed session.
CompletedIsWhole == completed => DOMAIN chunks = 0 .. total_chunks - 1

\* assemble returns data exactly when every stored chunk is the one that
\* split_into_chunks cut: the cut and the concatenation are inverse at every
\* boundary, and damage to any chunk is noticed.
AssembleExact ==
    assemble = "file" <=>
        \A i \in 0 .. total_chunks - 1 :
            i \in DOMAIN chunks /\ chunks[i] = ChunkData(file, i)

\* A stored chunk is never replaced or dropped, and completed never falls back:
\* the first copy of a chunk wins.
FirstCopyWins ==
    [][/\ \A i \in DOMAIN chunks : i \in DOMAIN chunks' /\ chunks'[i] = chunks[i]
       /\ completed => completed']_vars

\* A non-empty file whose chunks the transport neither loses nor damages is
\* eventually completed and assembles into the file, in whatever order and however
\* often its chunks arrive.
EventuallyAssembled ==
    [](wire = split_into_chunks(file))
    => <>(file = <<>> \/ (completed /\ assemble = "file"))

\* The inductive invariant behind CompletedIsWhole: indices are in range, the
\* count is the number of stored indices, and completed was raised by the count.
IndInv ==
    /\ TypeOK
    /\ received_count = Cardinality(DOMAIN chunks)
    /\ completed => received_count >= total_chunks

\* test_file_transfer_workflow: "assert!(session.completed)" and then
\* "session.assemble().unwrap()".
CompletedAssembles == completed => assemble = "file"

\* test_file_transfer_workflow: once every chunk that split_into_chunks produced
\* has been added, the session is completed.
AllAddedMeansCompleted ==
    (\A c \in split_into_chunks(file) : c.index \in DOMAIN chunks) => completed

=============================================================================
