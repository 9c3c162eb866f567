---------------------------- MODULE DASNStorage ----------------------------
(***************************************************************************)
(* The local content-addressed store of one node                           *)
(* (rust/src/dasn/storage.rs): deduplication by hash, pinning, replica     *)
(* records, and the eviction that store runs when the capacity would be    *)
(* exceeded.                                                               *)
(*                                                                         *)
(* SHA-256 is taken to be injective: an object is its content, its hash    *)
(* and its key.  The sort of evict_lru starts from a HashMap's iteration   *)
(* order, so objects with equal access counts are evicted in any order.    *)
(***************************************************************************)
EXTENDS Naturals, Sequences, FiniteSets, FiniteSetsExt

CONSTANTS
    Objects,          \* the contents that may be stored
    Size,             \* bytes of each content
    Peers,            \* the peers that may hold replicas
    max_capacity,     \* bytes the store is configured for
    MAX_OBJECT_SIZE,  \* the largest content accepted (24 MB)
    EVICT_BATCH,      \* objects one eviction removes at most (10)
    MaxAccess,        \* bound: accesses counted per object
    MaxReplicas       \* bound: replica records per object

ASSUME SizeAssumption == Size \in [Objects -> Nat]
ASSUME CapacityAssumption == {max_capacity, MAX_OBJECT_SIZE, EVICT_BATCH} \subseteq Nat
ASSUME DASNBoundsAssumption == {MaxAccess, MaxReplicas} \subseteq Nat

VARIABLES
    local_store,    \* hash -> StorageObject (pinned, access_count)
    cid_index,      \* the hashes listed by list_cids
    current_usage,  \* bytes accounted for
    peer_replicas   \* hash -> peers registered as holding a replica

vars == <<local_store, cid_index, current_usage, peer_replicas>>

StorageObject == [pinned : BOOLEAN, access_count : Nat]

Stored == DOMAIN local_store
Unpinned == {o \in Stored : ~ local_store[o].pinned}

TotalSize(S) == MapThenSumSet(LAMBDA o : Size[o], S)

Init ==
    /\ local_store = [o \in {} |-> [pinned |-> FALSE, access_count |-> 0]]
    /\ cid_index = {}
    /\ current_usage = 0
    /\ peer_replicas = [o \in Objects |-> <<>>]

\* Slip: pinned objects are candidates too.
EvictableAll(E) ==
    /\ E \subseteq Stored
    /\ Cardinality(E) <= EVICT_BATCH
    /\ Cardinality(E) < EVICT_BATCH => E = Stored
    /\ \A o \in E, p \in Stored \ E : local_store[o].access_count <= local_store[p].access_count

\* Slip: a batch stops one object early.
EvictableShort(E) ==
    /\ E \subseteq Unpinned
    /\ Cardinality(E) < EVICT_BATCH
    /\ Cardinality(E) < EVICT_BATCH - 1 => E = Unpinned
    /\ \A o \in E, p \in Unpinned \ E : local_store[o].access_count <= local_store[p].access_count

\* evict_lru may remove exactly the set E: the first EVICT_BATCH unpinned objects,
\* or all if there are fewer, in the order of their access counts.
Evictable(E) ==
    /\ E \subseteq Unpinned
    /\ Cardinality(E) <= EVICT_BATCH
    /\ Cardinality(E) < EVICT_BATCH => E = Unpinned
    /\ \A o \in E, p \in Unpinned \ E : local_store[o].access_count <= local_store[p].access_count

\* The objects store removes before it inserts o.
MakeRoom(o, E) ==
    IF current_usage + Size[o] > max_capacity THEN Evictable(E) ELSE E = {}

\* Slip: the removed objects stay accounted for.
InsertKeepsUsage(o, pinned, E) ==
    /\ local_store' = [h \in (Stored \ E) \cup {o} |->
           IF h = o THEN [pinned |-> pinned, access_count |-> 0] ELSE local_store[h]]
    /\ cid_index' = (cid_index \ E) \cup {o}
    /\ current_usage' = current_usage + Size[o]

\* The objects of E leave the store, the index and the usage; o enters all three.
Insert(o, pinned, E) ==
    /\ local_store' = [h \in (Stored \ E) \cup {o} |->
           IF h = o THEN [pinned |-> pinned, access_count |-> 0] ELSE local_store[h]]
    /\ cid_index' = (cid_index \ E) \cup {o}
    /\ current_usage' = current_usage - TotalSize(E) + Size[o]

\* Slip: a content that is too large is noticed after room was made for it.
store_new_late_check(o, pinned) ==
    /\ o \notin Stored
    /\ \E E \in SUBSET Unpinned :
        /\ MakeRoom(o, E)
        /\ IF Size[o] <= MAX_OBJECT_SIZE
           THEN Insert(o, pinned, E)
           ELSE /\ local_store' = [h \in Stored \ E |-> local_store[h]]
                /\ cid_index' = cid_index \ E
                /\ current_usage' = current_usage - TotalSize(E)
    /\ UNCHANGED peer_replicas

\* store of a content that is not there yet.
store_new(o, pinned) ==
    /\ Size[o] <= MAX_OBJECT_SIZE
    /\ o \notin Stored
    /\ \E E \in SUBSET Stored : MakeRoom(o, E) /\ Insert(o, pinned, E)
    /\ UNCHANGED peer_replicas

\* store of a content that is there counts an access and ignores "pinned";
\* retrieve counts an access as well.
access(o) ==
    /\ o \in Stored
    /\ local_store[o].access_count < MaxAccess
    /\ local_store' = [local_store EXCEPT ![o].access_count = @ + 1]
    /\ UNCHANGED <<cid_index, current_usage, peer_replicas>>

\* store fails on a content that is too large, before it touches anything.
store_too_large(o) ==
    /\ Size[o] > MAX_OBJECT_SIZE
    /\ UNCHANGED vars

store(o, pinned) == store_new(o, pinned) \/ access(o) \/ store_too_large(o)

\* A missing object is None; nothing changes.
retrieve(o) == access(o)

\* pin and unpin fail on a missing object and change nothing.
pin(o) ==
    /\ o \in Stored
    /\ local_store' = [local_store EXCEPT ![o].pinned = TRUE]
    /\ UNCHANGED <<cid_index, current_usage, peer_replicas>>

unpin(o) ==
    /\ o \in Stored
    /\ local_store' = [local_store EXCEPT ![o].pinned = FALSE]
    /\ UNCHANGED <<cid_index, current_usage, peer_replicas>>

\* A peer is recorded as often as it is registered, for any hash.
register_replica(o, peer) ==
    /\ Len(peer_replicas[o]) < MaxReplicas
    /\ peer_replicas' = [peer_replicas EXCEPT ![o] = Append(@, peer)]
    /\ UNCHANGED <<local_store, cid_index, current_usage>>

Next ==
    \E o \in Objects :
        \/ \E pinned \in BOOLEAN : store(o, pinned)
        \/ retrieve(o)
        \/ pin(o)
        \/ unpin(o)
        \/ \E peer \in Peers : register_replica(o, peer)

Spec == Init /\ [][Next]_vars

-----------------------------------------------------------------------------
TypeOK ==
    /\ Stored \subseteq Objects
    /\ local_store \in [Stored -> StorageObject]
    /\ cid_index \subseteq Objects
    /\ current_usage \in Nat
    /\ peer_replicas \in [Objects -> Seq(Peers)]

\* list_cids and has_object answer from two maps that store and evict_lru maintain
\* side by side: they name the same objects.
IndexMatchesStore == cid_index = Stored

\* current_usage is carried along by additions and subtractions only; it stays the
\* size of what is stored, so the subtraction in evict_lru cannot go below zero
\* and nothing too large is among it.
UsageIsSum ==
    /\ current_usage = TotalSize(Stored)
    /\ \A o \in Stored : Size[o] <= MAX_OBJECT_SIZE

EvictsIdle ==
    \A o \in Stored \ Stored' :
        /\ ~ local_store[o].pinned
        /\ \A p \in Stored \cap Stored' :
              local_store[p].pinned \/ local_store[o].access_count <= local_store[p].access_count
        /\ peer_replicas'[o] = peer_replicas[o]

\* An eviction takes only unpinned objects, and none that was accessed more often
\* than an unpinned object it leaves; where the evicted object's replicas are
\* stays known.
EvictOnlyIdle == [][EvictsIdle]_vars

\* Nothing is evicted but to make room for an object that is then really stored: a
\* failing store costs no other object its place, and the newcomer, whose access
\* count is the lowest, is not itself swept away.
EvictedForANewcomer == [][Stored \ Stored' # {} => Stored' \ Stored # {}]_vars

\* The capacity is not a hard limit: store inserts after one eviction, whatever it
\* freed.  What holds is that usage rises above the capacity only when that
\* eviction had nothing more to take: a full batch went, or every object that was
\* there and stays is pinned.
OverfullOnlyAfterEviction ==
    [][current_usage' > current_usage /\ current_usage' > max_capacity =>
        \/ Cardinality(Stored \ Stored') = EVICT_BATCH
        \/ \A p \in Stored \cap Stored' : local_store[p].pinned]_vars

=============================================================================
