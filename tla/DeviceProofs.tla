---------------------------- MODULE DeviceProofs ----------------------------
(***************************************************************************)
(* What one device does on its own, for all values of the constants: the   *)
(* index, the usage and the evictions of the content store; the Bluetooth  *)
(* queue and tables; the assistant's history and answers; what becomes of  *)
(* frames; which paths and phrases give equal keys; and that the app takes *)
(* the address of any hash for one.                                        *)
(***************************************************************************)
EXTENDS MCDevice, FiniteSetTheorems, SequenceTheorems, WellFoundedInduction, TLAPS

\* A step of the device is one of each component, or leaves it alone.
LEMMA ComponentSteps ==
    ASSUME [MCNext]_all_vars
    PROVE  /\ [Next]_vars
           /\ [Bluetooth!Next]_(Bluetooth!vars)
           /\ [Chat!Next]_(Chat!vars)
           /\ [Frame!Carry]_(Frame!vars)
           /\ [Keys!Next]_(Keys!vars)
  BY DEF MCNext, all_vars, ble_vars, chat_vars, frame_vars, key_vars, Bluetooth!vars,
         Bluetooth!tables, Bluetooth!callers, Chat!vars, Frame!vars, Keys!vars

\* So each component behaves as its own specification says.
LEMMA ComponentSpecs ==
    MCSpec => Spec /\ Bluetooth!Spec /\ Chat!Spec /\ Frame!Spec /\ Keys!Spec
  <1>1. MCInit => Init /\ Bluetooth!Init /\ Chat!Init /\ Frame!Init /\ Keys!Init
    BY DEF MCInit
  <1> QED
    BY <1>1, ComponentSteps, PTL
    DEF MCSpec, Spec, Bluetooth!Spec, Chat!Spec, Frame!Spec, Keys!Spec

-----------------------------------------------------------------------------
(* The content store. *)

\* The set that a store of o removes is a set of unpinned stored objects.
LEMMA RoomIsUnpinned ==
    ASSUME NEW o, NEW E, MakeRoom(o, E)
    PROVE  /\ E \subseteq Unpinned
           /\ \A v \in E, p \in Unpinned \ E :
                 local_store[v].access_count <= local_store[p].access_count
  BY DEF MakeRoom, Evictable

\* What store_new does to the keys of local_store.
LEMMA NewcomerStored ==
    ASSUME NEW o, NEW pinned, store_new(o, pinned)
    PROVE  /\ o \notin Stored
           /\ \E E \in SUBSET Stored :
                 /\ MakeRoom(o, E)
                 /\ Stored' = (Stored \ E) \cup {o}
                 /\ cid_index' = (cid_index \ E) \cup {o}
           /\ peer_replicas' = peer_replicas
  BY DEF store_new, Insert, Stored

\* Every other operation leaves the keys and the index alone.
LEMMA OthersKeepKeys ==
    ASSUME NEW o, \/ access(o) \/ store_too_large(o) \/ pin(o) \/ unpin(o)
                  \/ \E peer \in Peers : register_replica(o, peer)
    PROVE  Stored' = Stored /\ cid_index' = cid_index
  <1>1. CASE access(o)
    BY <1>1 DEF access, Stored
  <1>2. CASE store_too_large(o)
    BY <1>2 DEF store_too_large, vars, Stored
  <1>3. CASE pin(o)
    BY <1>3 DEF pin, Stored
  <1>4. CASE unpin(o)
    BY <1>4 DEF unpin, Stored
  <1>5. CASE \E peer \in Peers : register_replica(o, peer)
    BY <1>5 DEF register_replica, Stored
  <1> QED
    BY <1>1, <1>2, <1>3, <1>4, <1>5

\* A step either stores a newcomer or keeps the keys and the index.
LEMMA StepCases ==
    ASSUME [Next]_vars
    PROVE  \/ \E o \in Objects, pinned \in BOOLEAN : store_new(o, pinned)
           \/ Stored' = Stored /\ cid_index' = cid_index
  <1>1. CASE UNCHANGED vars
    BY <1>1 DEF vars, Stored
  <1>2. CASE Next
    BY <1>2, OthersKeepKeys DEF Next, store, retrieve
  <1> QED
    BY <1>1, <1>2

\* list_cids and has_object always name the same objects: store inserts into both
\* maps and evict_lru removes from both.
THEOREM IndexIsTheStore == Spec => []IndexMatchesStore
  <1>1. Init => IndexMatchesStore
    BY DEF Init, IndexMatchesStore, Stored
  <1>2. IndexMatchesStore /\ [Next]_vars => IndexMatchesStore'
    <2> SUFFICES ASSUME IndexMatchesStore, [Next]_vars
                 PROVE  IndexMatchesStore'
      OBVIOUS
    <2>1. CASE \E o \in Objects, pinned \in BOOLEAN : store_new(o, pinned)
      <3>1. PICK o \in Objects, pinned \in BOOLEAN : store_new(o, pinned)
        BY <2>1
      <3>2. PICK E \in SUBSET Stored : /\ Stored' = (Stored \ E) \cup {o}
                                       /\ cid_index' = (cid_index \ E) \cup {o}
        BY <3>1, NewcomerStored
      <3> QED
        BY <3>2 DEF IndexMatchesStore
    <2>2. CASE Stored' = Stored /\ cid_index' = cid_index
      BY <2>2 DEF IndexMatchesStore
    <2> QED
      BY <2>1, <2>2, StepCases
  <1> QED
    BY <1>1, <1>2, PTL DEF Spec

\* No step ever evicts a pinned object, or one that was accessed more often than an
\* unpinned object it keeps: evict_lru filters and sorts before it removes.
THEOREM EvictionTakesTheIdle == MCSpec => EvictOnlyIdle
  <1>1. [Next]_vars => EvictsIdle
    <2> SUFFICES ASSUME [Next]_vars
                 PROVE  EvictsIdle
      OBVIOUS
    <2>1. CASE \E o \in Objects, pinned \in BOOLEAN : store_new(o, pinned)
      <3>1. PICK o \in Objects, pinned \in BOOLEAN : store_new(o, pinned)
        BY <2>1
      <3>2. PICK E \in SUBSET Stored : MakeRoom(o, E) /\ Stored' = (Stored \ E) \cup {o}
        BY <3>1, NewcomerStored
      <3>3. Stored \ Stored' \subseteq E /\ Stored \cap Stored' \cap E \subseteq {o}
        BY <3>2
      <3>4. o \notin Stored /\ peer_replicas' = peer_replicas
        BY <3>1, NewcomerStored
      <3>5. /\ E \subseteq Unpinned
            /\ \A v \in E, p \in Unpinned \ E :
                  local_store[v].access_count <= local_store[p].access_count
        BY <3>2, RoomIsUnpinned
      <3> QED
        BY <3>3, <3>4, <3>5 DEF Unpinned, EvictsIdle
    <2>2. CASE Stored' = Stored /\ cid_index' = cid_index
      BY <2>2 DEF EvictsIdle
    <2> QED
      BY <2>1, <2>2, StepCases
  <1> QED
    BY <1>1, ComponentSpecs, PTL DEF Spec, EvictOnlyIdle

\* A step that evicts stores an object that was not there before: a store that
\* fails evicts nothing, and the newcomer survives its own eviction.
THEOREM EvictionServesANewcomer == MCSpec => EvictedForANewcomer
  <1>1. [Next]_vars => (Stored \ Stored' # {} => Stored' \ Stored # {})
    <2> SUFFICES ASSUME [Next]_vars, Stored \ Stored' # {}
                 PROVE  Stored' \ Stored # {}
      OBVIOUS
    <2>1. PICK o \in Objects, pinned \in BOOLEAN : store_new(o, pinned)
      BY StepCases
    <2>2. o \in Stored' \ Stored
      BY <2>1, NewcomerStored
    <2> QED
      BY <2>2
  <1> QED
    BY <1>1, ComponentSpecs, PTL DEF Spec, EvictedForANewcomer

-----------------------------------------------------------------------------
(* The sum of sizes.  TotalSize folds a set in the order CHOOSE takes it apart; by *)
(* induction over finite sets (a smallest set for which a claim fails) the fold is *)
(* defined, and adding or removing an object changes it by the object's size.      *)

\* A non-empty collection of finite sets has one with no smaller one in it.
LEMMA SmallestSet ==
    ASSUME NEW S, IsFiniteSet(S), NEW C \in SUBSET (SUBSET S), C # {}
    PROVE  \E s \in C : \A t \in C : t \subseteq s => t = s
  <1> DEFINE R == StrictSubsetOrdering(S)
  <1>1. IsWellFoundedOn(R, SUBSET S)
    BY FS_StrictSubsetOrderingWellFounded, FS_FiniteSubsetsOfFinite
  <1>2. \A s, t \in SUBSET S : t \subseteq s /\ t # s => <<t, s>> \in R
    BY DEF StrictSubsetOrdering
  <1> HIDE DEF R
  <1>3. PICK s \in C : \A t \in C : ~ (<<t, s>> \in R)
    BY <1>1, WFMin
  <1> QED BY <1>2, <1>3

Pick(s) == CHOOSE x \in s : TRUE

\* g sums the sizes in every subset of S the way TotalSize does.
Adds(S, g) ==
    g = [s \in SUBSET S |-> IF s = {} THEN 0 ELSE Size[Pick(s)] + g[s \ {Pick(s)}]]
Sums(S) == CHOOSE g : Adds(S, g)

LEMMA TotalIsSums == ASSUME NEW S PROVE TotalSize(S) = Sums(S)[S]
  BY DEF TotalSize, MapThenSumSet, MapThenFoldSet, Sums, Adds, Pick

LEMMA PickedIsIn == ASSUME NEW s, s # {} PROVE Pick(s) \in s
  BY DEF Pick

LEMMA AddsStep ==
    ASSUME NEW S, NEW g, Adds(S, g), NEW s \in SUBSET S
    PROVE  g[s] = IF s = {} THEN 0 ELSE Size[Pick(s)] + g[s \ {Pick(s)}]
  BY DEF Adds

\* Two such functions agree where both are defined.
LEMMA SumsAgree ==
    ASSUME NEW S, IsFiniteSet(S), NEW T \in SUBSET S, NEW g, Adds(S, g), NEW h, Adds(T, h)
    PROVE  g[T] = h[T]
  <1> DEFINE bad == {s \in SUBSET T : g[s] # h[s]}
  <1> SUFFICES ASSUME bad # {} PROVE FALSE
    OBVIOUS
  <1>1. IsFiniteSet(T)
    BY FS_Subset
  <1>2. PICK s \in bad : \A t \in bad : t \subseteq s => t = s
    <2>1. bad \in SUBSET (SUBSET T)
      OBVIOUS
    <2> HIDE DEF bad
    <2> QED BY <1>1, <2>1, SmallestSet
  <1> DEFINE t == s \ {Pick(s)}
  <1>3. s \in SUBSET T /\ s \in SUBSET S /\ t \in SUBSET T
    OBVIOUS
  <1>4. s # {} /\ t # s
    BY <1>3, AddsStep, PickedIsIn
  <1>5. g[t] = h[t]
    BY <1>2, <1>3, <1>4
  <1>6. g[s] = Size[Pick(s)] + g[t] /\ h[s] = Size[Pick(s)] + h[t]
    BY <1>3, <1>4, AddsStep
  <1> QED BY <1>2, <1>5, <1>6

\* There is such a function for every finite set, so that Sums is one.
LEMMA SumsAdd == ASSUME NEW S, IsFiniteSet(S) PROVE Adds(S, Sums(S))
  <1> DEFINE bad == {s \in SUBSET S : ~ Adds(s, Sums(s))}
  <1> SUFFICES ASSUME bad # {} PROVE FALSE
    OBVIOUS
  <1>1. PICK s \in bad : \A t \in bad : t \subseteq s => t = s
    <2>1. bad \in SUBSET (SUBSET S)
      OBVIOUS
    <2> HIDE DEF bad
    <2> QED BY <2>1, SmallestSet
  <1>2. ASSUME NEW t \in SUBSET s, t # s
        PROVE  Adds(t, Sums(t)) /\ IsFiniteSet(t)
    BY <1>1, <1>2, FS_Subset
  <1> DEFINE less(u) == u \ {Pick(u)}
             g == [u \in SUBSET s |->
                     IF u = {} THEN 0 ELSE Size[Pick(u)] + Sums(less(u))[less(u)]]
  <1>3. ASSUME NEW t \in SUBSET s, t # s
        PROVE  g[t] = Sums(t)[t]
    <2>1. CASE t = {}
      BY <1>2, <1>3, <2>1, AddsStep
    <2>2. CASE t # {}
      <3>1. less(t) \in SUBSET t /\ less(t) \in SUBSET s /\ less(t) # s
        BY <2>2, PickedIsIn
      <3>2. Sums(t)[t] = Size[Pick(t)] + Sums(t)[less(t)]
        BY <1>2, <1>3, <2>2, AddsStep
      <3>3. Sums(t)[less(t)] = Sums(less(t))[less(t)]
        BY <1>2, <1>3, <3>1, SumsAgree
      <3> QED BY <2>2, <3>2, <3>3
    <2> QED BY <2>1, <2>2
  <1>4. ASSUME NEW u \in SUBSET s, u # {}
        PROVE  g[u] = Size[Pick(u)] + g[less(u)]
    <2>1. less(u) \in SUBSET s /\ less(u) # s
      BY <1>4, PickedIsIn
    <2>2. g[less(u)] = Sums(less(u))[less(u)]
      BY <1>3, <2>1
    <2> QED BY <1>4, <2>2
  <1>5. Adds(s, g)
    <2>1. g = [u \in SUBSET s |-> g[u]]
      OBVIOUS
    <2>2. g[{}] = 0
      OBVIOUS
    <2> HIDE DEF g
    <2> QED BY <1>4, <2>1, <2>2 DEF Adds
  <1> HIDE DEF g
  <1>6. Adds(s, Sums(s))
    BY <1>5 DEF Sums
  <1> QED BY <1>1, <1>6

LEMMA TotalStep ==
    ASSUME NEW S, IsFiniteSet(S)
    PROVE  TotalSize(S) = IF S = {} THEN 0 ELSE Size[Pick(S)] + TotalSize(S \ {Pick(S)})
  <1> DEFINE t == S \ {Pick(S)}
  <1>1. Adds(S, Sums(S)) /\ IsFiniteSet(t) /\ Adds(t, Sums(t)) /\ t \in SUBSET S
    BY SumsAdd, FS_Subset
  <1>2. TotalSize(S) = IF S = {} THEN 0 ELSE Size[Pick(S)] + Sums(S)[t]
    BY <1>1, TotalIsSums, AddsStep
  <1>3. Sums(S)[t] = Sums(t)[t]
    <2> HIDE DEF t
    <2> QED BY <1>1, SumsAgree
  <1> QED BY <1>2, <1>3, TotalIsSums

LEMMA TotalType == ASSUME NEW S \in SUBSET Objects, IsFiniteSet(S) PROVE TotalSize(S) \in Nat
  <1> DEFINE bad == {s \in SUBSET S : TotalSize(s) \notin Nat}
  <1> SUFFICES ASSUME bad # {} PROVE FALSE
    OBVIOUS
  <1>1. PICK s \in bad : \A t \in bad : t \subseteq s => t = s
    <2>1. bad \in SUBSET (SUBSET S)
      OBVIOUS
    <2> HIDE DEF bad
    <2> QED BY <2>1, SmallestSet
  <1> DEFINE t == s \ {Pick(s)}
  <1>2. IsFiniteSet(s) /\ s \in SUBSET S /\ t \in SUBSET S
    BY FS_Subset
  <1>3. s # {}
    <2>1. TotalSize({}) = 0
      BY FS_EmptySet, TotalStep
    <2>2. TotalSize(s) \notin Nat
      BY <1>1
    <2>3. 0 \in Nat
      OBVIOUS
    <2> QED BY <2>1, <2>2, <2>3, Zenon
  <1>4. Pick(s) \in Objects /\ t # s
    BY <1>2, <1>3, PickedIsIn
  <1>5. TotalSize(t) \in Nat /\ Size[Pick(s)] \in Nat
    BY <1>1, <1>2, <1>4, SizeAssumption
  <1>6. TotalSize(s) = Size[Pick(s)] + TotalSize(t)
    BY <1>2, <1>3, TotalStep
  <1> HIDE DEF t
  <1> QED BY <1>1, <1>5, <1>6

\* Whichever object is taken out first, the rest is what is left of the sum.
LEMMA TotalWithout ==
    ASSUME NEW S \in SUBSET Objects, IsFiniteSet(S), NEW o \in S
    PROVE  TotalSize(S) = Size[o] + TotalSize(S \ {o})
  <1> DEFINE bad == {s \in SUBSET S : \E x \in s : TotalSize(s) # Size[x] + TotalSize(s \ {x})}
  <1> SUFFICES ASSUME bad # {} PROVE FALSE
    OBVIOUS
  <1>1. PICK s \in bad : \A t \in bad : t \subseteq s => t = s
    <2>1. bad \in SUBSET (SUBSET S)
      OBVIOUS
    <2> HIDE DEF bad
    <2> QED BY <2>1, SmallestSet
  <1>2. PICK x \in s : TotalSize(s) # Size[x] + TotalSize(s \ {x})
    BY <1>1
  <1> DEFINE y == Pick(s)
             both == s \ {x, y}
  <1>3. IsFiniteSet(s) /\ s \in SUBSET S /\ s # {} /\ y \in s
    BY FS_Subset, PickedIsIn
  <1>4. TotalSize(s) = Size[y] + TotalSize(s \ {y})
    BY <1>3, TotalStep
  <1>5. x # y
    BY <1>2, <1>4
  <1>6. /\ s \ {x} \in SUBSET S /\ s \ {x} # s /\ y \in s \ {x} /\ (s \ {x}) \ {y} = both
        /\ s \ {y} \in SUBSET S /\ s \ {y} # s /\ x \in s \ {y} /\ (s \ {y}) \ {x} = both
    BY <1>3, <1>5
  <1> HIDE DEF y, both
  <1>7. s \ {x} \notin bad /\ s \ {y} \notin bad
    BY <1>1, <1>6
  <1>8. TotalSize(s \ {x}) = Size[y] + TotalSize(both)
    BY <1>6, <1>7
  <1>9. TotalSize(s \ {y}) = Size[x] + TotalSize(both)
    BY <1>6, <1>7
  <1>10. Size[x] \in Nat /\ Size[y] \in Nat /\ TotalSize(both) \in Nat
    <2>1. both \in SUBSET Objects /\ IsFiniteSet(both) /\ x \in Objects /\ y \in Objects
      BY <1>3, FS_Subset DEF both
    <2> QED BY <2>1, TotalType, SizeAssumption
  <1> HIDE DEF bad
  <1> QED BY <1>2, <1>4, <1>8, <1>9, <1>10

LEMMA TotalOfRest ==
    ASSUME NEW S \in SUBSET Objects, IsFiniteSet(S), NEW E \in SUBSET S
    PROVE  TotalSize(S \ E) = TotalSize(S) - TotalSize(E)
  <1> DEFINE bad == {s \in SUBSET E : TotalSize(S \ s) # TotalSize(S) - TotalSize(s)}
  <1> SUFFICES ASSUME bad # {} PROVE FALSE
    OBVIOUS
  <1>0. IsFiniteSet(E)
    BY FS_Subset
  <1>1. PICK s \in bad : \A t \in bad : t \subseteq s => t = s
    <2>1. bad \in SUBSET (SUBSET E)
      OBVIOUS
    <2> HIDE DEF bad
    <2> QED BY <1>0, <2>1, SmallestSet
  <1> DEFINE x == Pick(s)
             t == s \ {x}
  <1>2. /\ IsFiniteSet(s) /\ IsFiniteSet(S \ t) /\ IsFiniteSet(t)
        /\ s \in SUBSET Objects /\ S \ t \in SUBSET Objects /\ t \in SUBSET Objects
    BY FS_Subset
  <1>3. s # {}
    <2>1. TotalSize({}) = 0
      BY FS_EmptySet, TotalStep
    <2>2. TotalSize(S) \in Nat /\ S \ {} = S
      BY TotalType
    <2>3. TotalSize(S \ {}) = TotalSize(S) - TotalSize({})
      BY <2>1, <2>2
    <2> QED BY <1>1, <2>3
  <1>4. x \in s /\ x \in S \ t /\ (S \ t) \ {x} = S \ s /\ t \in SUBSET E /\ t # s
    BY <1>3, PickedIsIn
  <1>5. TotalSize(S \ t) = TotalSize(S) - TotalSize(t)
    BY <1>1, <1>4
  <1>6. TotalSize(S \ t) = Size[x] + TotalSize(S \ s)
    <2> HIDE DEF t, x
    <2> QED BY <1>2, <1>4, TotalWithout
  <1>7. TotalSize(s) = Size[x] + TotalSize(t)
    BY <1>2, <1>4, TotalWithout
  <1>8. /\ TotalSize(S) \in Nat /\ TotalSize(t) \in Nat /\ TotalSize(S \ s) \in Nat
        /\ Size[x] \in Nat
    <2>1. x \in Objects /\ S \ s \in SUBSET Objects /\ IsFiniteSet(S \ s)
      BY <1>2, <1>4, FS_Subset
    <2> QED BY <1>2, <2>1, TotalType, SizeAssumption
  <1>9. TotalSize(S \ s) = TotalSize(S) - TotalSize(s)
    <2> HIDE DEF t, x
    <2> QED BY <1>5, <1>6, <1>7, <1>8
  <1> QED BY <1>1, <1>9

LEMMA TotalWith ==
    ASSUME NEW S \in SUBSET Objects, IsFiniteSet(S), NEW o \in Objects \ S
    PROVE  TotalSize(S \cup {o}) = TotalSize(S) + Size[o]
  <1>1. S \cup {o} \in SUBSET Objects /\ IsFiniteSet(S \cup {o}) /\ (S \cup {o}) \ {o} = S
    BY FS_AddElement
  <1>2. TotalSize(S \cup {o}) = Size[o] + TotalSize((S \cup {o}) \ {o})
    BY <1>1, TotalWithout
  <1>3. Size[o] \in Nat /\ TotalSize(S) \in Nat
    BY TotalType, SizeAssumption
  <1>4. TotalSize((S \cup {o}) \ {o}) = TotalSize(S)
    BY <1>1, Zenon
  <1> QED BY <1>2, <1>3, <1>4

-----------------------------------------------------------------------------
(* The usage kept by hand.                                                        *)

StoreInv == TypeOK /\ IsFiniteSet(Stored) /\ UsageIsSum

LEMMA InitStoreInv == Init => StoreInv
  <1> SUFFICES ASSUME Init PROVE StoreInv
    OBVIOUS
  <1>1. Stored = {} /\ IsFiniteSet({})
    BY FS_EmptySet DEF Init, Stored
  <1>2. TotalSize({}) = 0
    BY FS_EmptySet, TotalStep
  <1>3. TypeOK
    BY <1>1 DEF Init, TypeOK, StorageObject
  <1> QED BY <1>1, <1>2, <1>3 DEF Init, StoreInv, UsageIsSum

LEMMA StoreNewKeeps ==
    ASSUME StoreInv, NEW o \in Objects, NEW pinned \in BOOLEAN, store_new(o, pinned)
    PROVE  StoreInv'
  <1>1. PICK E \in SUBSET Stored : Insert(o, pinned, E)
    BY DEF store_new
  <1>2. /\ Size[o] <= MAX_OBJECT_SIZE /\ o \notin Stored /\ peer_replicas' = peer_replicas
        /\ IsFiniteSet(Stored) /\ Stored \subseteq Objects
        /\ current_usage = TotalSize(Stored) /\ current_usage \in Nat
    BY DEF store_new, StoreInv, TypeOK, UsageIsSum
  <1> DEFINE rest == Stored \ E
  <1>3. /\ Stored' = rest \cup {o}
        /\ cid_index' = (cid_index \ E) \cup {o}
        /\ current_usage' = current_usage - TotalSize(E) + Size[o]
    BY <1>1 DEF Insert, Stored
  <1>4. IsFiniteSet(rest) /\ IsFiniteSet(E) /\ rest \in SUBSET Objects /\ o \notin rest
    BY <1>2, FS_Subset
  <1>5. TotalSize(rest) = TotalSize(Stored) - TotalSize(E)
    BY <1>2, TotalOfRest
  <1>6. TotalSize(rest \cup {o}) = TotalSize(rest) + Size[o]
    BY <1>4, TotalWith
  <1>7. TotalSize(E) \in Nat /\ TotalSize(rest \cup {o}) \in Nat /\ Size[o] \in Nat
    BY <1>2, <1>4, TotalType, FS_AddElement, SizeAssumption
  <1>8. current_usage' = TotalSize(Stored') /\ current_usage' \in Nat
    <2> HIDE DEF rest
    <2>1. TotalSize(rest \cup {o}) = TotalSize(Stored) - TotalSize(E) + Size[o]
      BY <1>5, <1>6
    <2> QED BY <1>2, <1>3, <1>7, <2>1
  <1>9. IsFiniteSet(Stored')
    BY <1>3, <1>4, FS_AddElement
  <1>10. local_store' \in [Stored' -> StorageObject]
    <2>1. local_store' = [h \in Stored' |->
             IF h = o THEN [pinned |-> pinned, access_count |-> 0] ELSE local_store[h]]
      BY <1>1, <1>3 DEF Insert
    <2>2. ASSUME NEW h \in Stored', h # o PROVE local_store[h] \in StorageObject
      BY <1>3, <2>2 DEF StoreInv, TypeOK
    <2>3. [pinned |-> pinned, access_count |-> 0] \in StorageObject
      BY DEF StorageObject
    <2> QED BY <2>1, <2>2, <2>3
  <1>11. TypeOK'
    BY <1>2, <1>3, <1>8, <1>10 DEF StoreInv, TypeOK
  <1>12. UsageIsSum'
    BY <1>2, <1>3, <1>8 DEF StoreInv, UsageIsSum
  <1> QED BY <1>9, <1>11, <1>12 DEF StoreInv

LEMMA CountedType ==
    ASSUME NEW D, NEW f \in [D -> StorageObject], NEW o \in D, NEW n \in Nat
    PROVE  [f EXCEPT ![o].access_count = n] \in [D -> StorageObject]
  BY DEF StorageObject

LEMMA StoreInvStep == StoreInv /\ [Next]_vars => StoreInv'
  <1> SUFFICES ASSUME StoreInv, [Next]_vars PROVE StoreInv'
    OBVIOUS
  <1> DEFINE Kept == Stored' = Stored /\ current_usage' = current_usage /\ cid_index' = cid_index
  <1>1. ASSUME Kept, local_store' \in [Stored -> StorageObject],
               peer_replicas' \in [Objects -> Seq(Peers)]
        PROVE  StoreInv'
    BY <1>1 DEF StoreInv, TypeOK, UsageIsSum
  <1>2. /\ local_store \in [Stored -> StorageObject]
        /\ peer_replicas \in [Objects -> Seq(Peers)]
    BY DEF StoreInv, TypeOK
  <1>3. ASSUME NEW o \in Objects, access(o) PROVE StoreInv'
    <2>1. local_store' \in [Stored -> StorageObject]
      <3>1. /\ local_store[o] \in StorageObject /\ o \in Stored
            /\ local_store' = [local_store EXCEPT ![o].access_count = @ + 1]
        BY <1>2, <1>3 DEF access
      <3>2. local_store[o].access_count + 1 \in Nat
        BY <3>1 DEF StorageObject
      <3> QED BY <1>2, <3>1, <3>2, CountedType
    <2> QED BY <1>1, <1>2, <1>3, <2>1 DEF access, Stored
  <1>4. ASSUME NEW o \in Objects, pin(o) \/ unpin(o) PROVE StoreInv'
    <2>1. local_store' \in [Stored -> StorageObject]
      BY <1>2, <1>4 DEF pin, unpin, StorageObject
    <2> QED BY <1>1, <1>2, <1>4, <2>1 DEF pin, unpin, Stored
  <1>5. ASSUME NEW o \in Objects, NEW peer \in Peers, register_replica(o, peer) PROVE StoreInv'
    <2>1. peer_replicas' \in [Objects -> Seq(Peers)]
      BY <1>2, <1>5 DEF register_replica
    <2> QED BY <1>1, <1>2, <1>5, <2>1 DEF register_replica, Stored
  <1>6. CASE UNCHANGED vars
    BY <1>1, <1>2, <1>6 DEF vars, Stored
  <1>7. ASSUME NEW o \in Objects, store_too_large(o) PROVE StoreInv'
    BY <1>6, <1>7 DEF store_too_large
  <1> QED BY <1>3, <1>4, <1>5, <1>6, <1>7, StoreNewKeeps DEF Next, store, retrieve

\* current_usage, which store and evict_lru carry along by additions and subtractions,
\* is the size of what is stored and never goes below zero; and list_cids and
\* has_object name the same objects.
THEOREM StoreIsConsistent == MCSpec => []IndexAndUsageMatchStore
  <1>1. StoreInv /\ IndexMatchesStore => IndexAndUsageMatchStore
    BY DEF StoreInv, IndexAndUsageMatchStore
  <1>2. Spec => []StoreInv
    BY InitStoreInv, StoreInvStep, PTL DEF Spec
  <1> QED BY <1>1, <1>2, IndexIsTheStore, ComponentSpecs, PTL

\* A store that ends up above the capacity has taken a full batch, or has left
\* nothing behind that was not pinned.
THEOREM OverfullHasEvicted == MCSpec => OverfullOnlyAfterEviction
  <1>1. StoreInv /\ [Next]_vars =>
            (current_usage' > current_usage /\ current_usage' > max_capacity =>
                \/ Cardinality(Stored \ Stored') = EVICT_BATCH
                \/ \A p \in Stored \cap Stored' : local_store[p].pinned)
    <2> SUFFICES ASSUME StoreInv, [Next]_vars,
                        current_usage' > current_usage, current_usage' > max_capacity
                 PROVE  \/ Cardinality(Stored \ Stored') = EVICT_BATCH
                        \/ \A p \in Stored \cap Stored' : local_store[p].pinned
      OBVIOUS
    <2>1. current_usage \in Nat
      BY DEF StoreInv, TypeOK
    <2>2. PICK o \in Objects, pinned \in BOOLEAN : store_new(o, pinned)
      BY <2>1 DEF Next, store, retrieve, access, pin, unpin, register_replica, store_too_large, vars
    <2>3. PICK E \in SUBSET Stored : MakeRoom(o, E) /\ Insert(o, pinned, E)
      BY <2>2 DEF store_new
    <2>4. /\ o \notin Stored /\ Stored' = (Stored \ E) \cup {o}
          /\ current_usage' = current_usage - TotalSize(E) + Size[o]
      BY <2>2, <2>3 DEF store_new, Insert, Stored
    <2>5. TotalSize(E) \in Nat /\ Size[o] \in Nat /\ max_capacity \in Nat /\ IsFiniteSet(E)
      <3>1. IsFiniteSet(E) /\ E \in SUBSET Objects
        BY FS_Subset DEF StoreInv, TypeOK
      <3> QED BY <3>1, TotalType, SizeAssumption, CapacityAssumption
    <2>6. current_usage + Size[o] > max_capacity
      BY <2>1, <2>4, <2>5
    <2>7. Evictable(E)
      BY <2>3, <2>6 DEF MakeRoom
    <2>8. Stored \ Stored' = E
      BY <2>4
    <2>9. CASE Cardinality(E) < EVICT_BATCH
      BY <2>4, <2>7, <2>9 DEF Evictable, Unpinned
    <2>10. CASE ~ (Cardinality(E) < EVICT_BATCH)
      <3>1. Cardinality(E) \in Nat /\ EVICT_BATCH \in Nat
        BY <2>5, FS_CardinalityType, CapacityAssumption
      <3>2. Cardinality(E) = EVICT_BATCH
        BY <2>7, <2>10, <3>1 DEF Evictable
      <3> QED BY <2>8, <3>2
    <2> QED BY <2>9, <2>10
  <1> QED BY <1>1, InitStoreInv, StoreInvStep, ComponentSpecs, PTL DEF Spec, OverfullOnlyAfterEviction

-----------------------------------------------------------------------------
(* The Bluetooth queue and tables. *)

Device == [id : Devices, zero_id : ZeroIds \cup {None}, rssi : Bluetooth!Signal]
MeshNode == [id : Devices, zero_id : ZeroIds, hop_count : {1, 2}]

\* Messages are made under the numbers that the counter takes.
MadeInv ==
    /\ made \in Seq(Bluetooth!Messages)
    /\ \A n \in 1..Len(made) : made[n].nr = n /\ made[n].sequence = n % SequenceMod
    /\ sequence_counter = Len(made) % SequenceMod
    /\ queued \subseteq 1..Len(made)

\* A queue of messages that were made and queued; those queued after one that waits wait
\* behind it.
Numbered(q) ==
    \A i \in 1..Len(q) : q[i].nr # 0 => q[i].nr \in queued /\ q[i].sequence = q[i].nr % SequenceMod
Ordered(q) ==
    \A i, j \in 1..Len(q) : j < i /\ q[i].nr # 0 /\ q[j].nr # 0 => q[j].nr < q[i].nr
Complete(q) ==
    \A i \in 1..Len(q), n \in queued :
        q[i].nr # 0 /\ n > q[i].nr => \E j \in 1..Len(q) : q[j].nr = n

\* The queue keeps within its bound.
QueueInv ==
    /\ MadeInv
    /\ message_queue \in Seq(Bluetooth!Messages)
    /\ Len(message_queue) <= MAX_QUEUE_SIZE
    /\ Numbered(message_queue)
    /\ in_order => Ordered(message_queue) /\ Complete(message_queue)

\* Two entries of a table are of different devices.
OneEntryEach(table) == \A i, j \in 1..Len(table) : table[i].id = table[j].id => i = j

TablesInv ==
    /\ known_devices \in Seq(Device) /\ OneEntryEach(known_devices)
    /\ mesh_nodes \in Seq(MeshNode) /\ OneEntryEach(mesh_nodes)

\* A multiple of the modulus more, and one modulus more, are the same number.
LEMMA WholeTurns ==
    ASSUME NEW n \in Nat \ {0}, NEW r \in 0 .. n - 1, NEW k \in Nat
    PROVE  (r + n * k) % n = r
  OBVIOUS

LEMMA NextNumber ==
    ASSUME NEW n \in Nat \ {0}, NEW x \in Nat
    PROVE  ((x % n) + 1) % n = (x + 1) % n
  <1> DEFINE q == x \div n
             r == x % n
  <1>1. q \in Nat /\ r \in 0 .. n - 1
    OBVIOUS
  <1>2. x = r + n * q
    OBVIOUS
  <1>3. n * (q + 1) = n * q + n
    BY <1>1
  <1> HIDE DEF q, r
  <1>4. CASE r + 1 < n
    <2>1. r + 1 \in 0 .. n - 1 /\ x + 1 = (r + 1) + n * q /\ r + 1 = (r + 1) + n * 0
      BY <1>1, <1>2, <1>4
    <2>2. ((r + 1) + n * q) % n = r + 1
      BY <1>1, <2>1, WholeTurns
    <2>3. (r + 1) % n = r + 1
      BY <1>1, <2>1
    <2> QED BY <2>1, <2>2, <2>3 DEF r
  <1>5. CASE r + 1 = n
    <2>1. /\ 0 \in 0 .. n - 1 /\ q + 1 \in Nat /\ x + 1 = 0 + n * (q + 1)
          /\ r + 1 = 0 + n * 1
      BY <1>1, <1>2, <1>3, <1>5
    <2>2. (x + 1) % n = 0 /\ (r + 1) % n = 0
      BY <2>1, WholeTurns, 1 \in Nat
    <2> QED BY <2>2 DEF r
  <1> QED BY <1>1, <1>4, <1>5

LEMMA InitQueue == Bluetooth!Init => QueueInv
  <1>1. SequenceMod \in Nat \ {0} /\ MAX_QUEUE_SIZE \in Nat
    BY BluetoothAssumption DEF Bluetooth!BLEAssumption
  <1>2. 0 % SequenceMod = 0
    BY <1>1
  <1> QED BY <1>1, <1>2
          DEF Bluetooth!Init, QueueInv, MadeInv, Numbered, Ordered, Complete

\* What is left when the first is dropped is as it was, one place further on.
LEMMA FirstDropped ==
    ASSUME QueueInv, message_queue # <<>>
    PROVE  LET q == Tail(message_queue) IN
           /\ q \in Seq(Bluetooth!Messages) /\ Len(q) + 1 = Len(message_queue)
           /\ Numbered(q) /\ (in_order => Ordered(q) /\ Complete(q))
  <1> DEFINE q == Tail(message_queue)
  <1>1. /\ message_queue \in Seq(Bluetooth!Messages) /\ Len(message_queue) \in Nat
        /\ q \in Seq(Bluetooth!Messages) /\ Len(q) \in Nat /\ Len(q) + 1 = Len(message_queue)
        /\ \A i \in 1..Len(q) : q[i] = message_queue[i + 1]
    BY DEF QueueInv
  <1> HIDE DEF q
  <1>2. \A i \in 1..Len(q) : i + 1 \in 1..Len(message_queue)
    BY <1>1
  <1>3. Numbered(q)
    BY <1>1, <1>2 DEF QueueInv, Numbered
  <1>4. ASSUME in_order PROVE Ordered(q)
    <2>1. \A i, j \in 1..Len(q) : j < i => j + 1 < i + 1
      BY <1>1
    <2> QED BY <1>1, <1>2, <1>4, <2>1 DEF QueueInv, Ordered
  <1>5. ASSUME in_order, NEW i \in 1..Len(q), NEW n \in queued, q[i].nr # 0, n > q[i].nr
        PROVE  \E j \in 1..Len(q) : q[j].nr = n
    <2>1. /\ i + 1 \in 1..Len(message_queue) /\ message_queue[i + 1].nr # 0
          /\ n > message_queue[i + 1].nr
      BY <1>1, <1>2, <1>5
    <2>2. PICK j \in 1..Len(message_queue) : message_queue[j].nr = n
      BY <1>5, <2>1 DEF QueueInv, Complete
    <2>3. CASE j = 1
      <3>1. message_queue[i + 1].nr \in Nat /\ n \in Nat /\ n # 0
        <4>1. message_queue[i + 1] \in Bluetooth!Messages
          BY <1>1, <2>1
        <4>2. Len(made) \in Nat /\ queued \subseteq 1..Len(made)
          BY DEF QueueInv, MadeInv
        <4> QED BY <1>5, <4>1, <4>2 DEF Bluetooth!Messages
      <3>2. 1 \in 1..Len(message_queue) /\ 1 < i + 1 /\ message_queue[1].nr # 0
        BY <1>1, <2>2, <2>3, <3>1
      <3>3. n < message_queue[i + 1].nr
        BY <1>5, <2>1, <2>2, <2>3, <3>2 DEF QueueInv, Ordered
      <3> QED BY <2>1, <3>1, <3>3
    <2>4. CASE j # 1
      <3>1. j - 1 \in 1..Len(q) /\ (j - 1) + 1 = j
        BY <1>1, <2>4
      <3> QED BY <1>1, <2>2, <3>1
    <2> QED BY <2>3, <2>4
  <1>6. in_order => Ordered(q) /\ Complete(q)
    BY <1>4, <1>5 DEF Complete
  <1> QED BY <1>1, <1>3, <1>6 DEF q

\* A message is queued: one that was made, which is then among those ever queued, or
\* one that was not.
Queues(msg) ==
    /\ msg \in Bluetooth!Messages
    /\ message_queue' = Bluetooth!Enqueued(message_queue, msg)
    /\ UNCHANGED <<made, sequence_counter>>
    /\ \/ msg.nr = 0 /\ UNCHANGED <<queued, in_order>>
       \/ /\ msg.nr \in 1..Len(made) /\ msg.sequence = msg.nr % SequenceMod
          /\ queued' = queued \cup {msg.nr}
          /\ in_order' => in_order /\ \A m \in queued : m < msg.nr

LEMMA EnqueueQueues ==
    ASSUME QueueInv,
           \/ \E n \in 1..Len(made) : Bluetooth!EnqueueMade(n)
           \/ \E number \in OtherNumbers : Bluetooth!EnqueueOther(number)
    PROVE  \E msg : Queues(msg)
  <1>1. OtherNumbers \subseteq 0 .. SequenceMod - 1
    BY BluetoothAssumption DEF Bluetooth!BLEAssumption
  <1>2. ASSUME NEW n \in 1..Len(made), Bluetooth!EnqueueMade(n) PROVE Queues(made[n])
    <2>1. /\ made[n] \in Bluetooth!Messages
          /\ made[n].nr = n /\ made[n].sequence = n % SequenceMod
      BY DEF QueueInv, MadeInv
    <2> QED BY <1>2, <2>1
            DEF Queues, Bluetooth!EnqueueMade, Bluetooth!enqueue_message, Bluetooth!tables
  <1>3. ASSUME NEW number \in OtherNumbers, Bluetooth!EnqueueOther(number)
        PROVE  Queues([nr |-> 0, sequence |-> number])
    BY <1>1, <1>3 DEF Queues, Bluetooth!Messages, Bluetooth!EnqueueOther,
                      Bluetooth!enqueue_message, Bluetooth!tables
  <1> QED BY <1>2, <1>3

\* It goes behind all that were queued before it, if callers keep to the order.
LEMMA EnqueuedInv ==
    ASSUME QueueInv, NEW msg, Queues(msg)
    PROVE  QueueInv'
  <1> DEFINE old == IF Len(message_queue) >= MAX_QUEUE_SIZE THEN Tail(message_queue)
                    ELSE message_queue
  <1>1. /\ MAX_QUEUE_SIZE \in Nat \ {0} /\ Len(message_queue) \in Nat
        /\ message_queue \in Seq(Bluetooth!Messages) /\ Len(message_queue) <= MAX_QUEUE_SIZE
    BY BluetoothAssumption DEF Bluetooth!BLEAssumption, QueueInv
  <1>2. /\ msg \in Bluetooth!Messages /\ message_queue' = Append(old, msg)
        /\ msg.nr \in Nat
    BY DEF Queues, Bluetooth!Enqueued, Bluetooth!Messages
  <1>3. /\ old \in Seq(Bluetooth!Messages) /\ Len(old) + 1 <= MAX_QUEUE_SIZE
        /\ Numbered(old) /\ (in_order => Ordered(old) /\ Complete(old))
    <2>1. CASE Len(message_queue) >= MAX_QUEUE_SIZE
      <3>1. message_queue # <<>> /\ Len(message_queue) = MAX_QUEUE_SIZE
        BY <1>1, <2>1
      <3> DEFINE q == Tail(message_queue)
      <3>2. /\ q \in Seq(Bluetooth!Messages) /\ Len(q) + 1 = Len(message_queue)
            /\ Numbered(q) /\ (in_order => Ordered(q) /\ Complete(q))
        BY <3>1, FirstDropped
      <3>3. old = q
        BY <2>1
      <3> HIDE DEF old, q
      <3> QED BY <3>1, <3>2, <3>3
    <2>2. CASE ~ (Len(message_queue) >= MAX_QUEUE_SIZE)
      <3>1. old = message_queue /\ Len(message_queue) + 1 <= MAX_QUEUE_SIZE
        BY <1>1, <2>2
      <3> HIDE DEF old
      <3> QED BY <1>1, <3>1 DEF QueueInv
    <2> QED BY <2>1, <2>2
  <1> HIDE DEF old
  <1>4. /\ message_queue' \in Seq(Bluetooth!Messages) /\ Len(old) \in Nat
        /\ Len(message_queue') = Len(old) + 1
        /\ message_queue'[Len(old) + 1] = msg
        /\ \A i \in 1..Len(old) : message_queue'[i] = old[i]
        /\ \A i \in 1..Len(message_queue') : i \in 1..Len(old) \/ i = Len(old) + 1
    BY <1>2, <1>3
  <1>5. /\ queued \subseteq queued' /\ (msg.nr # 0 => msg.nr \in queued')
        /\ \A n \in queued' : n \in queued \/ (n = msg.nr /\ msg.nr # 0)
        /\ queued \subseteq Nat \ {0}
    <2>1. Len(made) \in Nat /\ queued \subseteq 1..Len(made)
      BY DEF QueueInv, MadeInv
    <2>2. queued \subseteq Nat \ {0} /\ (msg.nr \in 1..Len(made) => msg.nr # 0)
      BY <2>1
    <2> QED BY <2>2 DEF Queues
  <1>6. MadeInv'
    BY DEF QueueInv, MadeInv, Queues
  <1>7. Numbered(message_queue)'
    <2>1. \A i \in 1..Len(old) : old[i].nr # 0 =>
              old[i].nr \in queued' /\ old[i].sequence = old[i].nr % SequenceMod
      BY <1>3, <1>5 DEF Numbered
    <2>2. msg.nr # 0 => msg.nr \in queued' /\ msg.sequence = msg.nr % SequenceMod
      BY DEF Queues
    <2> QED BY <1>4, <2>1, <2>2 DEF Numbered
  <1>8. ASSUME in_order' PROVE Ordered(message_queue)' /\ Complete(message_queue)'
    <2>1. in_order /\ \A m \in queued : msg.nr # 0 => m < msg.nr
      BY <1>8 DEF Queues
    <2>2. Ordered(old) /\ Complete(old)
      BY <1>3, <2>1
    <2>3. ASSUME NEW i \in 1..Len(message_queue'), NEW j \in 1..Len(message_queue'), j < i,
                 message_queue'[i].nr # 0, message_queue'[j].nr # 0
          PROVE  message_queue'[j].nr < message_queue'[i].nr
      <3>1. j \in 1..Len(old)
        BY <1>4, <2>3
      <3>2. CASE i \in 1..Len(old)
        BY <1>4, <2>2, <2>3, <3>1, <3>2 DEF Ordered
      <3>3. CASE i = Len(old) + 1
        <4>1. message_queue'[i] = msg /\ message_queue'[j] = old[j]
          BY <1>4, <3>1, <3>3
        <4>2. old[j].nr \in queued
          BY <1>3, <2>3, <3>1, <4>1 DEF Numbered
        <4> QED BY <2>1, <2>3, <4>1, <4>2
      <3> QED BY <1>4, <3>2, <3>3
    <2>4. ASSUME NEW i \in 1..Len(message_queue'), NEW n \in queued',
                 message_queue'[i].nr # 0, n > message_queue'[i].nr
          PROVE  \E j \in 1..Len(message_queue') : message_queue'[j].nr = n
      <3>1. CASE n = msg.nr
        <4>1. Len(old) + 1 \in 1..Len(message_queue')
          BY <1>4
        <4> QED BY <1>4, <3>1, <4>1
      <3>2. CASE n # msg.nr
        <4>1. n \in queued /\ n \in Nat
          BY <1>5, <3>2
        <4>2. i \in 1..Len(old)
          <5> SUFFICES ASSUME i = Len(old) + 1
                       PROVE  FALSE
            BY <1>4
          <5>1. msg.nr # 0 /\ n > msg.nr
            BY <1>4, <2>4
          <5>2. n < msg.nr
            BY <2>1, <4>1, <5>1
          <5> QED BY <1>2, <4>1, <5>1, <5>2
        <4>3. PICK j \in 1..Len(old) : old[j].nr = n
          BY <1>4, <2>2, <2>4, <4>1, <4>2 DEF Complete
        <4>4. j \in 1..Len(message_queue')
          BY <1>4
        <4> QED BY <1>4, <4>3, <4>4
      <3> QED BY <3>1, <3>2
    <2>5. Ordered(message_queue)'
      BY <2>3 DEF Ordered
    <2>6. Complete(message_queue)'
      BY <2>4 DEF Complete
    <2> QED BY <2>5, <2>6
  <1> QED BY <1>3, <1>4, <1>6, <1>7, <1>8 DEF QueueInv

\* The first message leaves.
LEMMA DequeuedInv ==
    ASSUME QueueInv, Bluetooth!dequeue_message
    PROVE  QueueInv'
  <1>1. /\ message_queue # <<>> /\ message_queue' = Tail(message_queue)
        /\ UNCHANGED <<made, queued, in_order, sequence_counter>>
    BY DEF Bluetooth!dequeue_message, Bluetooth!callers
  <1> DEFINE q == Tail(message_queue)
  <1>2. /\ q \in Seq(Bluetooth!Messages) /\ Len(q) + 1 = Len(message_queue)
        /\ Numbered(q) /\ (in_order => Ordered(q) /\ Complete(q))
    BY <1>1, FirstDropped
  <1>3. message_queue' = q
    BY <1>1
  <1> HIDE DEF q
  <1>4. MadeInv'
    BY <1>1 DEF QueueInv, MadeInv
  <1>5. Numbered(message_queue)' /\ (in_order' => Ordered(message_queue)' /\ Complete(message_queue)')
    BY <1>1, <1>2, <1>3 DEF Numbered, Ordered, Complete
  <1>6. Len(message_queue') <= MAX_QUEUE_SIZE
    <2>1. Len(message_queue) <= MAX_QUEUE_SIZE /\ MAX_QUEUE_SIZE \in Nat /\ Len(q) \in Nat
      BY <1>2, BluetoothAssumption DEF QueueInv, Bluetooth!BLEAssumption
    <2> QED BY <1>2, <1>3, <2>1
  <1> QED BY <1>2, <1>3, <1>4, <1>5, <1>6 DEF QueueInv

\* A new message takes the next number and waits with its caller.
LEMMA CreatedInv ==
    ASSUME QueueInv, NEW type, Bluetooth!create_message(type)
    PROVE  QueueInv'
  <1>1. /\ SequenceMod \in Nat \ {0} /\ made \in Seq(Bluetooth!Messages) /\ Len(made) \in Nat
        /\ sequence_counter = Len(made) % SequenceMod
    BY BluetoothAssumption DEF Bluetooth!BLEAssumption, QueueInv, MadeInv
  <1> DEFINE msg == [nr |-> Len(made) + 1, sequence |-> sequence_counter']
  <1>2. /\ sequence_counter' = (sequence_counter + 1) % SequenceMod
        /\ made' = Append(made, msg)
        /\ UNCHANGED <<message_queue, queued, in_order>>
    BY DEF Bluetooth!create_message, Bluetooth!NextSequence
  <1>3. sequence_counter' = (Len(made) + 1) % SequenceMod
    BY <1>1, <1>2, NextNumber
  <1>4. sequence_counter' \in 0 .. SequenceMod - 1
    BY <1>1, <1>3
  <1>5. msg \in Bluetooth!Messages /\ msg.nr = Len(made) + 1 /\ msg.sequence = sequence_counter'
    BY <1>1, <1>4 DEF Bluetooth!Messages
  <1> HIDE DEF msg
  <1>6. /\ made' \in Seq(Bluetooth!Messages) /\ Len(made') = Len(made) + 1
        /\ made'[Len(made) + 1] = msg
        /\ \A n \in 1..Len(made) : made'[n] = made[n]
    BY <1>1, <1>2, <1>5
  <1>7. ASSUME NEW n \in 1..Len(made')
        PROVE  made'[n].nr = n /\ made'[n].sequence = n % SequenceMod
    <2>1. CASE n \in 1..Len(made)
      BY <1>6, <2>1 DEF QueueInv, MadeInv
    <2>2. CASE n = Len(made) + 1
      BY <1>3, <1>5, <1>6, <2>2
    <2> QED BY <1>1, <1>6, <2>1, <2>2
  <1>8. MadeInv'
    <2>1. queued' \subseteq 1..Len(made')
      BY <1>1, <1>2, <1>6 DEF QueueInv, MadeInv
    <2> QED BY <1>3, <1>6, <1>7, <2>1 DEF MadeInv
  <1> QED BY <1>2, <1>8 DEF QueueInv, Numbered, Ordered, Complete

LEMMA QueueStep == QueueInv /\ [Bluetooth!Next]_(Bluetooth!vars) => QueueInv'
  <1>1. ASSUME QueueInv, UNCHANGED <<message_queue, sequence_counter, Bluetooth!callers>>
        PROVE  QueueInv'
    BY <1>1 DEF QueueInv, MadeInv, Numbered, Ordered, Complete, Bluetooth!callers
  <1>2. ASSUME NEW d \in Devices, Bluetooth!register_device(d) \/ Bluetooth!update_mesh_node(d)
        PROVE  UNCHANGED <<message_queue, sequence_counter, Bluetooth!callers>>
    BY <1>2 DEF Bluetooth!register_device, Bluetooth!update_mesh_node
  <1> QED
    BY <1>1, <1>2, CreatedInv, EnqueueQueues, EnqueuedInv, DequeuedInv
    DEF Bluetooth!Next, Bluetooth!vars

\* A table with one entry each keeps to that when the entry of a device it has is
\* changed, and when one for a device it does not have is added.
LEMMA ChangedEntry ==
    ASSUME NEW E, NEW table \in Seq(E), OneEntryEach(table),
           NEW new, new = [i \in 1..Len(table) |-> new[i]],
           \A i \in 1..Len(table) : new[i] \in E /\ new[i].id = table[i].id
    PROVE  new \in Seq(E) /\ OneEntryEach(new)
  <1>1. new \in Seq(E) /\ Len(new) = Len(table)
    OBVIOUS
  <1> QED BY <1>1 DEF OneEntryEach

LEMMA AddedEntry ==
    ASSUME NEW E, NEW table \in Seq(E), OneEntryEach(table), NEW e \in E,
           \A i \in 1..Len(table) : table[i].id # e.id
    PROVE  Append(table, e) \in Seq(E) /\ OneEntryEach(Append(table, e))
  <1>1. /\ Append(table, e) \in Seq(E) /\ Len(Append(table, e)) = Len(table) + 1
        /\ Append(table, e)[Len(table) + 1] = e
        /\ \A i \in 1..Len(table) : Append(table, e)[i] = table[i]
    OBVIOUS
  <1> QED BY <1>1 DEF OneEntryEach

\* register_device looks for the device before it adds one.
LEMMA RegisteredInv ==
    ASSUME TablesInv, NEW d \in Devices, Bluetooth!register_device(d)
    PROVE  TablesInv'
  <1>1. PICK zero_id \in ZeroIds \cup {None}, rssi \in Bluetooth!Signal :
            known_devices' = Bluetooth!Registered(d, zero_id, rssi)
    BY DEF Bluetooth!register_device
  <1> DEFINE e == [id |-> d, zero_id |-> zero_id, rssi |-> rssi]
             at == Bluetooth!IndexOf(known_devices, d)
  <1>2. known_devices \in Seq(Device) /\ OneEntryEach(known_devices) /\ e \in Device
    BY DEF TablesInv, Device
  <1>3. CASE at = {}
    <2>1. known_devices' = Append(known_devices, e)
      BY <1>1, <1>3 DEF Bluetooth!Registered
    <2>2. \A i \in 1..Len(known_devices) : known_devices[i].id # e.id
      BY <1>3 DEF Bluetooth!IndexOf
    <2> QED BY <1>2, <2>1, <2>2, AddedEntry DEF TablesInv, Bluetooth!register_device
  <1>4. CASE at # {}
    <2> DEFINE changed(i) ==
                 IF i \in at
                 THEN [known_devices[i] EXCEPT
                          !.rssi = rssi, !.zero_id = IF zero_id = None THEN @ ELSE zero_id]
                 ELSE known_devices[i]
    <2>1. known_devices' = [i \in 1..Len(known_devices) |-> changed(i)]
      BY <1>1, <1>4 DEF Bluetooth!Registered
    <2>2. ASSUME NEW i \in 1..Len(known_devices)
          PROVE  changed(i) \in Device /\ changed(i).id = known_devices[i].id
      <3>1. known_devices[i] \in Device
        BY <1>2
      <3>2. CASE i \notin at
        BY <3>1, <3>2
      <3>3. CASE i \in at /\ zero_id = None
        <4>1. changed(i) = [known_devices[i] EXCEPT !.rssi = rssi, !.zero_id = @]
          BY <3>3
        <4> QED BY <3>1, <4>1 DEF Device
      <3>4. CASE i \in at /\ zero_id # None
        <4>1. changed(i) = [known_devices[i] EXCEPT !.rssi = rssi, !.zero_id = zero_id]
          BY <3>4
        <4> QED BY <3>1, <4>1 DEF Device
      <3> QED BY <3>2, <3>3, <3>4
    <2> HIDE DEF changed
    <2>3. /\ known_devices' = [i \in 1..Len(known_devices) |-> known_devices'[i]]
          /\ \A i \in 1..Len(known_devices) : /\ known_devices'[i] \in Device
                                              /\ known_devices'[i].id = known_devices[i].id
      BY <2>1, <2>2
    <2>4. known_devices' \in Seq(Device) /\ OneEntryEach(known_devices')
      BY <1>2, <2>3, ChangedEntry
    <2> QED BY <2>4 DEF TablesInv, Bluetooth!register_device, OneEntryEach
  <1> QED BY <1>3, <1>4

\* update_mesh_node does the same.
LEMMA UpdatedInv ==
    ASSUME TablesInv, NEW d \in Devices, Bluetooth!update_mesh_node(d)
    PROVE  TablesInv'
  <1> DEFINE at == Bluetooth!IndexOf(mesh_nodes, d)
  <1>1. PICK zero_id \in ZeroIds, hops \in {1, 2} :
            mesh_nodes' =
                IF at = {}
                THEN Append(mesh_nodes, [id |-> d, zero_id |-> zero_id, hop_count |-> hops])
                ELSE [i \in 1..Len(mesh_nodes) |->
                         IF i \in at
                         THEN [mesh_nodes[i] EXCEPT !.hop_count = hops] ELSE mesh_nodes[i]]
    BY DEF Bluetooth!update_mesh_node
  <1> DEFINE e == [id |-> d, zero_id |-> zero_id, hop_count |-> hops]
  <1>2. mesh_nodes \in Seq(MeshNode) /\ OneEntryEach(mesh_nodes) /\ e \in MeshNode
    BY DEF TablesInv, MeshNode
  <1>3. CASE at = {}
    <2>1. \A i \in 1..Len(mesh_nodes) : mesh_nodes[i].id # e.id
      BY <1>3 DEF Bluetooth!IndexOf
    <2> QED BY <1>1, <1>2, <1>3, <2>1, AddedEntry DEF TablesInv, Bluetooth!update_mesh_node
  <1>4. CASE at # {}
    <2> DEFINE changed(i) == IF i \in at THEN [mesh_nodes[i] EXCEPT !.hop_count = hops]
                             ELSE mesh_nodes[i]
    <2>1. mesh_nodes' = [i \in 1..Len(mesh_nodes) |-> changed(i)]
      BY <1>1, <1>4
    <2>2. ASSUME NEW i \in 1..Len(mesh_nodes)
          PROVE  changed(i) \in MeshNode /\ changed(i).id = mesh_nodes[i].id
      <3>1. mesh_nodes[i] \in MeshNode
        BY <1>2
      <3>2. CASE i \in at
        BY <3>1, <3>2 DEF MeshNode
      <3>3. CASE i \notin at
        BY <3>1, <3>3
      <3> QED BY <3>2, <3>3
    <2> HIDE DEF changed
    <2>3. /\ mesh_nodes' = [i \in 1..Len(mesh_nodes) |-> mesh_nodes'[i]]
          /\ \A i \in 1..Len(mesh_nodes) : /\ mesh_nodes'[i] \in MeshNode
                                           /\ mesh_nodes'[i].id = mesh_nodes[i].id
      BY <2>1, <2>2
    <2>4. mesh_nodes' \in Seq(MeshNode) /\ OneEntryEach(mesh_nodes')
      BY <1>2, <2>3, ChangedEntry
    <2> QED BY <2>4 DEF TablesInv, Bluetooth!update_mesh_node, OneEntryEach
  <1> QED BY <1>3, <1>4

LEMMA TablesStep == TablesInv /\ [Bluetooth!Next]_(Bluetooth!vars) => TablesInv'
  <1>1. ASSUME TablesInv, UNCHANGED Bluetooth!tables PROVE TablesInv'
    BY <1>1 DEF TablesInv, OneEntryEach, Bluetooth!tables
  <1>2. ASSUME NEW type, Bluetooth!create_message(type) PROVE UNCHANGED Bluetooth!tables
    BY <1>2 DEF Bluetooth!create_message
  <1>3. ASSUME NEW n, Bluetooth!EnqueueMade(n) \/ Bluetooth!EnqueueOther(n)
        PROVE  UNCHANGED Bluetooth!tables
    BY <1>3 DEF Bluetooth!EnqueueMade, Bluetooth!EnqueueOther, Bluetooth!enqueue_message
  <1>4. ASSUME Bluetooth!dequeue_message PROVE UNCHANGED Bluetooth!tables
    BY <1>4 DEF Bluetooth!dequeue_message
  <1> QED
    BY <1>1, <1>2, <1>3, <1>4, RegisteredInv, UpdatedInv DEF Bluetooth!Next, Bluetooth!vars

LEMMA AtMostOnce ==
    ASSUME NEW E, NEW table \in Seq(E), OneEntryEach(table), NEW d
    PROVE  Bluetooth!Cardinality(Bluetooth!IndexOf(table, d)) <= 1
  <1> DEFINE at == Bluetooth!IndexOf(table, d)
  <1>1. at \subseteq 1..Len(table) /\ \A i, j \in at : i = j
    BY DEF Bluetooth!IndexOf, OneEntryEach
  <1>2. Bluetooth!Cardinality(at) = Cardinality(at)
    BY DEF Bluetooth!Cardinality, Cardinality
  <1>3. CASE at = {}
    BY <1>2, <1>3, FS_EmptySet
  <1>4. ASSUME NEW i \in at PROVE Cardinality(at) = 1
    BY <1>1, <1>4, FS_Singleton, at = {i}
  <1> QED BY <1>2, <1>3, <1>4

\* A Bluetooth message waits under the number of its making, whatever callers do with
\* others, and what they queue in order stays in order, with nothing lost from between:
\* through every overflow of the queue and every wrap of the counter.  A device has one
\* entry in each table however often it is seen (ble/protocol.rs).  For every bound of
\* the queue and every modulus.
THEOREM WaitingAreUnbroken == MCSpec => []QueueIsUnbrokenAndEntriesAreUnique
  <1>1. Bluetooth!Init => QueueInv /\ TablesInv
    BY InitQueue DEF Bluetooth!Init, TablesInv, OneEntryEach
  <1>2. QueueInv /\ TablesInv => QueueIsUnbrokenAndEntriesAreUnique
    <2> SUFFICES ASSUME QueueInv, TablesInv PROVE Bluetooth!TypeOK /\ Bluetooth!QueueIsUnbroken
      BY DEF QueueIsUnbrokenAndEntriesAreUnique
    <2>1. message_queue \in Seq(Bluetooth!Messages) /\ sequence_counter \in 0 .. SequenceMod - 1
      <3>1. Len(made) \in Nat /\ SequenceMod \in Nat \ {0}
            /\ sequence_counter = Len(made) % SequenceMod
        BY BluetoothAssumption DEF Bluetooth!BLEAssumption, QueueInv, MadeInv
      <3>2. sequence_counter \in 0 .. SequenceMod - 1
        BY <3>1
      <3> QED BY <3>2 DEF QueueInv
    <2>2. /\ known_devices \in Seq(Device) /\ OneEntryEach(known_devices)
          /\ mesh_nodes \in Seq(MeshNode) /\ OneEntryEach(mesh_nodes)
      BY DEF TablesInv
    <2>3. \A d \in Devices : /\ Bluetooth!Cardinality(Bluetooth!IndexOf(known_devices, d)) <= 1
                             /\ Bluetooth!Cardinality(Bluetooth!IndexOf(mesh_nodes, d)) <= 1
      BY <2>2, AtMostOnce
    <2>4. /\ \A i \in 1..Len(message_queue) : message_queue[i] \in Bluetooth!Messages
          /\ \A i \in 1..Len(known_devices) : known_devices[i] \in Device
      BY <2>1, <2>2
    <2>5. Bluetooth!TypeOK
      BY <2>1, <2>3, <2>4, Zenon DEF Bluetooth!TypeOK, Device
    <2>6. Bluetooth!QueueIsUnbroken
      <3> SUFFICES ASSUME NEW i \in 1..Len(message_queue), message_queue[i].nr # 0
                   PROVE  LET nr == message_queue[i].nr IN
                          /\ message_queue[i].sequence = nr % SequenceMod
                          /\ in_order =>
                              /\ \A j \in 1 .. i - 1 :
                                    message_queue[j].nr # 0 => message_queue[j].nr < nr
                              /\ \A n \in queued : n > nr =>
                                    \E j \in 1..Len(message_queue) : message_queue[j].nr = n
        BY Zenon DEF Bluetooth!QueueIsUnbroken, Bluetooth!Own
      <3>1. message_queue[i].sequence = message_queue[i].nr % SequenceMod
        BY DEF QueueInv, Numbered
      <3>2. \A j \in 1 .. i - 1 : j \in 1..Len(message_queue) /\ j < i
        BY <2>1
      <3> QED BY <3>1, <3>2 DEF QueueInv, Ordered, Complete
    <2> QED BY <2>5, <2>6
  <1> QED BY <1>1, <1>2, QueueStep, TablesStep, ComponentSpecs, PTL DEF Bluetooth!Spec

-----------------------------------------------------------------------------
(* Queues of bounded length: what an entry pushed before or after room was made *)
(* leaves of a queue is its latest entries.                                     *)

LEMMA SameSequence ==
    ASSUME NEW S, NEW s \in Seq(S), NEW t \in Seq(S), Len(s) = Len(t),
           \A i \in 1..Len(s) : s[i] = t[i]
    PROVE  s = t
  OBVIOUS

\* How many of n entries are more than c.
Excess(n, c) == IF n <= c THEN 0 ELSE n - c

LEMMA ExcessAbove == \A n, c \in Nat : n >= c => Excess(n, c) = n - c
  BY DEF Excess

\* The entries of Latest(s, n): the first ones of s are not among them.
LEMMA LatestEntries ==
    ASSUME NEW S, NEW s \in Seq(S), NEW n \in Nat
    PROVE  /\ Bluetooth!Queue!Latest(s, n) \in Seq(S)
           /\ Len(Bluetooth!Queue!Latest(s, n)) = Len(s) - Excess(Len(s), n)
           /\ \A i \in 1 .. Len(s) - Excess(Len(s), n) :
                 Bluetooth!Queue!Latest(s, n)[i] = s[Excess(Len(s), n) + i]
  <1>1. CASE Len(s) <= n
    BY <1>1 DEF Bluetooth!Queue!Latest, Excess
  <1>2. CASE ~ (Len(s) <= n)
    <2> DEFINE t == SubSeq(s, Len(s) - n + 1, Len(s))
    <2>1. /\ Bluetooth!Queue!Latest(s, n) = t /\ Excess(Len(s), n) = Len(s) - n
          /\ Len(s) \in Nat
      BY <1>2 DEF Bluetooth!Queue!Latest, Excess
    <2>2. Len(s) - n + 1 \in 1 .. Len(s) + 1 /\ Len(s) - n \in Nat
      BY <1>2, <2>1
    <2>3. t \in Seq(S) /\ Len(t) = n /\ \A i \in 1..n : t[i] = s[Len(s) - n + i]
      <3>1. \A i \in (Len(s) - n + 1) .. Len(s) : s[i] \in S
        BY <2>2
      <3>2. /\ t \in Seq(S) /\ Len(t) = n
            /\ \A i \in 1 .. Len(s) - (Len(s) - n + 1) + 1 : t[i] = s[(Len(s) - n + 1) + i - 1]
        BY <2>1, <2>2, <3>1, SubSeqProperties
      <3> HIDE DEF t
      <3>3. ASSUME NEW i \in 1..n PROVE t[i] = s[Len(s) - n + i]
        <4>1. /\ i \in 1 .. Len(s) - (Len(s) - n + 1) + 1
              /\ (Len(s) - n + 1) + i - 1 = Len(s) - n + i
          BY <2>1
        <4> QED BY <3>2, <4>1
      <3> QED BY <3>2, <3>3
    <2> QED BY <2>1, <2>2, <2>3
  <1> QED BY <1>1, <1>2

LEMMA LatestIsOne ==
    ASSUME NEW s, NEW n
    PROVE  Chat!History!Latest(s, n) = Bluetooth!Queue!Latest(s, n)
  BY DEF Chat!History!Latest, Bluetooth!Queue!Latest

\* An entry pushed onto a queue of at most c entries, when there is room for it.
Pushed(q, e, c) == IF Len(q) >= c THEN Append(Tail(q), e) ELSE Append(q, e)

\* It is the last of the c latest entries.
LEMMA PushedIsLatest ==
    ASSUME NEW S, NEW q \in Seq(S), NEW e \in S, NEW c \in Nat \ {0}, Len(q) <= c
    PROVE  /\ Pushed(q, e, c) = Bluetooth!Queue!Latest(Append(q, e), c)
           /\ Pushed(q, e, c) \in Seq(S)
           /\ Len(Pushed(q, e, c)) \in 1..c
           /\ Pushed(q, e, c)[Len(Pushed(q, e, c))] = e
  <1> DEFINE all == Append(q, e)
  <1>1. /\ all \in Seq(S) /\ Len(all) = Len(q) + 1 /\ all[Len(q) + 1] = e
        /\ \A i \in 1..Len(q) : all[i] = q[i]
        /\ Len(q) \in Nat
    OBVIOUS
  <1>2. CASE Len(q) >= c
    <2> DEFINE t == Tail(q)
    <2>1. q # <<>> /\ Len(q) = c
      BY <1>1, <1>2
    <2>2. t \in Seq(S) /\ Len(t) = c - 1 /\ \A i \in 1..Len(t) : t[i] = q[1 + i]
      BY <2>1
    <2>3. Pushed(q, e, c) = Append(t, e)
      BY <1>2 DEF Pushed
    <2> HIDE DEF t, all
    <2>4. /\ Append(t, e) \in Seq(S) /\ Len(Append(t, e)) = c
          /\ Append(t, e)[c] = e
          /\ \A i \in 1 .. c - 1 : Append(t, e)[i] = q[1 + i]
      BY <2>2
    <2>5. Excess(Len(all), c) = 1
      BY <1>1, <2>1 DEF Excess
    <2>6. /\ Bluetooth!Queue!Latest(all, c) \in Seq(S)
          /\ Len(Bluetooth!Queue!Latest(all, c)) = c
          /\ \A i \in 1..c : Bluetooth!Queue!Latest(all, c)[i] = all[1 + i]
      <3>1. Len(all) - 1 = c
        BY <1>1, <2>1
      <3>2. c \in Nat
        OBVIOUS
      <3>3. all \in Seq(S)
        BY <1>1
      <3>4. /\ Bluetooth!Queue!Latest(all, c) \in Seq(S)
            /\ Len(Bluetooth!Queue!Latest(all, c)) = Len(all) - Excess(Len(all), c)
            /\ \A i \in 1 .. Len(all) - Excess(Len(all), c) :
                  Bluetooth!Queue!Latest(all, c)[i] = all[Excess(Len(all), c) + i]
        BY <3>2, <3>3, LatestEntries, Zenon
      <3> QED BY <2>5, <3>1, <3>4
    <2>7. ASSUME NEW i \in 1..c PROVE Append(t, e)[i] = Bluetooth!Queue!Latest(all, c)[i]
      BY <1>1, <2>1, <2>4, <2>6
    <2>8. Append(t, e) = Bluetooth!Queue!Latest(all, c)
      BY <2>4, <2>6, <2>7, SameSequence
    <2> QED BY <2>3, <2>4, <2>8 DEF all
  <1>3. CASE ~ (Len(q) >= c)
    <2>1. Pushed(q, e, c) = all
      BY <1>3 DEF Pushed
    <2>2. Bluetooth!Queue!Latest(all, c) = all
      BY <1>1, <1>3 DEF Bluetooth!Queue!Latest
    <2> HIDE DEF all
    <2> QED BY <1>1, <1>3, <2>1, <2>2 DEF all
  <1> QED BY <1>2, <1>3

\* The latest one of a queue is its last.
LEMMA LatestOne ==
    ASSUME NEW S, NEW p \in Seq(S), Len(p) >= 1
    PROVE  Bluetooth!Queue!Latest(p, 1) = <<p[Len(p)]>>
  <1> DEFINE one == Bluetooth!Queue!Latest(p, 1)
  <1>0. Len(p) \in Nat
    OBVIOUS
  <1>1. Excess(Len(p), 1) = Len(p) - 1
    BY <1>0, ExcessAbove, 1 \in Nat, Zenon
  <1>2. one \in Seq(S) /\ Len(one) = 1 /\ one[1] = p[Len(p)]
    <2>1. /\ one \in Seq(S) /\ Len(one) = Len(p) - Excess(Len(p), 1)
          /\ \A i \in 1 .. Len(p) - Excess(Len(p), 1) : one[i] = p[Excess(Len(p), 1) + i]
      BY LatestEntries, 1 \in Nat, Zenon
    <2> HIDE DEF one
    <2>2. Len(p) - Excess(Len(p), 1) = 1 /\ Excess(Len(p), 1) + 1 = Len(p)
      BY <1>0, <1>1
    <2>3. one[1] = p[Excess(Len(p), 1) + 1]
      BY <2>1, <2>2, 1 \in 1..1
    <2> QED BY <2>1, <2>2, <2>3
  <1> HIDE DEF one
  <1>3. one = <<p[Len(p)]>>
    BY <1>2
  <1> QED BY <1>3 DEF one

\* And the latest two are its last two.
LEMMA LatestTwo ==
    ASSUME NEW S, NEW p \in Seq(S), Len(p) >= 2
    PROVE  Bluetooth!Queue!Latest(p, 2) = <<p[Len(p) - 1], p[Len(p)]>>
  <1> DEFINE two == Bluetooth!Queue!Latest(p, 2)
             y == Excess(Len(p), 2)
  <1>1. Len(p) \in Nat /\ 2 \in Nat
    OBVIOUS
  <1>2. y = Len(p) - 2
    BY <1>1, ExcessAbove, Zenon
  <1>3. /\ two \in Seq(S) /\ Len(two) = Len(p) - y
        /\ \A i \in 1 .. Len(p) - y : two[i] = p[y + i]
    BY <1>1, LatestEntries, Zenon
  <1> HIDE DEF two, y
  <1>4. Len(p) - y = 2 /\ y + 1 = Len(p) - 1 /\ y + 2 = Len(p)
    BY <1>1, <1>2
  <1>5. Len(two) = 2 /\ two[1] = p[Len(p) - 1] /\ two[2] = p[Len(p)]
    BY <1>3, <1>4, 1 \in 1..2, 2 \in 1..2
  <1>6. two = <<p[Len(p) - 1], p[Len(p)]>>
    <2>1. /\ <<p[Len(p) - 1], p[Len(p)]>> \in Seq(S)
          /\ Len(<<p[Len(p) - 1], p[Len(p)]>>) = 2
      BY <1>1
    <2>2. \A i \in 1..Len(two) : two[i] = <<p[Len(p) - 1], p[Len(p)]>>[i]
      BY <1>5
    <2> QED BY <1>3, <1>5, <2>1, <2>2, SameSequence
  <1> QED BY <1>6 DEF two

\* One entry that comes is a Put of one.
LEMMA PutOfOne ==
    ASSUME NEW S, NEW q \in Seq(S), NEW e \in S, NEW c \in Nat \ {0}, Len(q) <= c,
           NEW p, p = Pushed(q, e, c)
    PROVE  /\ Bluetooth!Queue!Latest(p, 1) \in [1..1 -> S]
           /\ p = Bluetooth!Queue!Latest(q \o Bluetooth!Queue!Latest(p, 1), c)
  <1>1. /\ p = Bluetooth!Queue!Latest(Append(q, e), c)
        /\ p \in Seq(S) /\ Len(p) \in 1..c /\ p[Len(p)] = e
    BY PushedIsLatest
  <1>2. Bluetooth!Queue!Latest(p, 1) = <<e>>
    BY <1>1, LatestOne
  <1>3. q \o <<e>> = Append(q, e)
    OBVIOUS
  <1>4. <<e>> \in [1..1 -> S]
    OBVIOUS
  <1> QED BY <1>1, <1>2, <1>3, <1>4

\* Dropping the oldest between two entries that come makes no difference.
LEMMA LatestOfLatest ==
    ASSUME NEW S, NEW s \in Seq(S), NEW b \in S, NEW c \in Nat \ {0}
    PROVE  Bluetooth!Queue!Latest(Append(Bluetooth!Queue!Latest(s, c), b), c)
               = Bluetooth!Queue!Latest(Append(s, b), c)
  <1> DEFINE r == Bluetooth!Queue!Latest(s, c)
             rb == Append(r, b)
             sb == Append(s, b)
  <1>1. CASE Len(s) <= c
    BY <1>1 DEF Bluetooth!Queue!Latest
  <1>2. CASE ~ (Len(s) <= c)
    <2>1. c \in Nat /\ Len(s) \in Nat /\ Excess(Len(s), c) = Len(s) - c
      BY <1>2 DEF Excess
    <2>2. /\ r \in Seq(S) /\ Len(r) = Len(s) - Excess(Len(s), c)
          /\ \A i \in 1 .. Len(s) - Excess(Len(s), c) : r[i] = s[Excess(Len(s), c) + i]
      BY <2>1, LatestEntries, Zenon
    <2> HIDE DEF r
    <2>3. Len(r) = c /\ \A i \in 1..c : r[i] = s[(Len(s) - c) + i]
      BY <2>1, <2>2
    <2>4. /\ rb \in Seq(S) /\ Len(rb) = c + 1 /\ rb[c + 1] = b
          /\ \A i \in 1..c : rb[i] = r[i]
      BY <2>1, <2>2, <2>3
    <2>5. /\ sb \in Seq(S) /\ Len(sb) = Len(s) + 1 /\ sb[Len(s) + 1] = b
          /\ \A i \in 1..Len(s) : sb[i] = s[i]
      BY <2>1
    <2> HIDE DEF rb, sb
    <2>6. /\ Bluetooth!Queue!Latest(rb, c) \in Seq(S)
          /\ Len(Bluetooth!Queue!Latest(rb, c)) = Len(rb) - Excess(Len(rb), c)
          /\ \A i \in 1 .. Len(rb) - Excess(Len(rb), c) :
                Bluetooth!Queue!Latest(rb, c)[i] = rb[Excess(Len(rb), c) + i]
      <3>1. c \in Nat /\ rb \in Seq(S)
        BY <2>1, <2>4
      <3> QED BY <3>1, LatestEntries, Zenon
    <2>7. /\ Bluetooth!Queue!Latest(sb, c) \in Seq(S)
          /\ Len(Bluetooth!Queue!Latest(sb, c)) = Len(sb) - Excess(Len(sb), c)
          /\ \A i \in 1 .. Len(sb) - Excess(Len(sb), c) :
                Bluetooth!Queue!Latest(sb, c)[i] = sb[Excess(Len(sb), c) + i]
      <3>1. c \in Nat /\ sb \in Seq(S)
        BY <2>1, <2>5
      <3> QED BY <3>1, LatestEntries, Zenon
    <2>8. /\ Excess(Len(rb), c) = 1 /\ Excess(Len(sb), c) = (Len(s) - c) + 1
          /\ Len(rb) - Excess(Len(rb), c) = c /\ Len(sb) - Excess(Len(sb), c) = c
      BY <1>2, <2>1, <2>4, <2>5 DEF Excess
    <2>9. ASSUME NEW i \in 1..c
          PROVE  Bluetooth!Queue!Latest(rb, c)[i] = Bluetooth!Queue!Latest(sb, c)[i]
      <3>1. /\ Bluetooth!Queue!Latest(rb, c)[i] = rb[1 + i]
            /\ Bluetooth!Queue!Latest(sb, c)[i] = sb[((Len(s) - c) + 1) + i]
        BY <2>6, <2>7, <2>8
      <3>2. CASE i = c
        BY <2>1, <2>4, <2>5, <3>1, <3>2
      <3>3. CASE i # c
        <4>1. /\ 1 + i \in 1..c /\ ((Len(s) - c) + 1) + i \in 1..Len(s)
              /\ (Len(s) - c) + (1 + i) = ((Len(s) - c) + 1) + i
          BY <1>2, <2>1, <3>3
        <4>2. rb[1 + i] = s[(Len(s) - c) + (1 + i)]
          BY <2>3, <2>4, <4>1
        <4>3. sb[((Len(s) - c) + 1) + i] = s[((Len(s) - c) + 1) + i]
          BY <2>5, <4>1
        <4> QED BY <3>1, <4>1, <4>2, <4>3
      <3> QED BY <3>2, <3>3
    <2>10. Bluetooth!Queue!Latest(rb, c) = Bluetooth!Queue!Latest(sb, c)
      BY <2>6, <2>7, <2>8, <2>9, SameSequence
    <2> QED BY <2>10 DEF r, rb, sb
  <1> QED BY <1>1, <1>2

\* Two entries that come one after the other are a Put of two, or of one where the
\* bound is one.
LEMMA PutOfTwo ==
    ASSUME NEW S, NEW q \in Seq(S), NEW a \in S, NEW b \in S, NEW c \in Nat \ {0},
           Len(q) <= c, NEW p, p = Pushed(Pushed(q, a, c), b, c)
    PROVE  \E n \in 1..2 :
               /\ Bluetooth!Queue!Latest(p, n) \in [1..n -> S]
               /\ p = Bluetooth!Queue!Latest(q \o Bluetooth!Queue!Latest(p, n), c)
  <1> DEFINE r == Pushed(q, a, c)
             qa == Append(q, a)
             all == Append(qa, b)
  <1>1. /\ r = Bluetooth!Queue!Latest(qa, c)
        /\ r \in Seq(S) /\ Len(r) \in 1..c /\ r[Len(r)] = a
    BY PushedIsLatest
  <1>2. /\ p = Bluetooth!Queue!Latest(Append(r, b), c)
        /\ p \in Seq(S) /\ Len(p) \in 1..c /\ p[Len(p)] = b
    <2> HIDE DEF r
    <2>1. Len(r) <= c /\ p = Pushed(r, b, c)
      BY <1>1 DEF r
    <2> QED BY <1>1, <2>1, PushedIsLatest
  <1> HIDE DEF r
  <1>3. CASE c = 1
    <2> DEFINE t == Pushed(q, b, c)
    <2>1. t \in Seq(S) /\ Len(t) \in 1..c /\ t[Len(t)] = b
      BY PushedIsLatest
    <2> HIDE DEF t
    <2>2. p = t
      <3>1. Len(p) = 1 /\ Len(t) = 1
        BY <1>2, <1>3, <2>1
      <3> QED BY <1>2, <2>1, <3>1, SameSequence
    <2>3. /\ Bluetooth!Queue!Latest(p, 1) \in [1..1 -> S]
          /\ p = Bluetooth!Queue!Latest(q \o Bluetooth!Queue!Latest(p, 1), c)
      BY <2>2, PutOfOne DEF t
    <2> QED BY <2>3
  <1>4. CASE c # 1
    <2>1. /\ qa \in Seq(S) /\ Len(qa) = Len(q) + 1 /\ Len(q) \in Nat
          /\ all \in Seq(S) /\ Len(all) = Len(q) + 2
          /\ all[Len(q) + 1] = a /\ all[Len(q) + 2] = b
          /\ all = q \o <<a, b>>
      OBVIOUS
    <2>2. p = Bluetooth!Queue!Latest(all, c)
      <3> HIDE DEF qa
      <3>1. p = Bluetooth!Queue!Latest(Append(Bluetooth!Queue!Latest(qa, c), b), c)
        BY <1>1, <1>2, Zenon
      <3>2. qa \in Seq(S)
        BY <2>1
      <3> QED BY <3>1, <3>2, LatestOfLatest, Zenon
    <2> HIDE DEF qa, all
    <2> DEFINE x == Excess(Len(all), c)
    <2>3. /\ Len(p) = Len(all) - x
          /\ \A i \in 1 .. Len(all) - x : p[i] = all[x + i]
      <3>1. all \in Seq(S) /\ c \in Nat
        BY <2>1
      <3> DEFINE l == Bluetooth!Queue!Latest(all, c)
      <3>2. /\ Len(l) = Len(all) - Excess(Len(all), c)
            /\ \A i \in 1 .. Len(all) - Excess(Len(all), c) : l[i] = all[Excess(Len(all), c) + i]
        BY <3>1, LatestEntries, Zenon
      <3> HIDE DEF l
      <3>3. p = l
        BY <2>2 DEF l
      <3> QED BY <3>2, <3>3, Zenon
    <2>4. x \in Nat /\ Len(all) - x \in Nat /\ Len(all) - x >= 2
      BY <1>4, <2>1 DEF Excess
    <2>5. Len(p) >= 2 /\ Len(p) \in Nat /\ p[Len(p) - 1] = a /\ p[Len(p)] = b
      <3> HIDE DEF x
      <3>1. Len(p) \in 1 .. Len(all) - x /\ Len(p) - 1 \in 1 .. Len(all) - x
        BY <2>1, <2>3, <2>4
      <3>2. x + Len(p) = Len(q) + 2 /\ x + (Len(p) - 1) = Len(q) + 1
        BY <2>1, <2>3, <2>4
      <3> QED BY <2>1, <2>3, <2>4, <3>1, <3>2
    <2> DEFINE two == Bluetooth!Queue!Latest(p, 2)
    <2>10. two = <<a, b>>
      <3>1. Bluetooth!Queue!Latest(p, 2) = <<p[Len(p) - 1], p[Len(p)]>>
        BY <1>2, <2>5, LatestTwo
      <3> QED BY <2>5, <3>1
    <2> HIDE DEF two
    <2>11. <<a, b>> \in [1..2 -> S]
      OBVIOUS
    <2>12. two \in [1..2 -> S] /\ p = Bluetooth!Queue!Latest(q \o two, c)
      BY <2>1, <2>2, <2>10, <2>11
    <2> QED BY <2>12 DEF two
  <1> QED BY <1>3, <1>4

-----------------------------------------------------------------------------
(* The assistant's history. *)

HistoryEntry == [role : {"user", "assistant"}, turn : 0..MaxTurns]

\* The i-th entry has its question before it or its answer after it.
Fits(h, i) ==
    h[i].turn > 0 =>
        IF h[i].role = "user"
        THEN i < Len(h) /\ h[i + 1] = Chat!Entry("assistant", h[i].turn)
        ELSE i = 1 \/ h[i - 1] = Chat!Entry("user", h[i].turn)

\* The first n entries fit.
FirstFit(h, n) == \A i \in 1..n : Fits(h, i)

HistoryInv ==
    /\ conversation_history \in Seq(HistoryEntry)
    /\ Len(conversation_history) <= max_history
    /\ turns \in 0..MaxTurns
    /\ FirstFit(conversation_history, Len(conversation_history))

\* p is q moved by one or not at all, with an entry after it.
Moves(q, p) ==
    \E gone \in {0, 1} : /\ Len(p) = Len(q) - gone + 1
                         /\ \A i \in 1 .. Len(p) - 1 : p[i] = q[gone + i]

\* Where the entries of a queue are after a push.
LEMMA PushedEntries ==
    ASSUME NEW S, NEW q \in Seq(S), NEW e \in S, NEW c \in Nat \ {0}, Len(q) <= c
    PROVE  /\ Pushed(q, e, c) \in Seq(S) /\ Len(Pushed(q, e, c)) \in 1..c
           /\ Pushed(q, e, c)[Len(Pushed(q, e, c))] = e
           /\ Moves(q, Pushed(q, e, c))
  <1> DEFINE p == Pushed(q, e, c)
  <1>1. p \in Seq(S) /\ Len(p) \in 1..c /\ p[Len(p)] = e
    BY PushedIsLatest
  <1>2. CASE Len(q) >= c
    <2> DEFINE t == Tail(q)
    <2>1. q # <<>> /\ Len(q) \in Nat
      BY <1>2
    <2>2. t \in Seq(S) /\ Len(t) = Len(q) - 1 /\ \A i \in 1..Len(t) : t[i] = q[1 + i]
      BY <2>1
    <2>3. p = Append(t, e)
      BY <1>2 DEF Pushed
    <2> HIDE DEF t
    <2>4. Len(p) = Len(t) + 1 /\ \A i \in 1..Len(t) : p[i] = t[i]
      BY <2>2, <2>3
    <2>5. 1 \in {0, 1} /\ Len(p) = Len(q) - 1 + 1 /\ \A k \in 1 .. Len(p) - 1 : p[k] = q[1 + k]
      BY <2>1, <2>2, <2>4
    <2>6. Moves(q, p)
      BY <2>5, Zenon DEF Moves
    <2> QED BY <1>1, <2>6, Zenon
  <1>3. CASE ~ (Len(q) >= c)
    <2>1. p = Append(q, e)
      BY <1>3 DEF Pushed
    <2>2. Len(p) = Len(q) + 1 /\ \A i \in 1..Len(q) : p[i] = q[i]
      BY <2>1
    <2>3. 0 \in {0, 1} /\ Len(p) = Len(q) - 0 + 1 /\ \A k \in 1 .. Len(p) - 1 : p[k] = q[0 + k]
      BY <2>2
    <2>4. Moves(q, p)
      BY <2>3, Zenon DEF Moves
    <2> QED BY <1>1, <2>4, Zenon
  <1> QED BY <1>2, <1>3

\* add_to_history, which makes room after it pushed, does what a push after making
\* room does.
LEMMA AddedIsPushed ==
    ASSUME NEW S, NEW q \in Seq(S), NEW e \in S, Len(q) <= max_history
    PROVE  Chat!add_to_history(q, e) = Pushed(q, e, max_history)
  <1>1. max_history \in Nat \ {0} /\ Len(q) \in Nat
    BY ChatAssumption DEF Chat!AssistantAssumption
  <1>2. CASE Len(q) >= max_history
    <2> DEFINE t == Tail(q)
               all == Append(q, e)
    <2>1. q # <<>> /\ Len(q) + 1 > max_history
      BY <1>1, <1>2
    <2>2. t \in Seq(S) /\ Len(t) = Len(q) - 1 /\ \A i \in 1..Len(t) : t[i] = q[1 + i]
      BY <2>1
    <2>3. /\ all \in Seq(S) /\ Len(all) = Len(q) + 1 /\ all[Len(q) + 1] = e /\ all # <<>>
          /\ \A i \in 1..Len(q) : all[i] = q[i]
      OBVIOUS
    <2>4. Chat!add_to_history(q, e) = Tail(all) /\ Pushed(q, e, max_history) = Append(t, e)
      BY <1>2, <2>1 DEF Chat!add_to_history, Pushed
    <2> HIDE DEF t, all
    <2>5. /\ Tail(all) \in Seq(S) /\ Len(Tail(all)) = Len(q)
          /\ \A i \in 1..Len(q) : Tail(all)[i] = all[1 + i]
      BY <2>3
    <2>6. /\ Append(t, e) \in Seq(S) /\ Len(Append(t, e)) = Len(q)
          /\ Append(t, e)[Len(q)] = e
          /\ \A i \in 1 .. Len(q) - 1 : Append(t, e)[i] = q[1 + i]
      BY <1>1, <2>1, <2>2
    <2>7. ASSUME NEW i \in 1..Len(q) PROVE Tail(all)[i] = Append(t, e)[i]
      <3>1. CASE i = Len(q)
        <4>1. Tail(all)[i] = all[1 + i] /\ 1 + i = Len(q) + 1
          BY <1>1, <2>5, <3>1
        <4> QED BY <2>3, <2>6, <3>1, <4>1
      <3>2. CASE i # Len(q)
        <4>1. i \in 1 .. Len(q) - 1 /\ 1 + i \in 1..Len(q)
          BY <1>1, <3>2
        <4>2. Tail(all)[i] = all[1 + i] /\ all[1 + i] = q[1 + i]
          BY <2>3, <2>5, <4>1
        <4> QED BY <2>6, <4>1, <4>2
      <3> QED BY <3>1, <3>2
    <2>8. Tail(all) = Append(t, e)
      BY <2>5, <2>6, <2>7, SameSequence
    <2> QED BY <2>4, <2>8
  <1>3. CASE ~ (Len(q) >= max_history)
    BY <1>1, <1>3 DEF Chat!add_to_history, Pushed
  <1> QED BY <1>2, <1>3

\* An entry that fits still does when the queue is moved by one or not at all.
LEMMA FitsAfter ==
    ASSUME NEW q \in Seq(HistoryEntry), NEW p \in Seq(HistoryEntry), NEW gone \in {0, 1},
           Len(p) = Len(q) - gone + 1,
           \A i \in 1 .. Len(p) - 1 : p[i] = q[gone + i],
           NEW i \in 1 .. Len(p) - 1, Fits(q, gone + i)
    PROVE  Fits(p, i)
  <1>1. Len(p) \in Nat /\ Len(q) \in Nat /\ p[i] = q[gone + i]
    OBVIOUS
  <1> SUFFICES ASSUME p[i].turn > 0
               PROVE  IF p[i].role = "user"
                      THEN i < Len(p) /\ p[i + 1] = Chat!Entry("assistant", p[i].turn)
                      ELSE i = 1 \/ p[i - 1] = Chat!Entry("user", p[i].turn)
    BY DEF Fits
  <1>2. CASE p[i].role = "user"
    <2>1. gone + i < Len(q) /\ q[gone + i + 1] = Chat!Entry("assistant", p[i].turn)
      BY <1>1, <1>2 DEF Fits
    <2>2. i + 1 \in 1 .. Len(p) - 1 /\ gone + (i + 1) = gone + i + 1
      BY <1>1, <2>1
    <2>3. i < Len(p) /\ p[i + 1] = q[gone + (i + 1)]
      BY <1>1, <2>2
    <2> QED BY <1>2, <2>1, <2>2, <2>3, Zenon
  <1>3. CASE p[i].role # "user" /\ i # 1
    <2>1. gone + i # 1
      BY <1>3
    <2>2. q[gone + i - 1] = Chat!Entry("user", p[i].turn)
      BY <1>1, <1>3, <2>1 DEF Fits
    <2>3. i - 1 \in 1 .. Len(p) - 1 /\ gone + (i - 1) = gone + i - 1
      BY <1>1, <1>3
    <2> QED BY <1>1, <1>3, <2>2, <2>3
  <1>4. CASE p[i].role # "user" /\ i = 1
    BY <1>4, Zenon
  <1> QED BY <1>2, <1>3, <1>4

LEMMA FitsMoved ==
    ASSUME NEW q \in Seq(HistoryEntry), NEW p \in Seq(HistoryEntry), Moves(q, p)
    PROVE  \E gone \in {0, 1} :
               /\ Len(p) = Len(q) - gone + 1
               /\ \A i \in 1 .. Len(p) - 1 : p[i] = q[gone + i]
               /\ \A i \in 1 .. Len(p) - 1 : Fits(q, gone + i) => Fits(p, i)
  <1>1. PICK gone \in {0, 1} : /\ Len(p) = Len(q) - gone + 1
                               /\ \A i \in 1 .. Len(p) - 1 : p[i] = q[gone + i]
    BY Zenon DEF Moves
  <1>2. ASSUME NEW i \in 1 .. Len(p) - 1, Fits(q, gone + i) PROVE Fits(p, i)
    BY <1>1, <1>2, FitsAfter, Zenon
  <1> QED BY <1>1, <1>2, Zenon

LEMMA FitsStay ==
    ASSUME NEW q \in Seq(HistoryEntry), NEW p \in Seq(HistoryEntry), Moves(q, p),
           FirstFit(q, Len(q))
    PROVE  FirstFit(p, Len(p) - 1)
  <1>1. PICK gone \in {0, 1} :
            /\ Len(p) = Len(q) - gone + 1
            /\ \A i \in 1 .. Len(p) - 1 : Fits(q, gone + i) => Fits(p, i)
    BY FitsMoved, Zenon
  <1>2. Len(p) \in Nat /\ Len(q) \in Nat
    OBVIOUS
  <1>3. ASSUME NEW i \in 1 .. Len(p) - 1 PROVE Fits(p, i)
    <2>1. gone + i \in 1..Len(q)
      BY <1>1, <1>2
    <2> QED BY <1>1, <2>1, Zenon DEF FirstFit
  <1> QED BY <1>3, Zenon DEF FirstFit

\* A question that was pushed last fits once its answer is pushed after it.
LEMMA FitsWithAnswer ==
    ASSUME NEW asked \in Seq(HistoryEntry), Len(asked) >= 1, FirstFit(asked, Len(asked) - 1),
           NEW n, asked[Len(asked)] = Chat!Entry("user", n),
           NEW p \in Seq(HistoryEntry), Len(p) >= 1, p[Len(p)] = Chat!Entry("assistant", n),
           Moves(asked, p)
    PROVE  FirstFit(p, Len(p))
  <1> DEFINE u == Chat!Entry("user", n)
             a == Chat!Entry("assistant", n)
  <1>1. PICK gone \in {0, 1} :
            /\ Len(p) = Len(asked) - gone + 1
            /\ \A i \in 1 .. Len(p) - 1 : p[i] = asked[gone + i]
            /\ \A i \in 1 .. Len(p) - 1 : Fits(asked, gone + i) => Fits(p, i)
    BY FitsMoved, Zenon
  <1>2. /\ Len(p) \in Nat /\ Len(asked) \in Nat /\ gone \in Int
        /\ Len(p) = Len(asked) - gone + 1
    BY <1>1
  <1>3. u.role = "user" /\ u.turn = n /\ a.role = "assistant" /\ a.turn = n
    BY DEF Chat!Entry
  <1> HIDE DEF u, a
  <1>4. ASSUME NEW i \in 1..Len(p) PROVE Fits(p, i)
    <2>1. i \in Int /\ 1 <= i /\ i <= Len(p)
      BY <1>2
    <2>2. CASE i = Len(p)
      <3>1. p[i] = a
        BY <2>2 DEF a
      <3>2. CASE i = 1
        BY <1>3, <3>1, <3>2 DEF Fits
      <3>3. CASE i # 1
        <4>1. i - 1 \in 1 .. Len(p) - 1 /\ gone + (i - 1) = Len(asked)
          BY <1>2, <2>1, <2>2, <3>3
        <4>2. p[i - 1] = asked[gone + (i - 1)]
          BY <1>1, <4>1
        <4>3. p[i - 1] = u
          BY <4>1, <4>2 DEF u
        <4>4. p[i - 1] = Chat!Entry("user", p[i].turn)
          BY <1>3, <3>1, <4>3 DEF u
        <4> QED BY <1>3, <3>1, <4>4 DEF Fits
      <3> QED BY <3>2, <3>3
    <2>3. CASE i = Len(p) - 1
      <3>1. gone + i = Len(asked) /\ i \in 1 .. Len(p) - 1
        BY <1>2, <2>1, <2>3
      <3>2. p[i] = asked[gone + i]
        BY <1>1, <3>1
      <3>3. p[i] = u
        BY <3>1, <3>2 DEF u
      <3>4. i < Len(p) /\ i + 1 = Len(p)
        BY <1>2, <2>3
      <3>5. p[i + 1] = Chat!Entry("assistant", p[i].turn)
        BY <1>3, <3>3, <3>4 DEF a
      <3> QED BY <1>3, <3>3, <3>4, <3>5 DEF Fits
    <2>4. CASE i < Len(p) - 1
      <3>1. i \in 1 .. Len(p) - 1 /\ gone + i \in 1 .. Len(asked) - 1
        BY <1>2, <2>1, <2>4
      <3> QED BY <1>1, <3>1, Zenon DEF FirstFit
    <2> QED BY <1>2, <2>1, <2>2, <2>3, <2>4
  <1> QED BY <1>4, Zenon DEF FirstFit

\* A chat's question and answer are pushed one after the other; every entry fits then.
LEMMA FitsAfterChat ==
    ASSUME NEW q \in Seq(HistoryEntry), Len(q) <= max_history, FirstFit(q, Len(q)),
           NEW n \in 0..MaxTurns,
           NEW u, u = Chat!Entry("user", n), NEW a, a = Chat!Entry("assistant", n)
    PROVE  LET p == Pushed(Pushed(q, u, max_history), a, max_history)
           IN  p \in Seq(HistoryEntry) /\ Len(p) <= max_history /\ FirstFit(p, Len(p))
  <1> DEFINE asked == Pushed(q, u, max_history)
             p == Pushed(asked, a, max_history)
  <1>1. max_history \in Nat \ {0} /\ u \in HistoryEntry /\ a \in HistoryEntry
    BY ChatAssumption DEF Chat!AssistantAssumption, HistoryEntry, Chat!Entry
  <1>2. /\ asked \in Seq(HistoryEntry) /\ Len(asked) \in 1..max_history
        /\ asked[Len(asked)] = u /\ Moves(q, asked)
    BY <1>1, PushedEntries
  <1> HIDE DEF asked
  <1>3. Len(asked) <= max_history /\ Len(asked) >= 1 /\ Len(asked) \in Nat
    BY <1>1, <1>2
  <1>4. FirstFit(asked, Len(asked) - 1)
    BY <1>2, FitsStay, Zenon
  <1>5. /\ p \in Seq(HistoryEntry) /\ Len(p) \in 1..max_history
        /\ p[Len(p)] = a /\ Moves(asked, p)
    BY <1>1, <1>2, <1>3, PushedEntries
  <1> HIDE DEF p
  <1>6. Len(p) <= max_history /\ Len(p) >= 1
    BY <1>1, <1>5
  <1>7. FirstFit(p, Len(p))
    <2>1. /\ asked[Len(asked)] = Chat!Entry("user", n)
          /\ p[Len(p)] = Chat!Entry("assistant", n)
      BY <1>2, <1>5
    <2> QED BY <1>2, <1>3, <1>4, <1>5, <1>6, <2>1, FitsWithAnswer, Zenon
  <1> QED BY <1>5, <1>6, <1>7, Zenon DEF p, asked

\* So it is when an entry comes that is of no chat.
LEMMA FitsAfterEntry ==
    ASSUME NEW q \in Seq(HistoryEntry), Len(q) <= max_history, FirstFit(q, Len(q)),
           NEW e \in HistoryEntry, e.turn = 0
    PROVE  LET p == Pushed(q, e, max_history)
           IN  p \in Seq(HistoryEntry) /\ Len(p) <= max_history /\ FirstFit(p, Len(p))
  <1> DEFINE p == Pushed(q, e, max_history)
  <1>1. max_history \in Nat \ {0}
    BY ChatAssumption DEF Chat!AssistantAssumption
  <1>2. /\ p \in Seq(HistoryEntry) /\ Len(p) \in 1..max_history
        /\ p[Len(p)] = e /\ Moves(q, p)
    BY <1>1, PushedEntries
  <1> HIDE DEF p
  <1>3. Len(p) \in Nat /\ Len(p) <= max_history
    BY <1>1, <1>2
  <1>4. FirstFit(p, Len(p) - 1)
    BY <1>2, FitsStay, Zenon
  <1>5. Fits(p, Len(p))
    BY <1>2 DEF Fits
  <1>6. FirstFit(p, Len(p))
    <2>1. \A i \in 1..Len(p) : i \in 1 .. Len(p) - 1 \/ i = Len(p)
      BY <1>3
    <2> QED BY <1>4, <1>5, <2>1, Zenon DEF FirstFit
  <1> QED BY <1>2, <1>3, <1>6 DEF p

LEMMA HistoryStep ==
    ASSUME HistoryInv, [Chat!Next]_chat_vars
    PROVE  HistoryInv'
  <1> USE DEF HistoryInv
  <1>1. max_history \in Nat \ {0} /\ MaxTurns \in Nat
    BY ChatAssumption DEF Chat!AssistantAssumption
  <1>2. ASSUME NEW words, Chat!chat(words) PROVE HistoryInv'
    <2> DEFINE u == Chat!Entry("user", turns')
               a == Chat!Entry("assistant", turns')
               asked == Pushed(conversation_history, u, max_history)
    <2>1. turns' \in 0..MaxTurns
      BY <1>1, <1>2 DEF Chat!chat
    <2>2. u \in HistoryEntry /\ a \in HistoryEntry
      BY <2>1 DEF Chat!Entry, HistoryEntry
    <2>3. asked \in Seq(HistoryEntry) /\ Len(asked) <= max_history
      <3> HIDE DEF HistoryEntry, u
      <3> QED BY <1>1, <2>2, PushedEntries
    <2>4. conversation_history'
             = Chat!add_to_history(Chat!add_to_history(conversation_history, u), a)
      BY <1>2 DEF Chat!chat
    <2>5. conversation_history' = Pushed(asked, a, max_history)
      <3> HIDE DEF HistoryEntry, u, a
      <3>1. Chat!add_to_history(conversation_history, u) = asked
        BY <2>2, AddedIsPushed
      <3>2. Chat!add_to_history(asked, a) = Pushed(asked, a, max_history)
        <4> HIDE DEF asked
        <4> QED BY <2>2, <2>3, AddedIsPushed
      <3> QED BY <2>4, <3>1, <3>2
    <2>6. /\ conversation_history' \in Seq(HistoryEntry)
          /\ Len(conversation_history') <= max_history
          /\ FirstFit(conversation_history', Len(conversation_history'))
      BY <2>1, <2>5, FitsAfterChat, Zenon
    <2> QED BY <2>1, <2>6 DEF FirstFit, Fits
  <1>3. ASSUME NEW role \in {"user", "assistant"}, Chat!AddToHistory(role)
        PROVE  HistoryInv'
    <2> DEFINE e == Chat!Entry(role, 0)
    <2>1. e \in HistoryEntry /\ e.turn = 0
      BY <1>1 DEF Chat!Entry, HistoryEntry
    <2>2. /\ conversation_history' = Chat!add_to_history(conversation_history, e)
          /\ turns' = turns
      BY <1>3 DEF Chat!AddToHistory
    <2> HIDE DEF HistoryEntry, e
    <2>3. conversation_history' = Pushed(conversation_history, e, max_history)
      BY <2>1, <2>2, AddedIsPushed
    <2>4. /\ conversation_history' \in Seq(HistoryEntry)
          /\ Len(conversation_history') <= max_history
          /\ FirstFit(conversation_history', Len(conversation_history'))
      BY <2>1, <2>3, FitsAfterEntry, Zenon
    <2> QED BY <2>2, <2>4 DEF FirstFit, Fits
  <1>4. CASE Chat!clear_history
    BY <1>1, <1>4 DEF Chat!clear_history, FirstFit, Fits
  <1>5. ASSUME NEW t, Chat!add_knowledge(t) PROVE HistoryInv'
    BY <1>5 DEF Chat!add_knowledge, FirstFit, Fits
  <1>6. CASE UNCHANGED chat_vars
    BY <1>6 DEF chat_vars, FirstFit, Fits
  <1> QED BY <1>2, <1>3, <1>4, <1>5, <1>6 DEF Chat!Next

\* The rule that a query about a known topic falls to is never the last one.
LEMMA TopicIsKnown ==
    ASSUME NEW q, NEW context, Chat!build_context(q) = context,
           q \cap {"what is zero", "encrypt", "wallet", "btc", "network",
                   "identity", "privacy"} # {}
    PROVE  Chat!generate_response(q, context) # "help"
  <1>1. CASE "hi" \in q
    BY <1>1 DEF Chat!generate_response
  <1>2. CASE "hi" \notin q /\ "what is zero" \in q
    BY <1>2 DEF Chat!generate_response
  <1>3. CASE q \cap {"hi", "what is zero"} = {} /\ "encrypt" \in q
    BY <1>3 DEF Chat!generate_response
  <1>4. CASE q \cap {"hi", "what is zero", "encrypt"} = {} /\ "wallet" \in q
    BY <1>4 DEF Chat!generate_response
  <1>5. CASE q \cap {"hi", "what is zero", "encrypt", "wallet"} = {}
    <2>1. q \cap {"btc", "network", "identity", "privacy"} # {}
      BY <1>5
    <2>2. Chat!build_context(q) # {}
      BY <2>1 DEF Chat!build_context
    <2> QED BY <1>5, <2>2 DEF Chat!generate_response
  <1> QED BY <1>1, <1>2, <1>3, <1>4, <1>5

\* Dropping old entries never parts a question from its answer, and a question about
\* one of the seven built-in topics is not answered with the general help text.
THEOREM AnswersStayWithQuestions == MCSpec => []QuestionsAreAnswered
  <1>1. ASSUME Chat!Init PROVE HistoryInv /\ Chat!KnownTopicIsAnswered
    BY <1>1, ChatAssumption
       DEF Chat!Init, HistoryInv, FirstFit, Chat!KnownTopicIsAnswered, Chat!AssistantAssumption
  <1>2. ASSUME Chat!KnownTopicIsAnswered, [Chat!Next]_chat_vars
        PROVE  Chat!KnownTopicIsAnswered'
    <2>1. ASSUME NEW words, Chat!chat(words) PROVE Chat!KnownTopicIsAnswered'
      <3> DEFINE q == Chat!Occurring(words)
      <3>1. last' = [query |-> q,
                     response |-> Chat!generate_response(q, Chat!build_context(q))]
        BY <2>1 DEF Chat!chat
      <3> HIDE DEF q
      <3>2. /\ last'.query = q
            /\ last'.response = Chat!generate_response(q, Chat!build_context(q))
        BY <3>1
      <3> QED BY <3>2, TopicIsKnown DEF Chat!KnownTopicIsAnswered
    <2>2. CASE UNCHANGED last
      BY <1>2, <2>2 DEF Chat!KnownTopicIsAnswered
    <2> QED BY <1>2, <2>1, <2>2
          DEF Chat!Next, Chat!AddToHistory, Chat!clear_history, Chat!add_knowledge, chat_vars
  <1>3. HistoryInv => Chat!AnswersFollowQuestions
    BY DEF HistoryInv, FirstFit, Fits, Chat!AnswersFollowQuestions
  <1>4. Chat!Spec => []HistoryInv /\ []Chat!KnownTopicIsAnswered
    <2>1. [Chat!Next]_(Chat!vars) => [Chat!Next]_chat_vars
      BY DEF Chat!vars, chat_vars
    <2> QED BY <1>1, <1>2, <2>1, HistoryStep, PTL DEF Chat!Spec
  <1> QED BY <1>3, <1>4, ComponentSpecs, PTL DEF QuestionsAreAnswered

-----------------------------------------------------------------------------
(* Both queues are bounded queues that drop their oldest. *)

\* A message that is enqueued is put, one that is dequeued is taken.
LEMMA BluetoothStep ==
    ASSUME QueueInv, [Bluetooth!Next]_(Bluetooth!vars)
    PROVE  [Bluetooth!Queue!Next]_message_queue
  <1>1. MAX_QUEUE_SIZE \in Nat \ {0} /\ SequenceMod \in Nat \ {0}
    BY BluetoothAssumption DEF Bluetooth!BLEAssumption
  <1>2. ASSUME NEW msg, Queues(msg)
        PROVE  Bluetooth!Queue!Put
    <2>1. message_queue' = Pushed(message_queue, msg, MAX_QUEUE_SIZE) /\ msg \in Bluetooth!Messages
      <3>1. message_queue' = Bluetooth!Enqueued(message_queue, msg) /\ msg \in Bluetooth!Messages
        BY <1>2 DEF Queues
      <3> QED BY <3>1 DEF Bluetooth!Enqueued, Pushed
    <2>2. message_queue \in Seq(Bluetooth!Messages) /\ Len(message_queue) <= MAX_QUEUE_SIZE
      BY DEF QueueInv
    <2> DEFINE items == Bluetooth!Queue!Latest(message_queue', 1)
    <2>3. /\ items \in [1..1 -> Bluetooth!Messages]
          /\ message_queue' = Bluetooth!Queue!Latest(message_queue \o items, MAX_QUEUE_SIZE)
      BY <1>1, <2>1, <2>2, PutOfOne
    <2> QED BY <2>3, 1 \in 1..1 DEF Bluetooth!Queue!Put
  <1>3. CASE Bluetooth!dequeue_message
    BY <1>3 DEF Bluetooth!dequeue_message, Bluetooth!Queue!Take, Bluetooth!Queue!Next
  <1>4. ASSUME NEW d, \/ Bluetooth!register_device(d) \/ Bluetooth!update_mesh_node(d)
                      \/ Bluetooth!create_message(d)
        PROVE  UNCHANGED message_queue
    BY <1>4 DEF Bluetooth!register_device, Bluetooth!update_mesh_node, Bluetooth!create_message
  <1>5. CASE UNCHANGED Bluetooth!vars
    BY <1>5 DEF Bluetooth!vars
  <1> QED BY <1>2, <1>3, <1>4, <1>5, EnqueueQueues DEF Bluetooth!Next, Bluetooth!Queue!Next

\* A chat puts a question and an answer, and an entry of no chat is put alone.
LEMMA AssistantStep ==
    ASSUME HistoryInv, [Chat!Next]_(Chat!vars)
    PROVE  [Chat!History!Next]_conversation_history
  <1>1. /\ max_history \in Nat \ {0} /\ MaxTurns \in Nat
        /\ conversation_history \in Seq(HistoryEntry)
        /\ Len(conversation_history) <= max_history
        /\ turns \in 0..MaxTurns
    BY ChatAssumption DEF Chat!AssistantAssumption, HistoryInv
  <1>2. ASSUME NEW n \in 1..2,
               Bluetooth!Queue!Latest(conversation_history', n) \in [1..n -> HistoryEntry],
               conversation_history'
                   = Bluetooth!Queue!Latest(
                         conversation_history \o Bluetooth!Queue!Latest(conversation_history', n),
                         max_history)
        PROVE  Chat!History!Put
    BY <1>2, LatestIsOne DEF Chat!History!Put, HistoryEntry
  <1>3. ASSUME NEW words, Chat!chat(words) PROVE Chat!History!Put
    <2> DEFINE u == Chat!Entry("user", turns')
               a == Chat!Entry("assistant", turns')
               asked == Pushed(conversation_history, u, max_history)
               p == conversation_history'
    <2>1. u \in HistoryEntry /\ a \in HistoryEntry
      BY <1>1, <1>3 DEF Chat!chat, Chat!Entry, HistoryEntry
    <2>2. p = Chat!add_to_history(Chat!add_to_history(conversation_history, u), a)
      BY <1>3 DEF Chat!chat
    <2> HIDE DEF HistoryEntry, u, a
    <2>3. asked \in Seq(HistoryEntry) /\ Len(asked) <= max_history
      BY <1>1, <2>1, PushedEntries
    <2>4. Chat!add_to_history(conversation_history, u) = asked
      BY <1>1, <2>1, AddedIsPushed
    <2>5. Chat!add_to_history(asked, a) = Pushed(asked, a, max_history)
      <3> HIDE DEF asked
      <3> QED BY <2>1, <2>3, AddedIsPushed
    <2>6. p = Pushed(Pushed(conversation_history, u, max_history), a, max_history)
      BY <2>2, <2>4, <2>5
    <2>7. \E n \in 1..2 :
              /\ Bluetooth!Queue!Latest(p, n) \in [1..n -> HistoryEntry]
              /\ p = Bluetooth!Queue!Latest(
                         conversation_history \o Bluetooth!Queue!Latest(p, n), max_history)
      BY <1>1, <2>1, <2>6, PutOfTwo
    <2> QED BY <1>2, <2>7
  <1>4. ASSUME NEW role \in {"user", "assistant"}, Chat!AddToHistory(role)
        PROVE  Chat!History!Put
    <2> DEFINE e == Chat!Entry(role, 0)
               p == conversation_history'
    <2>1. e \in HistoryEntry
      BY <1>1 DEF Chat!Entry, HistoryEntry
    <2>2. p = Chat!add_to_history(conversation_history, e)
      BY <1>4 DEF Chat!AddToHistory
    <2> HIDE DEF HistoryEntry, e
    <2>3. p = Pushed(conversation_history, e, max_history)
      BY <1>1, <2>1, <2>2, AddedIsPushed
    <2>4. /\ Bluetooth!Queue!Latest(p, 1) \in [1..1 -> HistoryEntry]
          /\ p = Bluetooth!Queue!Latest(
                     conversation_history \o Bluetooth!Queue!Latest(p, 1), max_history)
      BY <1>1, <2>1, <2>3, PutOfOne
    <2> QED BY <1>2, <2>4, 1 \in 1..2
  <1>5. CASE Chat!clear_history
    BY <1>5 DEF Chat!clear_history, Chat!History!Clear, Chat!History!Next
  <1>6. ASSUME NEW t, Chat!add_knowledge(t) PROVE UNCHANGED conversation_history
    BY <1>6 DEF Chat!add_knowledge
  <1>7. CASE UNCHANGED Chat!vars
    BY <1>7 DEF Chat!vars
  <1> QED BY <1>3, <1>4, <1>5, <1>6, <1>7 DEF Chat!Next, Chat!History!Next

\* The message queue, which makes room before it pushes, and the history, which does so
\* after, drop their oldest entries and nothing else.
THEOREM QueuesDropTheOldest == MCSpec => BothAreBoundedQueues
  <1>1. Bluetooth!Init => QueueInv /\ Bluetooth!Queue!Init
    BY InitQueue DEF Bluetooth!Init, Bluetooth!Queue!Init
  <1>2. Bluetooth!Spec => Bluetooth!IsBoundedQueue
    BY <1>1, QueueStep, BluetoothStep, PTL
       DEF Bluetooth!Spec, Bluetooth!IsBoundedQueue, Bluetooth!Queue!Spec
  <1>3. Chat!Init => HistoryInv /\ Chat!History!Init
    BY ChatAssumption
       DEF Chat!Init, HistoryInv, FirstFit, Chat!AssistantAssumption, Chat!History!Init
  <1>4. [Chat!Next]_(Chat!vars) => [Chat!Next]_chat_vars
    BY DEF Chat!vars, chat_vars
  <1>5. Chat!Spec => Chat!IsBoundedQueue
    BY <1>3, <1>4, HistoryStep, AssistantStep, PTL
       DEF Chat!Spec, Chat!IsBoundedQueue, Chat!History!Spec
  <1> QED BY <1>2, <1>5, ComponentSpecs, PTL DEF BothAreBoundedQueues

-----------------------------------------------------------------------------
(* Frames. *)

\* A frame is as it was serialized, and what came of it is what deserializing gives.
FrameInv ==
    /\ frame \in Frame!Frames
    /\ \/ arrived = -1 /\ outcome = Frame!NoMessage
       \/ arrived \in Nat /\ outcome = Frame!deserialize(frame, arrived)

\* The headers are at least as long as what is checked for.
LEMMA HeaderLengths ==
    ASSUME NEW f \in Frame!Formats
    PROVE  /\ Frame!HeaderLength(f) \in Nat /\ Frame!CheckedLength(f) \in Nat
           /\ Frame!CheckedLength(f) <= Frame!HeaderLength(f)
  <1>1. CASE f = "bluetooth"
    BY <1>1 DEF Frame!HeaderLength, Frame!CheckedLength
  <1>2. CASE f = "ratchet"
    BY <1>2 DEF Frame!HeaderLength, Frame!CheckedLength
  <1>3. CASE f = "chunk"
    BY <1>3 DEF Frame!HeaderLength, Frame!CheckedLength
  <1>4. CASE f = "gossip"
    BY <1>4 DEF Frame!HeaderLength, Frame!CheckedLength
  <1> QED BY <1>1, <1>2, <1>3, <1>4 DEF Frame!Formats

\* The length field holds the length of the payload, but for the 16 bits of Bluetooth.
LEMMA FrameFields ==
    ASSUME NEW fr \in Frame!Frames
    PROVE  /\ fr.format \in Frame!Formats /\ fr.payload \in Nat /\ fr.declared \in Nat
           /\ fr.format # "bluetooth" \/ fr.payload < 65536 => fr.declared = fr.payload
  <1>1. PICK f \in Frame!Formats, id \in IdLengths, p \in PayloadLengths, known \in BOOLEAN :
            fr = Frame!serialize(f, id, p, known)
    BY DEF Frame!Frames
  <1>2. p \in Nat
    BY FrameAssumption, SMT DEF Frame!FramesAssumption
  <1>3. /\ Frame!LengthField(f, p) \in Nat
        /\ f # "bluetooth" \/ p < 65536 => Frame!LengthField(f, p) = p
    <2>1. CASE f # "bluetooth"
      BY <1>2, <2>1, SMT DEF Frame!LengthField
    <2>2. CASE f = "bluetooth"
      <3>1. p % 65536 \in Nat /\ (p < 65536 => p % 65536 = p)
        BY <1>2, SMT
      <3> QED BY <2>2, <3>1, SMT DEF Frame!LengthField
    <2> QED BY <2>1, <2>2, SMT
  <1>4. fr.format = f /\ fr.payload = p /\ fr.declared = Frame!LengthField(f, p)
    BY <1>1 DEF Frame!serialize
  <1> QED BY <1>2, <1>3, <1>4, SMT

\* What deserializing a frame gives: a message has the declared payload, and that much
\* has arrived; a gossip payload is all that has.
LEMMA Deserialized ==
    ASSUME NEW fr \in Frame!Frames, NEW n \in Nat,
           NEW d, d = Frame!deserialize(fr, n)
    PROVE  /\ d.result = "Some" =>
                \/ fr.format = "gossip" /\ d.payload + Frame!HeaderLength(fr.format) = n
                \/ /\ d.payload = fr.declared
                   /\ d.payload + Frame!HeaderLength(fr.format) <= n
           /\ /\ fr.known /\ fr.format # "gossip"
              /\ n >= Frame!HeaderLength(fr.format) + fr.declared
              => d = Frame!Some(fr.id, fr.declared)
  <1> DEFINE f == fr.format
             header == Frame!HeaderLength(f)
             checked == Frame!CheckedLength(f)
  <1>1. /\ f \in Frame!Formats /\ fr.declared \in Nat
        /\ header \in Nat /\ checked \in Nat /\ checked <= header
    BY FrameFields, HeaderLengths, SMT
  <1>2. /\ Frame!NoMessage.result = "None" /\ Frame!Panic.result = "panic"
        /\ \A i, p : Frame!Some(i, p).payload = p
    BY DEF Frame!NoMessage, Frame!Panic, Frame!Some, Frame!Result
  <1> HIDE DEF header, checked
  <1>3. CASE n < checked \/ ~ fr.known
    <2>1. d = Frame!NoMessage
      BY <1>1, <1>3 DEF Frame!deserialize, header, checked
    <2> QED BY <1>1, <1>2, <1>3, <2>1 DEF header
  <1>4. CASE n >= checked /\ fr.known /\ n < header
    <2>1. d = Frame!Panic
      BY <1>1, <1>4 DEF Frame!deserialize, header, checked
    <2> QED BY <1>1, <1>2, <1>4, <2>1 DEF header
  <1>5. CASE n >= header /\ fr.known /\ f = "gossip"
    <2>1. d = Frame!Some(0, n - header)
      BY <1>1, <1>5 DEF Frame!deserialize, header, checked
    <2>2. d.payload + header = n
      BY <1>1, <1>2, <2>1
    <2> QED BY <1>5, <2>2 DEF header
  <1>6. CASE n >= header /\ fr.known /\ f # "gossip" /\ n < header + fr.declared
    <2>1. d = Frame!NoMessage \/ d = Frame!Panic
      BY <1>1, <1>6 DEF Frame!deserialize, header, checked
    <2> QED BY <1>1, <1>2, <1>6, <2>1 DEF header
  <1>7. CASE n >= header /\ fr.known /\ f # "gossip" /\ ~ (n < header + fr.declared)
    <2>1. d = Frame!Some(fr.id, fr.declared)
      BY <1>1, <1>7 DEF Frame!deserialize, header, checked
    <2>2. d.payload = fr.declared /\ d.payload + header <= n
      BY <1>1, <1>2, <1>7, <2>1
    <2> QED BY <2>1, <2>2 DEF header
  <1> QED BY <1>1, <1>3, <1>4, <1>5, <1>6, <1>7

\* A frame that arrives whole is taken as it was sent, and one that was cut is not
\* taken for a shorter message.
THEOREM FramesAreTakenWhole == MCSpec => []FramesAreNotMistaken
  <1>1. Frame!Init => FrameInv
    BY DEF Frame!Init, FrameInv
  <1>2. FrameInv /\ [Frame!Carry]_(Frame!vars) => FrameInv'
    <2> SUFFICES ASSUME FrameInv, [Frame!Carry]_(Frame!vars) PROVE FrameInv'
      OBVIOUS
    <2>1. CASE Frame!Carry
      <3>1. PICK n \in Frame!Ends(frame) :
                /\ arrived' = IF n > Slack THEN n - Slack ELSE 0
                /\ outcome' = Frame!deserialize(frame, arrived')
                /\ frame' = frame
        BY <2>1 DEF Frame!Carry
      <3>2. arrived' \in Nat
        <4>1. n \in Int /\ Slack \in Nat
          <5>1. /\ frame.format \in Frame!Formats /\ frame.payload \in Nat
                /\ Frame!HeaderLength(frame.format) \in Nat
            BY FrameFields, HeaderLengths, SMT DEF FrameInv
          <5>2. Frame!Length(frame) \in Nat
            BY <5>1 DEF Frame!Length
          <5>3. Slack \in Nat
            BY FrameAssumption DEF Frame!FramesAssumption
          <5> DEFINE bounds == {Frame!HeaderLength(frame.format), Frame!Length(frame)}
                     least == Frame!Lesser(Frame!HeaderLength(frame.format), Frame!Length(frame))
          <5>4. n \in UNION {b .. b + 2 * Slack : b \in bounds} \/ n \in 0 .. least
            BY Zenon DEF Frame!Ends
          <5>5. ASSUME NEW b \in bounds, n \in b .. b + 2 * Slack PROVE n \in Int
            BY <5>1, <5>2, <5>3, <5>5
          <5>6. least \in Nat
            BY <5>1, <5>2 DEF Frame!Lesser
          <5> HIDE DEF bounds, least
          <5> QED BY <5>3, <5>4, <5>5, <5>6
        <4> QED BY <3>1, <4>1
      <3> QED BY <3>1, <3>2 DEF FrameInv
    <2>2. CASE UNCHANGED Frame!vars
      BY <2>2 DEF Frame!vars, FrameInv
    <2> QED BY <2>1, <2>2
  <1>3. FrameInv => Frame!TypeOK /\ Frame!WholeIsTaken /\ Frame!CutIsNotTaken
    <2> SUFFICES ASSUME FrameInv
                 PROVE  Frame!TypeOK /\ Frame!WholeIsTaken /\ Frame!CutIsNotTaken
      OBVIOUS
    <2>1. /\ frame \in Frame!Frames /\ frame.format \in Frame!Formats
          /\ frame.payload \in Nat /\ frame.declared \in Nat
          /\ frame.format # "bluetooth" \/ frame.payload < 65536 =>
                 frame.declared = frame.payload
          /\ Frame!HeaderLength(frame.format) \in Nat
      BY FrameFields, HeaderLengths, SMT DEF FrameInv
    <2>2. CASE arrived = -1 /\ outcome = Frame!NoMessage
      <3>1. ~ Frame!Taken
        BY <2>2 DEF Frame!Taken, Frame!NoMessage, Frame!Result
      <3>2. ~ (arrived >= Frame!Length(frame))
        BY <2>1, <2>2 DEF Frame!Length
      <3> QED BY <2>1, <2>2, <3>1, <3>2, SMT
            DEF Frame!TypeOK, Frame!WholeIsTaken, Frame!CutIsNotTaken
    <2>3. CASE arrived \in Nat /\ outcome = Frame!deserialize(frame, arrived)
      <3>1. /\ outcome.result = "Some" =>
                 \/ /\ frame.format = "gossip"
                    /\ outcome.payload + Frame!HeaderLength(frame.format) = arrived
                 \/ /\ outcome.payload = frame.declared
                    /\ outcome.payload + Frame!HeaderLength(frame.format) <= arrived
            /\ /\ frame.known /\ frame.format # "gossip"
               /\ arrived >= Frame!HeaderLength(frame.format) + frame.declared
               => outcome = Frame!Some(frame.id, frame.declared)
        BY <2>1, <2>3, Deserialized, SMT
      <3>2. Frame!TypeOK
        BY <2>1, <2>3, <3>1, SMT DEF Frame!TypeOK, Frame!Taken
      <3>3. Frame!WholeIsTaken
        BY <2>1, <2>3, <3>1, SMT DEF Frame!WholeIsTaken, Frame!Length
      <3>4. Frame!CutIsNotTaken
        BY <2>1, <2>3, <3>1, SMT DEF Frame!CutIsNotTaken, Frame!Taken
      <3> QED BY <3>2, <3>3, <3>4
    <2> QED BY <2>2, <2>3 DEF FrameInv
  <1> QED BY <1>1, <1>2, <1>3, ComponentSpecs, PTL DEF Frame!Spec, FramesAreNotMistaken

-----------------------------------------------------------------------------
(* Derived keys.  The key that a list of indexes leads to is the record of them; by *)
(* induction over the indexes.                                                      *)

\* A set that has 0 and with each number the next one has them all.
LEMMA SetInduction ==
    ASSUME NEW P \in SUBSET Nat, 0 \in P, \A n \in P : n + 1 \in P
    PROVE  P = Nat
  <1> DEFINE R == OpToRel(<, Nat)
             rest == Nat \ P
  <1> SUFFICES ASSUME rest # {} PROVE FALSE
    OBVIOUS
  <1>1. IsWellFoundedOn(R, Nat)
    BY NatLessThanWellFounded
  <1>2. \A x, y \in Nat : y < x => <<y, x>> \in R
    BY DEF OpToRel
  <1> HIDE DEF R
  <1>3. PICK n \in rest : \A m \in rest : ~ (<<m, n>> \in R)
    BY <1>1, WFMin
  <1>4. n - 1 \in Nat /\ n - 1 < n
    BY <1>3
  <1>5. n - 1 \in P
    BY <1>2, <1>3, <1>4
  <1> QED BY <1>3, <1>4, <1>5

\* u has the key after n of the indexes s, for every n.
Derives(seed, s, u) ==
    u = [n \in 0..Len(s) |-> IF n = 0 THEN Keys!derive_master_key(seed)
                             ELSE Keys!derive_child_key(u[n - 1], s[n])]
After(seed, s) == CHOOSE u : Derives(seed, s, u)

LEMMA KeyIsAfter ==
    ASSUME NEW seed, NEW s
    PROVE  Keys!derive_keypair_from_indices(seed, s) = After(seed, s)[Len(s)]
  BY DEF Keys!derive_keypair_from_indices, After, Derives

LEMMA ChildKey ==
    ASSUME NEW seed, NEW t, NEW x
    PROVE  Keys!derive_child_key([seed |-> seed, steps |-> t], x)
             = [seed |-> seed, steps |-> Append(t, x)]
  BY DEF Keys!derive_child_key

LEMMA KeyOfIndexes ==
    ASSUME NEW S, NEW s \in Seq(S), NEW seed
    PROVE  Keys!derive_keypair_from_indices(seed, s) = [seed |-> seed, steps |-> s]
  <1> DEFINE h == [n \in 0..Len(s) |-> [seed |-> seed, steps |-> SubSeq(s, 1, n)]]
             u == After(seed, s)
  <1>1. /\ Len(s) \in Nat /\ SubSeq(s, 1, 0) = <<>> /\ SubSeq(s, 1, Len(s)) = s
        /\ \A n \in 1..Len(s) : SubSeq(s, 1, n) = Append(SubSeq(s, 1, n - 1), s[n])
    OBVIOUS
  <1>2. ASSUME NEW n \in 0..Len(s)
        PROVE  h[n] = IF n = 0 THEN Keys!derive_master_key(seed)
                      ELSE Keys!derive_child_key(h[n - 1], s[n])
    <2>1. CASE n = 0
      BY <1>1, <2>1 DEF Keys!derive_master_key
    <2>2. CASE n # 0
      <3>1. n \in 1..Len(s) /\ n - 1 \in 0..Len(s)
        BY <1>1, <2>2
      <3>2. SubSeq(s, 1, n) = Append(SubSeq(s, 1, n - 1), s[n])
        BY <1>1, <3>1
      <3>3. /\ h[n] = [seed |-> seed, steps |-> Append(SubSeq(s, 1, n - 1), s[n])]
            /\ h[n - 1] = [seed |-> seed, steps |-> SubSeq(s, 1, n - 1)]
        BY <3>1, <3>2
      <3> HIDE DEF h
      <3>4. Keys!derive_child_key(h[n - 1], s[n])
              = [seed |-> seed, steps |-> Append(SubSeq(s, 1, n - 1), s[n])]
        <4>1. Keys!derive_child_key([seed |-> seed, steps |-> SubSeq(s, 1, n - 1)], s[n])
                = [seed |-> seed, steps |-> Append(SubSeq(s, 1, n - 1), s[n])]
          BY ChildKey, Zenon
        <4> QED BY <3>3, <4>1, Zenon
      <3> QED BY <2>2, <3>3, <3>4
    <2> QED BY <2>1, <2>2
  <1>3. Derives(seed, s, h)
    <2> DEFINE step(g, n) == IF n = 0 THEN Keys!derive_master_key(seed)
                             ELSE Keys!derive_child_key(g[n - 1], s[n])
    <2>1. \A n \in 0..Len(s) : h[n] = step(h, n)
      BY <1>2
    <2>2. h = [n \in 0..Len(s) |-> h[n]]
      OBVIOUS
    <2> HIDE DEF h, step
    <2>3. h = [n \in 0..Len(s) |-> step(h, n)]
      BY <2>1, <2>2
    <2> QED BY <2>3 DEF Derives, step
  <1>4. Derives(seed, s, u)
    <2> HIDE DEF h
    <2> QED BY <1>3 DEF After
  <1> HIDE DEF u
  <1>5. \A n \in 0..Len(s) : u[n] = IF n = 0 THEN Keys!derive_master_key(seed)
                                    ELSE Keys!derive_child_key(u[n - 1], s[n])
    BY <1>4 DEF Derives
  <1> DEFINE P == {n \in Nat : n \in 0..Len(s) => u[n] = h[n]}
  <1>6. 0 \in P
    BY <1>1, <1>2, <1>5
  <1>7. ASSUME NEW n \in P PROVE n + 1 \in P
    <2> SUFFICES ASSUME n + 1 \in 0..Len(s) PROVE u[n + 1] = h[n + 1]
      OBVIOUS
    <2>1. n \in 0..Len(s) /\ n + 1 # 0 /\ (n + 1) - 1 = n
      BY <1>1
    <2>2. u[n] = h[n]
      BY <2>1
    <2> HIDE DEF h, P
    <2> QED BY <1>2, <1>5, <2>1, <2>2
  <1>8. P = Nat
    <2> HIDE DEF h
    <2>1. P \in SUBSET Nat
      OBVIOUS
    <2> HIDE DEF P
    <2> QED BY <1>6, <1>7, <2>1, SetInduction
  <1>9. u[Len(s)] = h[Len(s)]
    <2> HIDE DEF h
    <2> QED BY <1>1, <1>8
  <1>10. h[Len(s)] = [seed |-> seed, steps |-> s]
    BY <1>1
  <1> HIDE DEF h
  <1> QED BY <1>9, <1>10, KeyIsAfter DEF u

\* The paths that keys are asked for are lists of numbers, and so are the indexes that
\* BIP-32 reads in them.
LEMMA PathParts ==
    ASSUME NEW path \in Keys!Paths
    PROVE  /\ path.parts \in Seq(Keys!Parts)
           /\ Keys!StandardIndexes(path) \in Seq(Nat)
  <1>1. {0, 44, 60, 195, 501} \subseteq Numbers /\ Numbers \subseteq Nat /\ Half \in Nat
    BY KeysAssumption DEF Keys!KeyDerivationAssumption
  <1>2. \A n \in Numbers : Keys!Plain(n) \in Keys!Parts /\ Keys!Hard(n) \in Keys!Parts
    BY DEF Keys!Plain, Keys!Hard, Keys!Parts
  <1>3. \A parts : Keys!Path(parts).parts = parts
    BY DEF Keys!Path
  <1>4. path.parts \in Seq(Keys!Parts)
    <2> DEFINE lists == UNION {[1..n -> Keys!Parts] : n \in 1..MaxParts}
    <2>1. ASSUME NEW p \in lists PROVE p \in Seq(Keys!Parts)
      <3>1. PICK n \in 1..MaxParts : p \in [1..n -> Keys!Parts]
        BY <2>1
      <3> QED BY <3>1
    <2>2. /\ Keys!MasterPath.parts = <<>>
          /\ [begins |-> "other", parts |-> <<>>].parts = <<>>
      BY DEF Keys!MasterPath
    <2>3. ASSUME NEW c \in {0, 60, 195} PROVE Keys!Bip44(c).parts \in Seq(Keys!Parts)
      <3>1. /\ Keys!Hard(44) \in Keys!Parts /\ Keys!Hard(c) \in Keys!Parts
            /\ Keys!Hard(0) \in Keys!Parts /\ Keys!Plain(0) \in Keys!Parts
        BY <1>1, <1>2
      <3>2. <<Keys!Hard(44), Keys!Hard(c), Keys!Hard(0), Keys!Plain(0), Keys!Plain(0)>>
                \in Seq(Keys!Parts)
        BY <3>1
      <3>3. Keys!Bip44(c).parts
              = <<Keys!Hard(44), Keys!Hard(c), Keys!Hard(0), Keys!Plain(0), Keys!Plain(0)>>
        BY <1>3 DEF Keys!Bip44
      <3> QED BY <3>2, <3>3
    <2>4. Keys!SolanaPath.parts \in Seq(Keys!Parts)
      <3>1. /\ Keys!Hard(44) \in Keys!Parts /\ Keys!Hard(501) \in Keys!Parts
            /\ Keys!Hard(0) \in Keys!Parts
        BY <1>1, <1>2
      <3>2. <<Keys!Hard(44), Keys!Hard(501), Keys!Hard(0), Keys!Hard(0)>> \in Seq(Keys!Parts)
        BY <3>1
      <3>3. Keys!SolanaPath.parts
              = <<Keys!Hard(44), Keys!Hard(501), Keys!Hard(0), Keys!Hard(0)>>
        BY <1>3, SMT DEF Keys!SolanaPath
      <3> QED BY <3>2, <3>3, SMT
    <2>5. <<Keys!Hard(44), Keys!Hard(0), Keys!Plain(0), Keys!Plain(0), Keys!Plain(0)>>
              \in Seq(Keys!Parts)
      <3>1. /\ Keys!Hard(44) \in Keys!Parts /\ Keys!Hard(0) \in Keys!Parts
            /\ Keys!Plain(0) \in Keys!Parts
        BY <1>1, <1>2
      <3> QED BY <3>1
    <2>6. \/ \E p \in lists : path = Keys!Path(p)
          \/ path \in {Keys!MasterPath, [begins |-> "other", parts |-> <<>>]}
          \/ \E c \in {0, 60, 195} : path = Keys!Bip44(c)
          \/ path = Keys!SolanaPath
          \/ path = Keys!Path(<<Keys!Hard(44), Keys!Hard(0), Keys!Plain(0), Keys!Plain(0),
                                Keys!Plain(0)>>)
      BY Zenon DEF Keys!Paths
    <2> HIDE DEF lists
    <2>7. CASE \E p \in lists : path = Keys!Path(p)
      BY <1>3, <2>1, <2>7
    <2>8. CASE path \in {Keys!MasterPath, [begins |-> "other", parts |-> <<>>]}
      <3>1. path.parts = <<>>
        BY <2>2, <2>8
      <3> QED BY <3>1
    <2>9. CASE \E c \in {0, 60, 195} : path = Keys!Bip44(c)
      BY <2>3, <2>9
    <2>10. CASE path = Keys!SolanaPath
      BY <2>4, <2>10
    <2>11. CASE path = Keys!Path(<<Keys!Hard(44), Keys!Hard(0), Keys!Plain(0),
                                   Keys!Plain(0), Keys!Plain(0)>>)
      BY <1>3, <2>5, <2>11, Zenon
    <2> QED BY <2>6, <2>7, <2>8, <2>9, <2>10, <2>11
  <1>5. ASSUME NEW i \in DOMAIN path.parts
        PROVE  path.parts[i].number + (IF path.parts[i].hardened THEN Half ELSE 0) \in Nat
    <2>1. path.parts[i] \in Keys!Parts
      BY <1>4
    <2>2. path.parts[i].number \in Nat
      BY <1>1, <2>1 DEF Keys!Parts
    <2> QED BY <1>1, <2>2
  <1>6. DOMAIN path.parts = 1..Len(path.parts) /\ Len(path.parts) \in Nat
    BY <1>4
  <1>7. Keys!StandardIndexes(path) \in [1..Len(path.parts) -> Nat]
    BY <1>5, <1>6 DEF Keys!StandardIndexes
  <1> QED BY <1>4, <1>6, <1>7

\* A number in front of hardened ones: the indexes of the default path.
LEMMA DefaultIndexes ==
    Keys!StandardIndexes(Keys!DefaultPath) = <<44 + Half, Half, Half, 0, 0>>
  <1> DEFINE parts == Keys!DefaultPath.parts
             s == Keys!StandardIndexes(Keys!DefaultPath)
  <1>1. parts = <<Keys!Hard(44), Keys!Hard(0), Keys!Hard(0), Keys!Plain(0), Keys!Plain(0)>>
    BY DEF Keys!DefaultPath, Keys!Bip44, Keys!Path
  <1>2. DOMAIN parts = 1..5
    BY <1>1
  <1>3. Half \in Nat
    BY KeysAssumption DEF Keys!KeyDerivationAssumption
  <1>4. s = [i \in 1..5 |-> parts[i].number + (IF parts[i].hardened THEN Half ELSE 0)]
    BY <1>2 DEF Keys!StandardIndexes
  <1>5. /\ \A n : Keys!Hard(n).number = n /\ Keys!Hard(n).hardened = TRUE
        /\ \A n : Keys!Plain(n).number = n /\ Keys!Plain(n).hardened = FALSE
    BY DEF Keys!Hard, Keys!Plain
  <1>6. /\ parts[1] = Keys!Hard(44) /\ parts[2] = Keys!Hard(0) /\ parts[3] = Keys!Hard(0)
        /\ parts[4] = Keys!Plain(0) /\ parts[5] = Keys!Plain(0)
    BY <1>1
  <1> HIDE DEF parts, s
  <1>7. s[1] = 44 + Half /\ s[2] = Half /\ s[3] = Half /\ s[4] = 0 /\ s[5] = 0
    BY <1>3, <1>4, <1>5, <1>6
  <1>8. s = <<44 + Half, Half, Half, 0, 0>>
    <2>1. s = [i \in 1..5 |-> s[i]]
      BY <1>4
    <2> QED BY <2>1, <1>7
  <1> QED BY <1>8 DEF s

\* A key that is derived is that of the indexes BIP-32 reads in its path.
LEMMA KeyOfPath ==
    ASSUME NEW seed, NEW path \in Keys!Paths, Keys!derive_keypair(seed, path).ok
    PROVE  Keys!derive_keypair(seed, path).is
               = [seed |-> seed, steps |-> Keys!StandardIndexes(path)]
  <1> DEFINE d == Keys!derive_keypair(seed, path)
  <1>1. \A x : Keys!Ok(x).is = x /\ Keys!Err.ok = FALSE
    BY DEF Keys!Ok, Keys!Err
  <1>2. Keys!StandardIndexes(path) \in Seq(Nat) /\ Half \in Nat
    BY PathParts, KeysAssumption DEF Keys!KeyDerivationAssumption
  <1>3. CASE path = Keys!MasterPath
    <2>1. d.is = [seed |-> seed, steps |-> <<>>]
      BY <1>1, <1>3 DEF Keys!derive_keypair, Keys!derive_master_key
    <2>2. Keys!StandardIndexes(path) = <<>>
      BY <1>3 DEF Keys!StandardIndexes, Keys!MasterPath
    <2> QED BY <2>1, <2>2
  <1>4. CASE path = Keys!DefaultPath /\ path # Keys!MasterPath
    <2>1. d.is = Keys!derive_keypair_from_indices(seed, <<44 + Half, Half, Half, 0, 0>>)
      BY <1>1, <1>4 DEF Keys!derive_keypair
    <2>2. d.is = Keys!derive_keypair_from_indices(seed, Keys!StandardIndexes(path))
      BY <1>4, <2>1, DefaultIndexes
    <2> QED BY <1>2, <2>2, KeyOfIndexes
  <1>5. CASE path # Keys!DefaultPath /\ path # Keys!MasterPath
    <2> DEFINE parsed == Keys!parse_derivation_path(path)
    <2>1. d = IF parsed.ok THEN Keys!Ok(Keys!derive_keypair_from_indices(seed, parsed.is))
              ELSE Keys!Err
      BY <1>5 DEF Keys!derive_keypair
    <2>2. parsed.ok
      BY <1>1, <2>1
    <2>3. parsed = Keys!Err \/ parsed = Keys!Ok(Keys!StandardIndexes(path))
      BY DEF Keys!parse_derivation_path, Keys!StandardIndexes
    <2> HIDE DEF parsed
    <2>4. parsed.is = Keys!StandardIndexes(path)
      BY <1>1, <2>2, <2>3
    <2>5. d.is = Keys!derive_keypair_from_indices(seed, Keys!StandardIndexes(path))
      BY <1>1, <2>1, <2>2, <2>4
    <2> QED BY <1>2, <2>5, KeyOfIndexes
  <1> QED BY <1>3, <1>4, <1>5

\* The zero id of a phrase is the key of the default path.
LEMMA ZeroIdOf ==
    ASSUME NEW phrase, NEW passphrase
    PROVE  Keys!Identity(phrase, passphrase).zero_id
               = [seed |-> <<phrase.words, passphrase>>,
                  steps |-> <<44 + Half, Half, Half, 0, 0>>]
  <1> DEFINE seed == <<phrase.words, passphrase>>
             s == <<44 + Half, Half, Half, 0, 0>>
  <1>1. Keys!DefaultPath # Keys!MasterPath
    BY DEF Keys!DefaultPath, Keys!Bip44, Keys!Path, Keys!MasterPath
  <1>2. Keys!derive_keypair(seed, Keys!DefaultPath).is = Keys!derive_keypair_from_indices(seed, s)
    BY <1>1 DEF Keys!derive_keypair, Keys!Ok
  <1>3. s \in Seq(Nat)
    BY KeysAssumption DEF Keys!KeyDerivationAssumption
  <1>4. Keys!Identity(phrase, passphrase).zero_id = Keys!derive_keypair(seed, Keys!DefaultPath).is
    BY DEF Keys!Identity, Keys!mnemonic_to_seed
  <1> HIDE DEF s, seed
  <1>5. Keys!Identity(phrase, passphrase).zero_id = [seed |-> seed, steps |-> s]
    BY <1>2, <1>3, <1>4, KeyOfIndexes
  <1> QED BY <1>5 DEF s, seed

\* The identity is that of the phrase it shows and of the passphrase given; the key and
\* the address are derived from its seed.
KeysInv ==
    /\ identity = Keys!NoIdentity \/ identity = Keys!Identity(identity.mnemonic_phrase, given)
    /\ \/ key = Keys!NoKey
       \/ key.of \in Keys!Paths /\ key.is = Keys!derive_keypair(identity.seed, key.of)
    /\ \/ address = Keys!NoAddress
       \/ \E c \in Keys!Chains, account, change, index \in Counts :
              address = Keys!deriveAddress(identity.seed, c, account, change, index)

LEMMA KeysStep ==
    ASSUME KeysInv, [Keys!Next]_(Keys!vars)
    PROVE  KeysInv'
  <1>1. ASSUME NEW phrase, NEW passphrase, Keys!Become(phrase, passphrase) PROVE KeysInv'
    <2>1. /\ identity' = Keys!Identity(phrase, passphrase) /\ given' = passphrase
          /\ key' = Keys!NoKey /\ address' = Keys!NoAddress
      BY <1>1 DEF Keys!Become, Keys!from_mnemonic_and_passphrase
    <2>2. Keys!Identity(phrase, passphrase).mnemonic_phrase = phrase
      BY DEF Keys!Identity
    <2>3. identity' = Keys!Identity(identity'.mnemonic_phrase, given')
      BY <2>1, <2>2, Zenon
    <2> QED BY <2>1, <2>3, Zenon DEF KeysInv
  <1>2. CASE Keys!DeriveKeypair
    <2>1. PICK path \in Keys!Paths :
              key' = [of |-> path, is |-> Keys!derive_keypair(identity.seed, path)]
      BY <1>2 DEF Keys!DeriveKeypair
    <2>2. /\ identity' = identity /\ given' = given /\ address' = Keys!NoAddress
      BY <1>2 DEF Keys!DeriveKeypair
    <2>3. key'.of = path /\ key'.is = Keys!derive_keypair(identity.seed, path)
      BY <2>1
    <2>4. key'.of \in Keys!Paths /\ key'.is = Keys!derive_keypair(identity'.seed, key'.of)
      BY <2>2, <2>3
    <2> QED BY <2>2, <2>4, Zenon DEF KeysInv
  <1>3. CASE Keys!DeriveAddress
    <2>1. /\ identity' = identity /\ given' = given /\ key' = Keys!NoKey
          /\ \E c \in Keys!Chains, account, change, index \in Counts :
                 address' = Keys!deriveAddress(identity.seed, c, account, change, index)
      BY <1>3 DEF Keys!DeriveAddress
    <2> QED BY <2>1, Zenon DEF KeysInv
  <1>4. CASE UNCHANGED Keys!vars
    BY <1>4, Zenon DEF Keys!vars, KeysInv
  <1> QED BY <1>1, <1>2, <1>3, <1>4, Zenon
        DEF Keys!Next, Keys!generate_with_passphrase, Keys!from_mnemonic_phrase_with_passphrase

LEMMA PathsGiveKeys == KeysInv => Keys!OneKeyPerPath
  <1> SUFFICES ASSUME KeysInv, key.is.ok, NEW p \in Keys!Paths,
                      Keys!derive_keypair(identity.seed, p).ok
               PROVE  Keys!derive_keypair(identity.seed, p).is = key.is.is
                          <=> Keys!StandardIndexes(p) = Keys!StandardIndexes(key.of)
    BY Zenon DEF Keys!OneKeyPerPath
  <1>1. ~ Keys!NoKey.is.ok
    BY DEF Keys!NoKey, Keys!Err
  <1>2. key.of \in Keys!Paths /\ key.is = Keys!derive_keypair(identity.seed, key.of)
    BY <1>1 DEF KeysInv
  <1>3. key.is.is = [seed |-> identity.seed, steps |-> Keys!StandardIndexes(key.of)]
    BY <1>2, KeyOfPath
  <1>4. Keys!derive_keypair(identity.seed, p).is
            = [seed |-> identity.seed, steps |-> Keys!StandardIndexes(p)]
    BY KeyOfPath
  <1>5. /\ key.is.is.steps = Keys!StandardIndexes(key.of)
        /\ Keys!derive_keypair(identity.seed, p).is.steps = Keys!StandardIndexes(p)
    BY <1>3, <1>4
  <1> QED BY <1>3, <1>4, <1>5

LEMMA PhrasesGiveIdentities == KeysInv => Keys!PhraseRestores
  <1> SUFFICES ASSUME KeysInv, identity # Keys!NoIdentity, NEW w \in Words, NEW p \in Passphrases
               PROVE  Keys!from_mnemonic_and_passphrase([words |-> w, spelling |-> "typed"], p)
                          .zero_id = identity.zero_id
                      <=> w = identity.mnemonic_phrase.words /\ p = given
    BY Zenon DEF Keys!PhraseRestores
  <1> DEFINE steps == <<44 + Half, Half, Half, 0, 0>>
             typed == [words |-> w, spelling |-> "typed"]
             shown == identity.mnemonic_phrase
  <1>1. identity.zero_id = [seed |-> <<shown.words, given>>, steps |-> steps]
    <2>1. identity = Keys!Identity(shown, given)
      BY DEF KeysInv
    <2>2. Keys!Identity(shown, given).zero_id = [seed |-> <<shown.words, given>>, steps |-> steps]
      BY ZeroIdOf
    <2> QED BY <2>1, <2>2, Zenon
  <1>2. Keys!from_mnemonic_and_passphrase(typed, p).zero_id
            = [seed |-> <<typed.words, p>>, steps |-> steps]
    BY ZeroIdOf DEF Keys!from_mnemonic_and_passphrase
  <1>3. typed.words = w
    OBVIOUS
  <1> HIDE DEF steps, typed
  <1>4. [seed |-> <<typed.words, p>>, steps |-> steps]
            = [seed |-> <<shown.words, given>>, steps |-> steps]
        <=> w = shown.words /\ p = given
    BY <1>3
  <1> QED BY <1>1, <1>2, <1>4 DEF typed

\* The coin's number in a chain's path says which file its salt is in.
LEMMA ChainsShareAddresses == Keys!OneAddressPerPath
  <1> DEFINE Coin(c) == Keys!bip44_path(c).parts[2].number
  <1>1. /\ Coin("BTC") = 0 /\ Coin("ETH") = 60 /\ Coin("BSC") = 60
        /\ Coin("TRX") = 195 /\ Coin("SOL") = 501
    BY SMT DEF Keys!bip44_path, Keys!Bip44, Keys!SolanaPath, Keys!Path, Keys!Hard, Keys!Plain
  <1>2. /\ Keys!Salt("BTC") = "bitcoin-seed" /\ Keys!Salt("ETH") = "evm-seed"
        /\ Keys!Salt("BSC") = "evm-seed" /\ Keys!Salt("TRX") = "tron-seed"
        /\ Keys!Salt("SOL") = "solana-seed"
    BY SMT DEF Keys!Salt
  <1>3. ASSUME NEW c \in Keys!Chains, NEW d \in Keys!Chains,
               Keys!bip44_path(c) = Keys!bip44_path(d)
        PROVE  Keys!Salt(c) = Keys!Salt(d)
    <2>1. Coin(c) = Coin(d)
      BY <1>3
    <2> HIDE DEF Coin
    <2> QED BY <1>1, <1>2, <2>1, SMT DEF Keys!Chains
  <1>4. ASSUME NEW seed, NEW c \in Keys!Chains
        PROVE  Keys!derive_addresses(seed)[c]
                   = [salt |-> Keys!Salt(c), seed |-> seed, path |-> Keys!bip44_path(c)]
    BY Zenon DEF Keys!derive_addresses
  <1>5. ASSUME NEW seed, NEW c \in Keys!Chains, NEW d \in Keys!Chains
        PROVE  Keys!derive_addresses(seed)[c] = Keys!derive_addresses(seed)[d]
                   <=> Keys!bip44_path(c) = Keys!bip44_path(d)
    <2>1. Keys!bip44_path(c) = Keys!bip44_path(d) => Keys!Salt(c) = Keys!Salt(d)
      BY <1>3
    <2>2. [salt |-> Keys!Salt(c), seed |-> seed, path |-> Keys!bip44_path(c)]
            = [salt |-> Keys!Salt(d), seed |-> seed, path |-> Keys!bip44_path(d)]
          <=> Keys!bip44_path(c) = Keys!bip44_path(d)
      BY <2>1
    <2> QED BY <1>4, <2>2
  <1> QED BY <1>5 DEF Keys!OneAddressPerPath

\* The key of the app's wallet holds every number that its path does.
LEMMA AddressesGivePaths == KeysInv => Keys!PathsApart
  <1> SUFFICES ASSUME KeysInv, address # Keys!NoAddress,
                      NEW c \in Keys!Chains, NEW account \in Counts, NEW change \in Counts,
                      NEW index \in Counts,
                      Keys!deriveAddress(identity.seed, c, account, change, index).privateKey
                          = address.privateKey
               PROVE  Keys!deriveAddress(identity.seed, c, account, change, index)
                          .derivationPath = address.derivationPath
    BY Zenon DEF Keys!PathsApart
  <1>1. PICK c2 \in Keys!Chains, account2, change2, index2 \in Counts :
            address = Keys!deriveAddress(identity.seed, c2, account2, change2, index2)
    BY DEF KeysInv
  <1>2. \A ch, a, n, i :
            /\ Keys!deriveAddress(identity.seed, ch, a, n, i).privateKey
                   = <<"zero-wallet", identity.seed, ch, a, n, i>>
            /\ Keys!deriveAddress(identity.seed, ch, a, n, i).derivationPath
                   = Keys!_buildDerivationPath(ch, a, n, i)
    BY DEF Keys!deriveAddress, Keys!_deriveChildKey
  <1>3. c = c2 /\ account = account2 /\ change = change2 /\ index = index2
    BY <1>1, <1>2
  <1> QED BY <1>1, <1>3, Zenon

\* Two paths give one key exactly if they are one path to BIP-32; an identity is found
\* again exactly from its phrase and passphrase; two chains of the core's wallet have one
\* address exactly if they have one path; and two addresses of the app's wallet that have
\* one key have one path, while those of one path may have different keys, as those of
\* two chains that share it do.
THEOREM PathsTellKeysApart == MCSpec => []KeysFollowTheirPaths
  <1>1. Keys!Init => KeysInv
    BY Zenon DEF Keys!Init, KeysInv
  <1>2. KeysInv => KeysFollowTheirPaths
    BY PathsGiveKeys, PhrasesGiveIdentities, ChainsShareAddresses, AddressesGivePaths, Zenon
       DEF KeysFollowTheirPaths
  <1> QED BY <1>1, <1>2, KeysStep, ComponentSpecs, PTL DEF Keys!Spec

-----------------------------------------------------------------------------
(* Addresses in base 58. *)

\* A function on 0..N can be given by its first value and by the way from each value
\* to the next.
Recurs(S, x, N, F) ==
    \E u \in [0..N -> S] : u[0] = x /\ \A n \in 1..N : u[n] = F[n][u[n - 1]]

\* A function defined by recursion on 0..N has the values the recursion gives.
LEMMA Recursion ==
    ASSUME NEW S, NEW x \in S, NEW N \in Nat, NEW F \in [1..N -> [S -> S]]
    PROVE  Recurs(S, x, N, F)
  <1> DEFINE Upto(k, u) == u[0] = x /\ \A n \in 1..k : u[n] = F[n][u[n - 1]]
             P == {k \in Nat : k <= N => \E u \in [0..k -> S] : Upto(k, u)}
  <1>1. 0 \in P
    <2> DEFINE u == [n \in 0..0 |-> x]
    <2>1. u \in [0..0 -> S] /\ Upto(0, u)
      OBVIOUS
    <2> QED BY <2>1
  <1>2. ASSUME NEW k \in P PROVE k + 1 \in P
    <2> SUFFICES ASSUME k + 1 <= N PROVE \E u \in [0 .. k + 1 -> S] : Upto(k + 1, u)
      OBVIOUS
    <2>1. PICK u \in [0..k -> S] : Upto(k, u)
      OBVIOUS
    <2> DEFINE w == [n \in 0 .. k + 1 |-> IF n = k + 1 THEN F[k + 1][u[k]] ELSE u[n]]
    <2>2. w \in [0 .. k + 1 -> S] /\ k \in Nat
      OBVIOUS
    <2>3. ASSUME NEW n \in 1 .. k + 1 PROVE w[n] = F[n][w[n - 1]]
      <3>1. CASE n = k + 1
        <4>1. n - 1 = k /\ k \in 0 .. k + 1 /\ k # k + 1
          BY <3>1
        <4>2. w[k] = u[k] /\ w[n] = F[k + 1][u[k]]
          BY <3>1, <4>1
        <4> QED BY <3>1, <4>1, <4>2
      <3>2. CASE n # k + 1
        <4>1. n \in 1..k /\ n - 1 \in 0 .. k /\ n - 1 # k + 1
          BY <3>2
        <4>2. w[n] = u[n] /\ w[n - 1] = u[n - 1]
          BY <4>1
        <4> QED BY <2>1, <4>1, <4>2
      <3> QED BY <3>1, <3>2
    <2>4. w[0] = x
      BY <2>1
    <2> HIDE DEF w
    <2> QED BY <2>2, <2>3, <2>4
  <1>3. P = Nat
    <2>1. P \in SUBSET Nat
      OBVIOUS
    <2> HIDE DEF P
    <2> QED BY <1>1, <1>2, <2>1, SetInduction
  <1>4. N \in P
    BY <1>3, Zenon
  <1>5. \E u \in [0..N -> S] : Upto(N, u)
    BY <1>4
  <1> QED BY <1>5 DEF Recurs

-----------------------------------------------------------------------------
\* q[n] is b to the power of n.
Powers(b, N, q) == q \in [0..N -> Nat] /\ q[0] = 1 /\ \A n \in 1..N : q[n] = b * q[n - 1]

\* There is a table of the powers of any base.
LEMMA PowersExist == ASSUME NEW b \in Nat, NEW N \in Nat PROVE \E q : Powers(b, N, q)
  <1> DEFINE F == [n \in 1..N |-> [v \in Nat |-> b * v]]
  <1>1. F \in [1..N -> [Nat -> Nat]]
    OBVIOUS
  <1>2. \A n \in 1..N, v \in Nat : F[n][v] = b * v
    OBVIOUS
  <1> HIDE DEF F
  <1>3. PICK q \in [0..N -> Nat] : q[0] = 1 /\ \A n \in 1..N : q[n] = F[n][q[n - 1]]
    <2>1. 1 \in Nat
      OBVIOUS
    <2>2. Recurs(Nat, 1, N, F)
      BY <1>1, <2>1, Recursion
    <2> QED BY <2>2 DEF Recurs
  <1>4. ASSUME NEW n \in 1..N PROVE q[n] = b * q[n - 1]
    <2>1. q[n - 1] \in Nat
      OBVIOUS
    <2> QED BY <1>2, <1>3, <2>1
  <1> QED BY <1>3, <1>4 DEF Powers

\* The first n of the digits s, lowest first, are worth w[n].
Weighs(s, q, w) ==
    /\ w \in [0..Len(s) -> Nat] /\ w[0] = 0
    /\ \A n \in 1..Len(s) : w[n] = w[n - 1] + s[n] * q[n - 1]
IsWorth(s, q, v) == \E w : Weighs(s, q, w) /\ w[Len(s)] = v

\* No digits are worth nothing.
LEMMA NothingIsWorthZero == ASSUME NEW q PROVE IsWorth(<<>>, q, 0)
  <1> DEFINE w == [n \in 0..0 |-> 0]
  <1>1. Len(<<>>) = 0 /\ w \in [0..0 -> Nat] /\ w[0] = 0
    OBVIOUS
  <1> HIDE DEF w
  <1> QED BY <1>1 DEF IsWorth, Weighs

\* What the solver needs to know of products.
LEMMA Multiples ==
    /\ \A a, b, c \in Nat : a <= b => a * c <= b * c
    /\ \A a, c \in Nat : (a + 1) * c = a * c + c
    /\ \A a, c \in Nat : a * c \in Nat
  OBVIOUS

\* A digit on top adds itself times the power at its place.
LEMMA WorthOfOneMore ==
    ASSUME NEW N \in Nat, NEW q, Powers(58, N, q), NEW s \in Seq(0..57), Len(s) <= N,
           NEW d \in 0..57, NEW v \in Nat, IsWorth(s, q, v)
    PROVE  IsWorth(Append(s, d), q, v + d * q[Len(s)])
  <1> DEFINE t == Append(s, d)
  <1>1. PICK w : Weighs(s, q, w) /\ w[Len(s)] = v
    BY DEF IsWorth
  <1>2. /\ Len(s) \in Nat /\ Len(t) = Len(s) + 1 /\ t[Len(s) + 1] = d
        /\ \A n \in 1..Len(s) : t[n] = s[n]
    OBVIOUS
  <1>3. q[Len(s)] \in Nat /\ d * q[Len(s)] \in Nat
    <2>1. Len(s) \in 0..N /\ q \in [0..N -> Nat]
      BY <1>2 DEF Powers
    <2>2. q[Len(s)] \in Nat /\ d \in Nat
      BY <2>1
    <2> QED BY <2>2, Multiples
  <1> DEFINE sum == v + d * q[Len(s)]
             x == [n \in 0 .. Len(s) + 1 |-> IF n = Len(s) + 1 THEN sum ELSE w[n]]
  <1>4. x \in [0..Len(t) -> Nat] /\ x[0] = 0 /\ x[Len(t)] = sum
    <2>1. sum \in Nat
      BY <1>3
    <2>2. w[0] = 0 /\ \A n \in 0..Len(s) : w[n] \in Nat
      BY <1>1 DEF Weighs
    <2> HIDE DEF sum, t
    <2> QED BY <1>2, <2>1, <2>2
  <1>5. \A n \in 0..Len(s) : x[n] = w[n]
    BY <1>2
  <1> HIDE DEF x, t
  <1>6. ASSUME NEW n \in 1..Len(t) PROVE x[n] = x[n - 1] + t[n] * q[n - 1]
    <2>1. CASE n = Len(t)
      <3>1. n - 1 = Len(s) /\ x[n - 1] = v /\ t[n] = d
        BY <1>1, <1>2, <1>5, <2>1
      <3> QED BY <1>4, <2>1, <3>1
    <2>2. CASE n # Len(t)
      <3>1. n \in 1..Len(s) /\ n - 1 \in 0..Len(s) /\ n \in 0..Len(s)
        BY <1>2, <2>2
      <3>2. x[n] = w[n] /\ x[n - 1] = w[n - 1] /\ t[n] = s[n]
        BY <1>2, <1>5, <3>1
      <3>3. w[n] = w[n - 1] + s[n] * q[n - 1]
        BY <1>1, <3>1 DEF Weighs
      <3> QED BY <3>2, <3>3
    <2> QED BY <2>1, <2>2
  <1>7. Weighs(t, q, x)
    BY <1>4, <1>6 DEF Weighs
  <1> QED BY <1>4, <1>7 DEF IsWorth, t

\* How large the digits s are, by their number and their top digit.
LEMMA WorthIsBounded ==
    ASSUME NEW N \in Nat, NEW q, Powers(58, N, q), NEW s \in Seq(0..57), Len(s) <= N,
           NEW v, IsWorth(s, q, v)
    PROVE  /\ v \in Nat
           /\ v < q[Len(s)]
           /\ s # <<>> => LET top == s[Len(s)]
                              unit == q[Len(s) - 1] IN
                          top * unit <= v /\ v < (top + 1) * unit
  <1>1. PICK w : Weighs(s, q, w) /\ w[Len(s)] = v
    BY DEF IsWorth
  <1>2. Len(s) \in Nat /\ \A n \in 1..Len(s) : s[n] \in 0..57
    BY LenProperties, ElementOfSeq
  <1>3. /\ w[0] = 0 /\ \A n \in 0..Len(s) : w[n] \in Nat
        /\ \A n \in 1..Len(s) : w[n] = w[n - 1] + s[n] * q[n - 1]
    BY <1>1 DEF Weighs
  <1>4. /\ q[0] = 1 /\ \A n \in 0..N : q[n] \in Nat
        /\ \A n \in 1..N : q[n] = 58 * q[n - 1]
    BY DEF Powers
  <1>5. ASSUME NEW n \in 1..Len(s), w[n - 1] < q[n - 1]
        PROVE  w[n] < q[n] /\ s[n] * q[n - 1] <= w[n] /\ w[n] < (s[n] + 1) * q[n - 1]
    <2>1. n - 1 \in 0..Len(s) /\ n - 1 \in 0..N /\ n \in 1..N
      BY <1>2
    <2>2. /\ s[n] \in Nat /\ s[n] <= 57
          /\ w[n - 1] \in Nat /\ q[n - 1] \in Nat
      <3>1. s[n] \in 0..57
        BY <1>2
      <3>2. w[n - 1] \in Nat
        BY <1>3, <2>1
      <3>3. q[n - 1] \in Nat
        BY <1>4, <2>1
      <3>4. \A k \in 0..57 : k \in Nat /\ k <= 57
        OBVIOUS
      <3> QED BY <3>1, <3>2, <3>3, <3>4, Zenon
    <2>3. w[n] = w[n - 1] + s[n] * q[n - 1] /\ q[n] = 58 * q[n - 1]
      BY <1>3, <1>4, <2>1
    <2> DEFINE a == s[n] * q[n - 1]
    <2>4. /\ a \in Nat /\ a <= 57 * q[n - 1]
          /\ (s[n] + 1) * q[n - 1] = a + q[n - 1]
      BY <2>2, Multiples
    <2>5. w[n] = w[n - 1] + a
      BY <2>3
    <2> HIDE DEF a
    <2>6. w[n] < q[n] /\ a <= w[n] /\ w[n] < (s[n] + 1) * q[n - 1]
      <3>1. \A x, y, a1, x1, y1, z : x \in Nat /\ y \in Nat /\ a1 \in Nat /\ x < y /\ a1 <= 57 * y
              /\ x1 = x + a1 /\ y1 = 58 * y /\ z = a1 + y => x1 < y1 /\ a1 <= x1 /\ x1 < z
        OBVIOUS
      <3> QED BY <1>5, <2>2, <2>3, <2>4, <2>5, <3>1, Zenon
    <2> QED BY <2>6 DEF a
  <1> DEFINE P == {n \in Nat : n <= Len(s) => w[n] < q[n]}
  <1>6. 0 \in P
    BY <1>3, <1>4
  <1>7. ASSUME NEW n \in P PROVE n + 1 \in P
    <2> SUFFICES ASSUME n + 1 <= Len(s) PROVE w[n + 1] < q[n + 1]
      OBVIOUS
    <2>1. n + 1 \in 1..Len(s) /\ (n + 1) - 1 = n /\ w[n] < q[n]
      BY <1>2
    <2> QED BY <1>5, <2>1
  <1>8. P = Nat
    <2>1. P \in SUBSET Nat
      OBVIOUS
    <2> HIDE DEF P
    <2> QED BY <1>6, <1>7, <2>1, SetInduction
  <1>9. \A n \in 0..Len(s) : w[n] < q[n]
    BY <1>8
  <1>10. CASE s # <<>>
    <2>1. Len(s) \in 1..Len(s) /\ Len(s) - 1 \in 0..Len(s)
      BY <1>10
    <2> QED BY <1>1, <1>2, <1>3, <1>5, <1>9, <2>1
  <1>11. v \in Nat /\ v < q[Len(s)]
    BY <1>1, <1>2, <1>3, <1>9
  <1> QED BY <1>10, <1>11

-----------------------------------------------------------------------------
\* Digits and bytes are numbers.
LEMMA SmallNumbers == (0..57) \subseteq Nat /\ (0..255) \subseteq Nat
  OBVIOUS

\* A digit times 256 and a carry are a digit and a carry again.
Splits(sum, r, c) == r \in 0..57 /\ c \in 0..255 /\ sum = 58 * c + r

\* The carry of a digit times 256 and a byte is a byte: it never outgrows one.
LEMMA DigitStep ==
    ASSUME NEW d \in 0..57, NEW carry \in 0..255
    PROVE  LET sum == d * 256 + carry IN Splits(sum, sum % 58, sum \div 58)
  BY DEF Splits

\* What AddByte makes of the next digit, and of all of them.
Multiplied(acc, d) ==
    LET sum == d * 256 + acc.carry IN
    [out |-> Append(acc.out, sum % 58), carry |-> sum \div 58]
Multiplies(s, byte, u) ==
    u = [n \in 0..Len(s) |->
           IF n = 0 THEN [out |-> <<>>, carry |-> byte] ELSE Multiplied(u[n - 1], s[n])]
Product(s, byte) == CHOOSE u : Multiplies(s, byte, u)
Partial == [out : Seq(0..57), carry : 0..255]

\* AddByte is the product, with what is left of the carry pushed behind.
LEMMA AddByteIsProduct ==
    ASSUME NEW s, NEW byte
    PROVE  LET end == Product(s, byte)[Len(s)] IN
           Keys!AddByte(s, byte) = Keys!PushCarry(end.out, end.carry)
  BY DEF Keys!AddByte, Product, Multiplies, Multiplied

\* One digit on: a digit goes out, a carry stays.
LEMMA MultipliedIs ==
    ASSUME NEW acc \in Partial, NEW d \in 0..57
    PROVE  \E r, c : /\ Splits(d * 256 + acc.carry, r, c)
                     /\ Multiplied(acc, d) = [out |-> Append(acc.out, r), carry |-> c]
  <1>1. acc.carry \in 0..255
    BY DEF Partial
  <1> DEFINE sum == d * 256 + acc.carry
             r == sum % 58
             c == sum \div 58
  <1>2. Splits(sum, r, c)
    BY <1>1, DigitStep
  <1>3. Multiplied(acc, d) = [out |-> Append(acc.out, r), carry |-> c]
    BY DEF Multiplied
  <1> HIDE DEF r, c
  <1> QED BY <1>2, <1>3

\* What is made of a digit is digits and a carry again, one digit more.
LEMMA MultipliedType ==
    ASSUME NEW acc \in Partial, NEW d \in 0..57
    PROVE  /\ Multiplied(acc, d) \in Partial
           /\ Len(Multiplied(acc, d).out) = Len(acc.out) + 1
  <1>1. acc.out \in Seq(0..57) /\ acc.carry \in 0..255
    BY DEF Partial
  <1>2. PICK r, c : /\ r \in 0..57 /\ c \in 0..255
                    /\ Multiplied(acc, d) = [out |-> Append(acc.out, r), carry |-> c]
    BY MultipliedIs, Zenon DEF Splits
  <1>3. Append(acc.out, r) \in Seq(0..57) /\ Len(Append(acc.out, r)) = Len(acc.out) + 1
    <2>1. r \in 0..57
      BY <1>2
    <2> QED BY <1>1, <2>1, AppendProperties
  <1> QED BY <1>2, <1>3 DEF Partial

\* The local function of AddByte has the values its recursion gives.
LEMMA ProductExists ==
    ASSUME NEW s \in Seq(0..57), NEW byte \in 0..255
    PROVE  LET u == Product(s, byte) IN
           /\ u \in [0..Len(s) -> Partial]
           /\ u[0] = [out |-> <<>>, carry |-> byte]
           /\ \A n \in 1..Len(s) : u[n] = Multiplied(u[n - 1], s[n])
  <1> DEFINE first == [out |-> <<>>, carry |-> byte]
             F == [n \in 1..Len(s) |-> [acc \in Partial |-> Multiplied(acc, s[n])]]
  <1>1. Len(s) \in Nat /\ \A n \in 1..Len(s) : s[n] \in 0..57
    BY LenProperties, ElementOfSeq
  <1>2. first \in Partial
    BY DEF Partial
  <1>3. F \in [1..Len(s) -> [Partial -> Partial]]
    BY <1>1, MultipliedType
  <1>4. \A n \in 1..Len(s), acc \in Partial : F[n][acc] = Multiplied(acc, s[n])
    OBVIOUS
  <1> HIDE DEF F, first
  <1>5. Recurs(Partial, first, Len(s), F)
    BY <1>1, <1>2, <1>3, Recursion
  <1>6. PICK v \in [0..Len(s) -> Partial] :
            v[0] = first /\ \A n \in 1..Len(s) : v[n] = F[n][v[n - 1]]
    BY <1>5 DEF Recurs
  <1> DEFINE next(g, n) == IF n = 0 THEN first ELSE Multiplied(g[n - 1], s[n])
  <1>7. ASSUME NEW n \in 0..Len(s) PROVE v[n] = next(v, n)
    <2>1. CASE n = 0
      BY <1>6, <2>1
    <2>2. CASE n # 0
      <3>1. n \in 1..Len(s) /\ n - 1 \in 0..Len(s)
        BY <1>1, <2>2
      <3>2. v[n - 1] \in Partial
        BY <3>1
      <3>3. v[n] = Multiplied(v[n - 1], s[n])
        BY <1>4, <1>6, <3>1, <3>2
      <3> QED BY <2>2, <3>3
    <2> QED BY <2>1, <2>2
  <1>8. v = [n \in 0..Len(s) |-> v[n]]
    OBVIOUS
  <1>9. v = [n \in 0..Len(s) |-> next(v, n)]
    <2> HIDE DEF next
    <2> QED BY <1>7, <1>8
  <1>10. Multiplies(s, byte, v)
    BY <1>9 DEF Multiplies, first
  <1> DEFINE u == Product(s, byte)
  <1>11. Multiplies(s, byte, u)
    BY <1>10 DEF Product
  <1> HIDE DEF u
  <1>12. \A n \in 0..Len(s) : u[n] = next(u, n)
    BY <1>11 DEF Multiplies, first
  <1>13. u = [n \in 0..Len(s) |-> u[n]]
    <2>1. u = [n \in 0..Len(s) |-> next(u, n)]
      BY <1>11 DEF Multiplies, first
    <2> HIDE DEF next
    <2> QED BY <2>1
  <1>14. u[0] = first /\ \A n \in 1..Len(s) : u[n] = Multiplied(u[n - 1], s[n])
    <2>1. 0 \in 0..Len(s) /\ \A n \in 1..Len(s) : n \in 0..Len(s) /\ n # 0
      BY <1>1
    <2> QED BY <1>12, <2>1
  <1> DEFINE P == {n \in Nat : n <= Len(s) => u[n] \in Partial}
  <1>15. 0 \in P
    BY <1>2, <1>14
  <1>16. ASSUME NEW n \in P PROVE n + 1 \in P
    <2> SUFFICES ASSUME n + 1 <= Len(s) PROVE u[n + 1] \in Partial
      OBVIOUS
    <2>1. n + 1 \in 1..Len(s) /\ (n + 1) - 1 = n /\ u[n] \in Partial
      BY <1>1
    <2>2. u[n + 1] = Multiplied(u[n], s[n + 1]) /\ s[n + 1] \in 0..57
      BY <1>1, <1>14, <2>1
    <2>3. u[n] \in Partial
      BY <2>1
    <2>4. Multiplied(u[n], s[n + 1]) \in Partial
      BY <2>2, <2>3, MultipliedType
    <2> QED BY <2>2, <2>4, Zenon
  <1>17. P = Nat
    <2>1. P \in SUBSET Nat
      OBVIOUS
    <2> HIDE DEF P
    <2> QED BY <1>15, <1>16, <2>1, SetInduction
  <1>18. \A n \in 0..Len(s) : u[n] \in Partial
    BY <1>1, <1>17
  <1> QED BY <1>13, <1>14, <1>18 DEF u, first

\* What moves from the carry to the digit is kept in the sum.
Kept(d, carry, r, c, k, x) ==
    (x + r * k) + c * (58 * k) = x + carry * k + 256 * (d * k)

\* Splitting a sum into digit and carry keeps the number.
LEMMA CarryingKeepsWorth ==
    ASSUME NEW d \in 0..57, NEW carry \in 0..255, NEW r, NEW c,
           Splits(d * 256 + carry, r, c), NEW k \in Nat, NEW x \in Nat
    PROVE  Kept(d, carry, r, c, k, x)
  <1>1. /\ d \in Nat /\ carry \in Nat /\ r \in Nat /\ c \in Nat
        /\ d * 256 + carry = 58 * c + r
    BY DEF Splits
  <1>2. (58 * c + r) * k = c * (58 * k) + r * k
    BY <1>1
  <1>3. (d * 256 + carry) * k = 256 * (d * k) + carry * k
    BY <1>1
  <1> DEFINE rk == r * k
             ck == c * (58 * k)
             ak == carry * k
             dk == d * k
  <1>4. rk \in Nat /\ ck \in Nat /\ ak \in Nat /\ dk \in Nat
    BY <1>1, Multiples
  <1>5. ck + rk = 256 * dk + ak
    BY <1>1, <1>2, <1>3
  <1> HIDE DEF rk, ck, ak, dk
  <1>6. (x + rk) + ck = x + ak + 256 * dk
    BY <1>4, <1>5
  <1> QED BY <1>6 DEF rk, ck, ak, dk, Kept

\* What came out and the carry are worth total after n digits.
WorthAfter(acc, q, n, total) ==
    \E x : x \in Nat /\ IsWorth(acc.out, q, x) /\ x + acc.carry * q[n] = total

GrownWorth(acc, q, n, total, d) == WorthAfter(acc, q, n + 1, total + 256 * (d * q[n]))

\* One digit more of the product.
LEMMA MultipliedWorth ==
    ASSUME NEW N \in Nat, NEW q, Powers(58, N, q), NEW n \in Nat, n + 1 <= N,
           NEW acc \in Partial, Len(acc.out) = n, NEW d \in 0..57,
           NEW total \in Nat, WorthAfter(acc, q, n, total)
    PROVE  /\ Len(Multiplied(acc, d).out) = n + 1
           /\ GrownWorth(Multiplied(acc, d), q, n, total, d)
  <1>1. PICK x \in Nat : IsWorth(acc.out, q, x) /\ x + acc.carry * q[n] = total
    BY DEF WorthAfter
  <1> DEFINE next == Multiplied(acc, d)
  <1>2. acc.out \in Seq(0..57) /\ acc.carry \in 0..255
    BY DEF Partial
  <1>3. PICK r, c : /\ Splits(d * 256 + acc.carry, r, c)
                    /\ next = [out |-> Append(acc.out, r), carry |-> c]
    BY MultipliedIs, Zenon
  <1>4. r \in 0..57 /\ c \in 0..255
    BY <1>3 DEF Splits
  <1>5. next.out = Append(acc.out, r) /\ next.carry = c
    BY <1>3
  <1>6. next \in Partial /\ Len(next.out) = n + 1
    BY MultipliedType
  <1> DEFINE y == x + r * q[n]
  <1>7. q[n] \in Nat /\ q[n + 1] = 58 * q[n]
    <2>1. n \in 0..N /\ n + 1 \in 1..N /\ (n + 1) - 1 = n
      OBVIOUS
    <2>2. q \in [0..N -> Nat] /\ \A m \in 1..N : q[m] = 58 * q[m - 1]
      BY DEF Powers
    <2> QED BY <2>1, <2>2
  <1> HIDE DEF next
  <1>8. IsWorth(next.out, q, y)
    <2>1. Len(acc.out) <= N
      OBVIOUS
    <2>2. IsWorth(Append(acc.out, r), q, x + r * q[Len(acc.out)])
      BY <1>2, <1>4, <1>1, <2>1, WorthOfOneMore
    <2> QED BY <1>5, <2>2
  <1>9. y \in Nat
    <2>1. r \in Nat
      BY <1>4
    <2>2. r * q[n] \in Nat
      BY <1>7, <2>1, Multiples
    <2> QED BY <1>1, <2>2
  <1>10. y + c * q[n + 1] = total + 256 * (d * q[n])
    <2>1. Kept(d, acc.carry, r, c, q[n], x)
      BY <1>2, <1>3, <1>7, CarryingKeepsWorth
    <2> QED BY <1>7, <1>1, <2>1 DEF Kept
  <1> HIDE DEF y
  <1> QED BY <1>5, <1>6, <1>8, <1>9, <1>10 DEF next, WorthAfter, GrownWorth

\* After n digits, what came out and the carry are worth 256 times those digits and the
\* byte.
LEMMA ProductWorth ==
    ASSUME NEW s \in Seq(0..57), NEW byte \in 0..255,
           NEW N \in Nat, NEW q, Powers(58, N, q), Len(s) <= N, NEW v, IsWorth(s, q, v)
    PROVE  LET end == Product(s, byte)[Len(s)] IN
           /\ end \in Partial /\ Len(end.out) = Len(s)
           /\ WorthAfter(end, q, Len(s), 256 * v + byte)
  <1> DEFINE u == Product(s, byte)
  <1>1. /\ u \in [0..Len(s) -> Partial] /\ u[0] = [out |-> <<>>, carry |-> byte]
        /\ \A n \in 1..Len(s) : u[n] = Multiplied(u[n - 1], s[n])
    BY ProductExists
  <1> HIDE DEF u
  <1>2. Len(s) \in Nat /\ \A n \in 1..Len(s) : s[n] \in 0..57
    BY LenProperties, ElementOfSeq
  <1>3. PICK w : Weighs(s, q, w) /\ w[Len(s)] = v
    BY DEF IsWorth
  <1>4. /\ w[0] = 0 /\ \A n \in 0..Len(s) : w[n] \in Nat
        /\ \A n \in 1..Len(s) : w[n] = w[n - 1] + s[n] * q[n - 1]
    BY <1>3 DEF Weighs
  <1>5. /\ q[0] = 1 /\ \A n \in 0..N : q[n] \in Nat
        /\ \A n \in 1..N : q[n] = 58 * q[n - 1]
    BY DEF Powers
  <1> DEFINE Right(n) == Len(u[n].out) = n /\ WorthAfter(u[n], q, n, 256 * w[n] + byte)
             P == {n \in Nat : n <= Len(s) => Right(n)}
  <1>6. 0 \in P
    <2>1. u[0].out = <<>> /\ u[0].carry = byte
      BY <1>1
    <2>2. IsWorth(u[0].out, q, 0) /\ Len(u[0].out) = 0
      BY <2>1, NothingIsWorthZero
    <2>3. 0 + u[0].carry * q[0] = 256 * w[0] + byte
      BY <1>4, <1>5, <2>1
    <2> QED BY <2>2, <2>3 DEF WorthAfter
  <1>7. ASSUME NEW n \in P PROVE n + 1 \in P
    <2> SUFFICES ASSUME n + 1 <= Len(s) PROVE Right(n + 1)
      OBVIOUS
    <2>1. /\ n + 1 \in 1..Len(s) /\ (n + 1) - 1 = n /\ n \in 0..Len(s) /\ Right(n)
          /\ n \in 0..N /\ n + 1 \in 1..N /\ n \in Nat
      BY <1>2
    <2>2. u[n] \in Partial /\ s[n + 1] \in 0..57
      BY <1>1, <1>2, <2>1
    <2>3. q[n] \in Nat /\ w[n] \in Nat /\ w[n + 1] = w[n] + s[n + 1] * q[n]
      BY <1>4, <1>5, <2>1
    <2>4. Len(u[n].out) = n /\ n + 1 <= N
      BY <2>1
    <2>5. PICK total \in Nat : total = 256 * w[n] + byte
      <3>1. byte \in Nat
        BY SmallNumbers
      <3> QED BY <2>3, <3>1
    <2>6. WorthAfter(u[n], q, n, total)
      BY <2>1, <2>5
    <2> DEFINE next == Multiplied(u[n], s[n + 1])
    <2>7. /\ Len(next.out) = n + 1
          /\ WorthAfter(next, q, n + 1, total + 256 * (s[n + 1] * q[n]))
      <3> HIDE DEF Right, P
      <3>1. n \in Nat /\ total \in Nat
        BY <2>1, <2>5
      <3>2. PICK acc \in Partial, d \in 0..57 : acc = u[n] /\ d = s[n + 1]
        BY <2>2
      <3>3. acc \in Partial /\ d \in 0..57 /\ N \in Nat /\ Powers(58, N, q)
        BY <3>2
      <3>4. \A m, t \in Nat :
               m + 1 <= N /\ Len(acc.out) = m /\ WorthAfter(acc, q, m, t) =>
                   /\ Len(Multiplied(acc, d).out) = m + 1
                   /\ GrownWorth(Multiplied(acc, d), q, m, t, d)
        BY <3>3, MultipliedWorth, Zenon
      <3>5. n + 1 <= N /\ Len(acc.out) = n /\ WorthAfter(acc, q, n, total)
        BY <2>4, <2>6, <3>2
      <3>6. Len(Multiplied(acc, d).out) = n + 1 /\ GrownWorth(Multiplied(acc, d), q, n, total, d)
        BY <3>1, <3>4, <3>5, Zenon
      <3> QED BY <3>2, <3>6 DEF GrownWorth
    <2>8. u[n + 1] = next
      BY <1>1, <2>1
    <2>9. total + 256 * (s[n + 1] * q[n]) = 256 * w[n + 1] + byte
      <3> DEFINE more == s[n + 1] * q[n]
      <3>1. more \in Nat
        <4>1. s[n + 1] \in Nat /\ q[n] \in Nat
          BY <2>2, <2>3, SmallNumbers
        <4> QED BY <4>1, Multiples
      <3>2. w[n + 1] = w[n] + more
        BY <2>3
      <3> HIDE DEF more
      <3>3. byte \in Nat
        BY SmallNumbers
      <3>4. PICK a \in Nat : a = w[n]
        BY <2>3
      <3>5. w[n + 1] = a + more /\ total = 256 * a + byte
        BY <2>5, <3>2, <3>4
      <3>6. total + 256 * more = 256 * w[n + 1] + byte
        BY <3>1, <3>3, <3>5
      <3> QED BY <3>6 DEF more
    <2> HIDE DEF next
    <2> QED BY <2>7, <2>8, <2>9
  <1>8. P = Nat
    <2>1. P \in SUBSET Nat
      OBVIOUS
    <2> HIDE DEF P
    <2> QED BY <1>6, <1>7, <2>1, SetInduction
  <1>9. Right(Len(s)) /\ u[Len(s)] \in Partial
    BY <1>1, <1>2, <1>8
  <1> QED BY <1>3, <1>9 DEF u

\* The digits that a carry becomes.
Carries(c, h) == h = [k \in 0..c |-> IF k = 0 THEN <<>> ELSE <<k % 58>> \o h[k \div 58]]
Carried(c) == CHOOSE h : Carries(c, h)

\* PushCarry appends the digits of the carry.
LEMMA PushCarryIsCarried ==
    ASSUME NEW s, NEW c PROVE Keys!PushCarry(s, c) = s \o Carried(c)[c]
  BY DEF Keys!PushCarry, Carried, Carries

\* A carry is at most two digits.
LEMMA SmallQuotients ==
    /\ \A k \in 0..255 : k \div 58 \in 0..4 /\ k % 58 \in 0..57 /\ k = 58 * (k \div 58) + (k % 58)
    /\ \A k \in 0..57 : k \div 58 = 0 /\ k % 58 = k
    /\ \A k \in 58..255 : k \div 58 \in 1..4
  OBVIOUS

\* What two sequences are, one after the other.
Joined(S, s, t) ==
    /\ s \o t \in Seq(S) /\ Len(s \o t) = Len(s) + Len(t)
    /\ \A i \in 1 .. Len(s) + Len(t) :
          (s \o t)[i] = IF i <= Len(s) THEN s[i] ELSE t[i - Len(s)]

\* What two sequences are in a row.
LEMMA JoinedSequences ==
    ASSUME NEW S, NEW s \in Seq(S), NEW t \in Seq(S) PROVE Joined(S, s, t)
  BY ConcatProperties DEF Joined

\* Two sequences of one.
LEMMA TwoInARow == ASSUME NEW x, NEW y PROVE <<x>> \o <<y>> = <<x, y>>
  <1> DEFINE one == <<x>>
             other == <<y>>
             both == <<x, y>>
  <1>1. one \in Seq({x, y}) /\ other \in Seq({x, y}) /\ both \in Seq({x, y})
    OBVIOUS
  <1>2. /\ Len(one) = 1 /\ Len(other) = 1 /\ Len(both) = 2
        /\ one[1] = x /\ other[1] = y /\ both[1] = x /\ both[2] = y
    OBVIOUS
  <1> HIDE DEF one, other, both
  <1> DEFINE all == one \o other
  <1>3. /\ all \in Seq({x, y}) /\ Len(all) = 2
        /\ \A i \in 1..2 : all[i] = IF i <= 1 THEN one[i] ELSE other[i - 1]
    <2>1. Joined({x, y}, one, other)
      BY <1>1, JoinedSequences
    <2> QED BY <1>2, <2>1 DEF Joined
  <1>4. \A i \in 1..2 : i = 1 \/ i = 2
    OBVIOUS
  <1>5. \A i \in 1..2 : all[i] = both[i]
    BY <1>2, <1>3, <1>4
  <1> HIDE DEF all
  <1>6. all = both
    BY <1>1, <1>2, <1>3, <1>5, SeqEqual
  <1> QED BY <1>6 DEF one, other, both, all

\* The digits of a carry: none, one or two.
LEMMA CarriedIs ==
    ASSUME NEW c \in 0..255
    PROVE  /\ c = 0 => Carried(c)[c] = <<>>
           /\ c \in 1..57 => Carried(c)[c] = <<c>>
           /\ c \in 58..255 => Carried(c)[c] = <<c % 58, c \div 58>>
  <1> DEFINE g(k) == IF k = 0 THEN <<>> ELSE IF k < 58 THEN <<k>> ELSE <<k % 58, k \div 58>>
             f == [k \in 0..c |-> g(k)]
             next(h, k) == IF k = 0 THEN <<>> ELSE <<k % 58>> \o h[k \div 58]
  <1>1. \A k \in 0..c : k \in 0..255 /\ k \div 58 \in 0..c
    OBVIOUS
  <1>2. \A k \in 0..c : f[k] = g(k)
    OBVIOUS
  <1>3. ASSUME NEW k \in 0..c PROVE g(k) = next(f, k)
    <2>1. f[k \div 58] = g(k \div 58)
      BY <1>1
    <2>2. CASE k = 0
      BY <2>2
    <2>3. CASE k \in 1..57
      <3>1. k \div 58 = 0 /\ k % 58 = k /\ k # 0 /\ k < 58
        BY <2>3
      <3>2. next(f, k) = <<k>> \o <<>>
        BY <2>1, <3>1
      <3>3. g(k) = <<k>>
        BY <3>1
      <3>4. <<k>> \o <<>> = <<k>>
        OBVIOUS
      <3> HIDE DEF f, g, next
      <3> QED BY <3>2, <3>3, <3>4
    <2>4. CASE k \in 58..255
      <3>1. k \div 58 \in 1..4 /\ k # 0 /\ ~ k < 58
        BY <2>4
      <3>2. g(k \div 58) = <<k \div 58>>
        BY <3>1
      <3>3. next(f, k) = <<k % 58>> \o <<k \div 58>>
        BY <2>1, <3>1, <3>2
      <3>4. g(k) = <<k % 58, k \div 58>>
        BY <3>1
      <3> HIDE DEF g, next, f
      <3> QED BY <3>3, <3>4
    <2> QED BY <1>1, <2>2, <2>3, <2>4
  <1>4. Carries(c, f)
    <2>1. f = [k \in 0..c |-> next(f, k)]
      <3> HIDE DEF next, g
      <3> QED BY <1>3
    <2> QED BY <2>1 DEF Carries
  <1>5. Carries(c, Carried(c))
    <2> HIDE DEF f
    <2> QED BY <1>4 DEF Carried
  <1> DEFINE h == Carried(c)
  <1> HIDE DEF h, f
  <1>6. \A k \in 0..c : h[k] = next(h, k)
    BY <1>5 DEF Carries, h
  <1>7. h[0] = <<>>
    <2>1. 0 \in 0..c
      OBVIOUS
    <2> QED BY <1>6, <2>1
  <1>8. ASSUME NEW k \in 1..57, k <= c PROVE h[k] = <<k>>
    <2>1. k \in 0..c /\ k # 0 /\ k \in 0..57
      BY <1>8
    <2>2. k \in 0..c /\ k # 0 /\ k \div 58 = 0 /\ k % 58 = k
      BY <2>1, SmallQuotients, Zenon
    <2>3. h[k] = <<k>> \o <<>>
      BY <1>6, <1>7, <2>2
    <2> QED BY <2>3
  <1>9. CASE c \in 58..255
    <2>1. c \in 0..c /\ c # 0 /\ c \div 58 \in 1..57 /\ c \div 58 <= c
      BY <1>9
    <2>2. h[c] = <<c % 58>> \o h[c \div 58]
      BY <1>6, <2>1
    <2>3. h[c \div 58] = <<c \div 58>>
      BY <1>8, <2>1
    <2>4. c % 58 \in 0..57
      BY SmallQuotients
    <2>5. h[c] = <<c % 58, c \div 58>>
      BY <2>2, <2>3, TwoInARow, Zenon
    <2> QED BY <1>9, <2>5 DEF h
  <1>10. c \in 1..57 => h[c] = <<c>>
    BY <1>8
  <1>11. c = 0 => h[c] = <<>>
    BY <1>7
  <1> QED BY <1>9, <1>10, <1>11 DEF h

\* So PushCarry appends none, one or two.
LEMMA PushCarryIs ==
    ASSUME NEW s \in Seq(0..57), NEW c \in 0..255
    PROVE  /\ c = 0 => Keys!PushCarry(s, c) = s
           /\ c \in 1..57 => Keys!PushCarry(s, c) = Append(s, c)
           /\ c \in 58..255 =>
                Keys!PushCarry(s, c) = Append(Append(s, c % 58), c \div 58)
  <1>1. Keys!PushCarry(s, c) = s \o Carried(c)[c]
    BY PushCarryIsCarried
  <1>2. s \o <<>> = s
    OBVIOUS
  <1>3. ASSUME NEW x \in 0..57 PROVE s \o <<x>> = Append(s, x)
    OBVIOUS
  <1>4. ASSUME NEW x \in 0..57, NEW y \in 0..57 PROVE s \o <<x, y>> = Append(Append(s, x), y)
    OBVIOUS
  <1>5. ASSUME c = 0 PROVE Keys!PushCarry(s, c) = s
    BY <1>1, <1>2, <1>5, CarriedIs
  <1>6. ASSUME c \in 1..57 PROVE Keys!PushCarry(s, c) = Append(s, c)
    <2>1. Carried(c)[c] = <<c>>
      BY <1>6, CarriedIs, Zenon
    <2>2. c \in 0..57
      BY <1>6
    <2> QED BY <1>1, <1>3, <2>1, <2>2
  <1>7. ASSUME c \in 58..255
        PROVE  Keys!PushCarry(s, c) = Append(Append(s, c % 58), c \div 58)
    <2>1. c % 58 \in 0..57 /\ c \div 58 \in 0..57
      BY <1>7, SmallQuotients
    <2>2. Carried(c)[c] = <<c % 58, c \div 58>>
      BY <1>7, CarriedIs
    <2> QED BY <1>1, <1>4, <2>1, <2>2
  <1> QED BY <1>5, <1>6, <1>7, Zenon

\* The digits s, without a zero at the top, are the numeral of v.
Numeral(s, q, v) ==
    /\ s \in Seq(0..57) /\ v \in Nat /\ IsWorth(s, q, v)
    /\ s # <<>> => s[Len(s)] # 0

\* The number after one byte more.
NumeralOfOneMore(s, q, v, byte) == Numeral(s, q, 256 * v + byte)

\* What a digit more makes of digits worth v.
WorthMore(t, q, n, v, d) == \E x \in Nat : x = v + d * q[n] /\ IsWorth(t, q, x)

AppendedIs(s, q, v, d) ==
    LET t == Append(s, d) IN
    /\ t \in Seq(0..57) /\ Len(t) = Len(s) + 1 /\ t # <<>> /\ t[Len(t)] = d
    /\ WorthMore(t, q, Len(s), v, d)

\* A digit other than zero on top makes a numeral of a numeral.
LEMMA AppendedNumeral ==
    ASSUME NEW N \in Nat, NEW q, Powers(58, N, q), NEW s \in Seq(0..57), Len(s) + 1 <= N,
           NEW v \in Nat, IsWorth(s, q, v), NEW d \in 0..57
    PROVE  AppendedIs(s, q, v, d)
  <1> DEFINE t == Append(s, d)
  <1>1. t \in Seq(0..57) /\ Len(t) = Len(s) + 1 /\ t[Len(s) + 1] = d /\ Len(s) \in Nat
    BY AppendProperties, LenProperties
  <1>2. t # <<>> /\ t[Len(t)] = d
    BY <1>1
  <1>3. IsWorth(t, q, v + d * q[Len(s)])
    <2>1. Len(s) <= N
      BY <1>1
    <2> QED BY <2>1, WorthOfOneMore
  <1>4. v + d * q[Len(s)] \in Nat
    <2>1. Len(s) \in 0..N
      BY <1>1
    <2>2. q \in [0..N -> Nat]
      BY DEF Powers
    <2>3. q[Len(s)] \in Nat /\ d \in Nat
      BY <2>1, <2>2
    <2>4. d * q[Len(s)] \in Nat
      BY <2>3, Multiples
    <2> QED BY <2>4
  <1> QED BY <1>1, <1>2, <1>3, <1>4 DEF WorthMore, AppendedIs

\* A carry is worth what it was when it is pushed.
LEMMA PushedWorth ==
    ASSUME NEW N \in Nat, NEW q, Powers(58, N, q), NEW acc \in Partial, Len(acc.out) + 2 <= N,
           NEW total \in Nat, WorthAfter(acc, q, Len(acc.out), total)
    PROVE  LET r == Keys!PushCarry(acc.out, acc.carry) IN
           /\ r \in Seq(0..57) /\ Len(r) <= Len(acc.out) + 2
           /\ IsWorth(r, q, total)
           /\ acc.carry # 0 => r # <<>> /\ r[Len(r)] # 0
           /\ acc.carry = 0 => r = acc.out
  <1>1. SUFFICES ASSUME NEW s, NEW c, NEW r,
                        s = acc.out /\ c = acc.carry /\ r = Keys!PushCarry(s, c)
                 PROVE  /\ r \in Seq(0..57) /\ Len(r) <= Len(s) + 2
                        /\ IsWorth(r, q, total)
                        /\ c # 0 => r # <<>> /\ r[Len(r)] # 0
                        /\ c = 0 => r = s
    OBVIOUS
  <1>2. s \in Seq(0..57) /\ c \in 0..255
    BY <1>1 DEF Partial
  <1>3. Len(s) \in Nat /\ Len(s) + 2 <= N
    BY <1>1, <1>2, LenProperties
  <1>4. PICK x \in Nat : IsWorth(s, q, x) /\ x + c * q[Len(s)] = total
    BY <1>1 DEF WorthAfter
  <1>5. q[Len(s)] \in Nat /\ q[Len(s) + 1] = 58 * q[Len(s)]
    <2>1. Len(s) \in 0..N /\ Len(s) + 1 \in 1..N /\ (Len(s) + 1) - 1 = Len(s)
      BY <1>3
    <2> QED BY <2>1 DEF Powers
  <1>6. ASSUME c = 0
        PROVE  r \in Seq(0..57) /\ Len(r) <= Len(s) + 2 /\ IsWorth(r, q, total) /\ r = s
    <2>1. r = s
      BY <1>1, <1>2, <1>6, PushCarryIs
    <2>2. x = total
      BY <1>4, <1>5, <1>6
    <2> QED BY <1>2, <1>3, <1>4, <2>1, <2>2
  <1>7. ASSUME c \in 1..57
        PROVE  /\ r \in Seq(0..57) /\ Len(r) <= Len(s) + 2 /\ IsWorth(r, q, total)
               /\ r # <<>> /\ r[Len(r)] # 0
    <2>1. r = Append(s, c)
      BY <1>1, <1>2, <1>7, PushCarryIs
    <2>2. c \in 0..57 /\ c # 0 /\ Len(s) + 1 <= N
      BY <1>3, <1>7
    <2> DEFINE t == Append(s, c)
    <2>3. /\ t \in Seq(0..57) /\ Len(t) = Len(s) + 1 /\ t # <<>> /\ t[Len(t)] = c
          /\ WorthMore(t, q, Len(s), x, c)
      <3>1. /\ Len(s) + 1 <= N /\ s \in Seq(0..57) /\ IsWorth(s, q, x) /\ x \in Nat
            /\ c \in 0..57
        BY <1>2, <1>4, <2>2
      <3>2. AppendedIs(s, q, x, c)
        BY <3>1, AppendedNumeral, Zenon
      <3> QED BY <3>2 DEF AppendedIs
    <2>4. r = t
      BY <2>1
    <2> HIDE DEF t
    <2>5. IsWorth(r, q, total)
      BY <1>4, <2>3, <2>4 DEF WorthMore
    <2> QED BY <1>3, <2>2, <2>3, <2>5, <2>4
  <1>8. ASSUME c \in 58..255
        PROVE  /\ r \in Seq(0..57) /\ Len(r) <= Len(s) + 2 /\ IsWorth(r, q, total)
               /\ r # <<>> /\ r[Len(r)] # 0
    <2>1. PICK low, high : low = c % 58 /\ high = c \div 58
      OBVIOUS
    <2>2. /\ low \in 0..57 /\ high \in 1..57 /\ high \in 0..57 /\ high # 0
          /\ c = 58 * high + low
      BY <1>2, <1>8, <2>1, SmallQuotients
    <2>3. r = Append(Append(s, low), high)
      <3>1. Keys!PushCarry(s, c) = Append(Append(s, c % 58), c \div 58)
        BY <1>2, <1>8, PushCarryIs, Zenon
      <3> QED BY <1>1, <2>1, <3>1, Zenon
    <2> DEFINE t == Append(s, low)
    <2>4. /\ t \in Seq(0..57) /\ Len(t) = Len(s) + 1
          /\ WorthMore(t, q, Len(s), x, low)
      <3>1. /\ Len(s) + 1 <= N /\ s \in Seq(0..57) /\ IsWorth(s, q, x) /\ x \in Nat
            /\ low \in 0..57
        BY <1>2, <1>3, <1>4, <2>2
      <3>2. AppendedIs(s, q, x, low)
        BY <3>1, AppendedNumeral, Zenon
      <3> QED BY <3>2 DEF AppendedIs
    <2> HIDE DEF t
    <2>5. PICK y \in Nat : y = x + low * q[Len(s)] /\ IsWorth(t, q, y)
      BY <2>4 DEF WorthMore
    <2>6. r = Append(t, high) /\ Len(t) + 1 <= N
      BY <1>3, <2>3, <2>4 DEF t
    <2> DEFINE t2 == Append(t, high)
    <2>7. /\ t2 \in Seq(0..57) /\ Len(t2) = Len(t) + 1 /\ t2 # <<>> /\ t2[Len(t2)] = high
          /\ WorthMore(t2, q, Len(t), y, high)
      <3>1. /\ Len(t) + 1 <= N /\ t \in Seq(0..57) /\ IsWorth(t, q, y) /\ y \in Nat
            /\ high \in 0..57
        BY <2>2, <2>4, <2>5, <2>6
      <3>2. AppendedIs(t, q, y, high)
        BY <3>1, AppendedNumeral, Zenon
      <3> QED BY <3>2 DEF AppendedIs
    <2> HIDE DEF t2
    <2>8. r = t2
      BY <2>6 DEF t2
    <2>9. PICK z \in Nat : z = y + high * q[Len(t)] /\ IsWorth(r, q, z)
      BY <2>7, <2>8 DEF WorthMore
    <2>10. z = total
      <3>1. PICK k \in Nat : k = q[Len(s)]
        BY <1>5
      <3>2. q[Len(t)] = 58 * k
        BY <1>5, <2>4, <3>1
      <3>3. low \in Nat /\ high \in Nat
        BY <2>2
      <3>4. z = x + low * k + high * (58 * k) /\ total = x + (58 * high + low) * k
        BY <1>4, <2>2, <2>5, <2>9, <3>1, <3>2
      <3>5. (58 * high + low) * k = high * (58 * k) + low * k
        BY <3>1, <3>3
      <3>6. low * k \in Nat /\ high * (58 * k) \in Nat
        BY <3>1, <3>3, Multiples
      <3> QED BY <3>4, <3>5, <3>6
    <2> QED BY <1>3, <2>2, <2>4, <2>7, <2>9, <2>10, <2>8
  <1>9. c = 0 \/ c \in 1..57 \/ c \in 58..255
    BY <1>2
  <1>10. /\ r \in Seq(0..57) /\ Len(r) <= Len(s) + 2 /\ IsWorth(r, q, total)
         /\ c # 0 => r # <<>> /\ r[Len(r)] # 0
         /\ c = 0 => r = s
    <2>1. ASSUME c \in 1..57 \/ c \in 58..255 PROVE c # 0
      BY <1>2, <2>1
    <2> QED BY <1>6, <1>7, <1>8, <1>9, <2>1, Zenon
  <1> QED BY <1>10

\* A byte more makes the numeral of 256 times the number and the byte.
LEMMA AddByteIsNumeral ==
    ASSUME NEW N \in Nat, NEW q, Powers(58, N, q), NEW s, NEW v, Numeral(s, q, v),
           Len(s) + 2 <= N, NEW byte \in 0..255
    PROVE  /\ Len(Keys!AddByte(s, byte)) <= Len(s) + 2
           /\ NumeralOfOneMore(Keys!AddByte(s, byte), q, v, byte)
  <1> DEFINE end == Product(s, byte)[Len(s)]
             r == Keys!PushCarry(end.out, end.carry)
  <1>1. s \in Seq(0..57) /\ v \in Nat /\ IsWorth(s, q, v) /\ Len(s) \in Nat
        /\ (s # <<>> => s[Len(s)] # 0)
    BY LenProperties DEF Numeral
  <1>2. PICK total \in Nat : total = 256 * v + byte
    <2>1. byte \in Nat
      BY SmallNumbers
    <2> QED BY <1>1, <2>1
  <1>3. end \in Partial /\ Len(end.out) = Len(s) /\ WorthAfter(end, q, Len(s), total)
    <2>1. Len(s) <= N
      BY <1>1
    <2>2. end \in Partial /\ Len(end.out) = Len(s) /\ WorthAfter(end, q, Len(s), 256 * v + byte)
      BY <1>1, <2>1, ProductWorth
    <2> HIDE DEF end
    <2> QED BY <1>2, <2>2
  <1>4. Keys!AddByte(s, byte) = r
    BY AddByteIsProduct
  <1> HIDE DEF end
  <1>5. /\ r \in Seq(0..57) /\ Len(r) <= Len(s) + 2 /\ IsWorth(r, q, total)
        /\ end.carry # 0 => r # <<>> /\ r[Len(r)] # 0
        /\ end.carry = 0 => r = end.out
    <2>1. Len(end.out) + 2 <= N /\ WorthAfter(end, q, Len(end.out), total)
      BY <1>3
    <2>2. /\ r \in Seq(0..57) /\ Len(r) <= Len(end.out) + 2 /\ IsWorth(r, q, total)
          /\ end.carry # 0 => r # <<>> /\ r[Len(r)] # 0
          /\ end.carry = 0 => r = end.out
      BY <1>3, <2>1, PushedWorth
    <2> QED BY <1>3, <2>2
  <1> HIDE DEF r
  <1>6. ASSUME r # <<>> PROVE r[Len(r)] # 0
    <2>1. CASE end.carry # 0
      BY <1>5, <2>1
    <2>2. CASE end.carry = 0
      <3>1. Len(r) = Len(s)
        BY <1>3, <1>5, <2>2
      <3>2. Len(s) # 0 /\ s # <<>>
        BY <1>1, <1>5, <1>6, <3>1, EmptySeq
      <3>3. SUFFICES ASSUME r[Len(r)] = 0 PROVE FALSE
        OBVIOUS
      <3>4. PICK unit \in Nat, top \in Nat : unit = q[Len(s) - 1] /\ top = s[Len(s)] /\ top # 0
        <4>1. Len(s) - 1 \in 0..N /\ Len(s) \in 1..Len(s)
          BY <1>1, <3>2
        <4>2. q[Len(s) - 1] \in Nat
          BY <4>1 DEF Powers
        <4>3. s[Len(s)] \in 0..57
          BY <1>1, <4>1, ElementOfSeq
        <4>4. s[Len(s)] \in Nat
          BY <4>3, SmallNumbers, Zenon
        <4> QED BY <1>1, <3>2, <4>2, <4>4
      <3>5. top * unit <= v
        <4>1. Len(s) <= N
          BY <1>1
        <4> QED BY <1>1, <3>2, <3>4, <4>1, WorthIsBounded
      <3>6. total < (0 + 1) * unit
        <4>1. Len(r) <= N
          BY <1>1, <3>1
        <4> QED BY <1>5, <1>6, <3>1, <3>3, <3>4, <4>1, WorthIsBounded
      <3>7. unit <= top * unit
        <4>1. 1 <= top
          BY <3>4
        <4>2. 1 * unit <= top * unit
          BY <3>4, <4>1, Multiples
        <4> QED BY <3>4, <4>2
      <3>8. top * unit \in Nat
        BY <3>4, Multiples
      <3>9. unit <= v
        BY <1>1, <3>4, <3>5, <3>7, <3>8
      <3>10. total < unit
        BY <3>4, <3>6
      <3>11. v <= total
        <4>1. byte \in Nat
          BY SmallNumbers
        <4> QED BY <1>1, <1>2, <4>1
      <3> QED BY <1>1, <3>4, <3>9, <3>10, <3>11
    <2> QED BY <2>1, <2>2
  <1>7. Numeral(r, q, total)
    BY <1>5, <1>6 DEF Numeral
  <1> QED BY <1>2, <1>4, <1>5, <1>7 DEF NumeralOfOneMore

\* AddByte makes digits of digits.
LEMMA AddByteType ==
    ASSUME NEW s \in Seq(0..57), NEW byte \in 0..255
    PROVE  Keys!AddByte(s, byte) \in Seq(0..57)
  <1> DEFINE end == Product(s, byte)[Len(s)]
             out == end.out
             c == end.carry
  <1>1. end \in Partial
    <2>1. Len(s) \in 0..Len(s)
      BY LenProperties
    <2>2. Product(s, byte) \in [0..Len(s) -> Partial]
      BY ProductExists
    <2> QED BY <2>1, <2>2
  <1>2. Keys!AddByte(s, byte) = Keys!PushCarry(out, c)
    BY AddByteIsProduct
  <1> HIDE DEF end
  <1>3. out \in Seq(0..57) /\ c \in 0..255
    BY <1>1 DEF Partial
  <1> HIDE DEF out, c
  <1>4. CASE c = 0
    <2>1. Keys!PushCarry(out, c) = out
      BY <1>3, <1>4, PushCarryIs
    <2> QED BY <1>2, <1>3, <2>1
  <1>5. CASE c \in 1..57
    <2>1. c \in 0..57
      BY <1>5
    <2>2. Append(out, c) \in Seq(0..57)
      BY <1>3, <2>1, AppendProperties
    <2>3. Keys!PushCarry(out, c) = Append(out, c)
      BY <1>3, <1>5, PushCarryIs
    <2> QED BY <1>2, <2>2, <2>3
  <1>6. CASE c \in 58..255
    <2>1. c % 58 \in 0..57 /\ c \div 58 \in 0..57
      BY <1>6, SmallQuotients
    <2>2. Append(out, c % 58) \in Seq(0..57)
      BY <1>3, <2>1, AppendProperties
    <2>3. Append(Append(out, c % 58), c \div 58) \in Seq(0..57)
      BY <2>1, <2>2, AppendProperties
    <2>4. Keys!PushCarry(out, c) = Append(Append(out, c % 58), c \div 58)
      BY <1>3, <1>6, PushCarryIs
    <2> QED BY <1>2, <2>3, <2>4
  <1>7. c = 0 \/ c \in 1..57 \/ c \in 58..255
    BY <1>3
  <1> QED BY <1>4, <1>5, <1>6, <1>7

\* The first n bytes, the highest first, are the number b[n].
Reads(bytes, b) ==
    /\ b \in [0..Len(bytes) -> Nat] /\ b[0] = 0
    /\ \A n \in 1..Len(bytes) : b[n] = 256 * b[n - 1] + bytes[n]

Builds(bytes, u) ==
    u = [n \in 0..Len(bytes) |-> IF n = 0 THEN <<>> ELSE Keys!AddByte(u[n - 1], bytes[n])]
Built(bytes) == CHOOSE u : Builds(bytes, u)

\* Digits is what adding the bytes one by one builds.
LEMMA DigitsAreBuilt == ASSUME NEW bytes PROVE Keys!Digits(bytes) = Built(bytes)[Len(bytes)]
  BY DEF Keys!Digits, Built, Builds

\* The local function of Digits has the values its recursion gives.
LEMMA BuiltExists ==
    ASSUME NEW bytes \in Seq(0..255)
    PROVE  LET u == Built(bytes) IN
           u[0] = <<>> /\ \A n \in 1..Len(bytes) : u[n] = Keys!AddByte(u[n - 1], bytes[n])
  <1> DEFINE F == [n \in 1..Len(bytes) |-> [s \in Seq(0..57) |-> Keys!AddByte(s, bytes[n])]]
             next(g, n) == IF n = 0 THEN <<>> ELSE Keys!AddByte(g[n - 1], bytes[n])
  <1>1. Len(bytes) \in Nat /\ \A n \in 1..Len(bytes) : bytes[n] \in 0..255
    BY LenProperties, ElementOfSeq
  <1>2. <<>> \in Seq(0..57)
    OBVIOUS
  <1>3. F \in [1..Len(bytes) -> [Seq(0..57) -> Seq(0..57)]]
    BY <1>1, AddByteType
  <1>4. \A n \in 1..Len(bytes), s \in Seq(0..57) : F[n][s] = Keys!AddByte(s, bytes[n])
    OBVIOUS
  <1> HIDE DEF F
  <1>5. Recurs(Seq(0..57), <<>>, Len(bytes), F)
    BY <1>1, <1>2, <1>3, Recursion
  <1>6. PICK g \in [0..Len(bytes) -> Seq(0..57)] :
            g[0] = <<>> /\ \A n \in 1..Len(bytes) : g[n] = F[n][g[n - 1]]
    BY <1>5 DEF Recurs
  <1>7. ASSUME NEW n \in 0..Len(bytes) PROVE g[n] = next(g, n)
    <2>1. CASE n = 0
      BY <1>6, <2>1
    <2>2. CASE n # 0
      <3>1. n \in 1..Len(bytes) /\ n - 1 \in 0..Len(bytes)
        BY <1>1, <2>2
      <3>2. g[n - 1] \in Seq(0..57)
        BY <3>1
      <3>3. g[n] = Keys!AddByte(g[n - 1], bytes[n])
        BY <1>4, <1>6, <3>1, <3>2
      <3> QED BY <2>2, <3>3
    <2> QED BY <2>1, <2>2
  <1>8. g = [n \in 0..Len(bytes) |-> g[n]]
    OBVIOUS
  <1>9. Builds(bytes, g)
    <2>1. g = [n \in 0..Len(bytes) |-> next(g, n)]
      <3> HIDE DEF next
      <3> QED BY <1>7, <1>8
    <2> QED BY <2>1 DEF Builds
  <1> DEFINE u == Built(bytes)
  <1>10. Builds(bytes, u)
    BY <1>9 DEF Built
  <1> HIDE DEF u
  <1>11. \A n \in 0..Len(bytes) : u[n] = next(u, n)
    BY <1>10 DEF Builds
  <1>12. u[0] = <<>> /\ \A n \in 1..Len(bytes) : u[n] = Keys!AddByte(u[n - 1], bytes[n])
    <2>1. 0 \in 0..Len(bytes) /\ \A n \in 1..Len(bytes) : n \in 0..Len(bytes) /\ n # 0
      BY <1>1
    <2> QED BY <1>11, <2>1
  <1> QED BY <1>12 DEF u

\* The digits of any bytes are the numeral of their number.
LEMMA DigitsAreNumeral ==
    ASSUME NEW bytes \in Seq(0..255), NEW N \in Nat, NEW q, Powers(58, N, q),
           2 * Len(bytes) <= N, NEW b, Reads(bytes, b)
    PROVE  /\ Len(Keys!Digits(bytes)) <= 2 * Len(bytes)
           /\ Numeral(Keys!Digits(bytes), q, b[Len(bytes)])
  <1> DEFINE u == Built(bytes)
  <1>1. u[0] = <<>> /\ \A n \in 1..Len(bytes) : u[n] = Keys!AddByte(u[n - 1], bytes[n])
    BY BuiltExists
  <1>2. Keys!Digits(bytes) = u[Len(bytes)]
    BY DigitsAreBuilt
  <1> HIDE DEF u
  <1>3. Len(bytes) \in Nat /\ \A n \in 1..Len(bytes) : bytes[n] \in 0..255
    BY LenProperties, ElementOfSeq
  <1>4. /\ b[0] = 0 /\ \A n \in 0..Len(bytes) : b[n] \in Nat
        /\ \A n \in 1..Len(bytes) : b[n] = 256 * b[n - 1] + bytes[n]
    BY DEF Reads
  <1> DEFINE Right(n) == Len(u[n]) <= 2 * n /\ Numeral(u[n], q, b[n])
             P == {n \in Nat : n <= Len(bytes) => Right(n)}
  <1>5. 0 \in P
    <2>1. Numeral(<<>>, q, 0) /\ Len(<<>>) = 0
      BY NothingIsWorthZero DEF Numeral
    <2>2. Numeral(u[0], q, b[0]) /\ Len(u[0]) = 0
      BY <1>1, <1>4, <2>1
    <2> QED BY <2>2
  <1>6. ASSUME NEW n \in P PROVE n + 1 \in P
    <2> SUFFICES ASSUME n + 1 <= Len(bytes) PROVE Right(n + 1)
      OBVIOUS
    <2>1. /\ n + 1 \in 1..Len(bytes) /\ (n + 1) - 1 = n /\ n \in 0..Len(bytes)
          /\ n \in Nat /\ Right(n)
      BY <1>3
    <2>2. PICK s, v, byte : s = u[n] /\ v = b[n] /\ byte = bytes[n + 1]
      OBVIOUS
    <2>3. byte \in 0..255
      BY <1>3, <2>1, <2>2
    <2>4. Numeral(s, q, v) /\ Len(s) <= 2 * n
      BY <2>1, <2>2
    <2>5. Len(s) \in Nat /\ v \in Nat /\ Len(s) + 2 <= N
      BY <1>3, <2>1, <2>4, LenProperties DEF Numeral
    <2> DEFINE r == Keys!AddByte(s, byte)
    <2>6. Len(r) <= Len(s) + 2 /\ NumeralOfOneMore(r, q, v, byte)
      <3> HIDE DEF P, Right
      <3> QED BY <2>4, <2>5, <2>3, AddByteIsNumeral
    <2> HIDE DEF r
    <2>7. Numeral(r, q, 256 * v + byte) /\ Len(r) \in Nat
      BY <2>6, LenProperties DEF NumeralOfOneMore, Numeral
    <2>8. u[n + 1] = r /\ b[n + 1] = 256 * v + byte
      BY <1>1, <1>4, <2>1, <2>2 DEF r
    <2> QED BY <2>1, <2>4, <2>5, <2>6, <2>7, <2>8
  <1>7. P = Nat
    <2>1. P \in SUBSET Nat
      OBVIOUS
    <2> HIDE DEF P
    <2> QED BY <1>5, <1>6, <2>1, SetInduction
  <1>8. Right(Len(bytes))
    BY <1>3, <1>7
  <1> QED BY <1>2, <1>8

\* A table of powers, read with bounds in place of intervals.
LEMMA PowersAre ==
    ASSUME NEW b \in Nat, NEW N \in Nat, NEW q, Powers(b, N, q)
    PROVE  q[0] = 1 /\ \A n \in Nat : /\ n <= N => q[n] \in Nat
                                      /\ n + 1 <= N => q[n + 1] = b * q[n]
  <1>1. \A n \in Nat : /\ n <= N => n \in 0..N
                       /\ n + 1 <= N => n + 1 \in 1..N /\ (n + 1) - 1 = n
    OBVIOUS
  <1> QED BY <1>1 DEF Powers

\* Powers grow with the exponent.
LEMMA PowersGrow ==
    ASSUME NEW b \in Nat \ {0}, NEW N \in Nat, NEW q, Powers(b, N, q), NEW i \in Nat
    PROVE  \A j \in Nat : i <= j /\ j <= N => q[i] <= q[j]
  <1> DEFINE P == {k \in Nat : i + k <= N => q[i] <= q[i + k]}
  <1>1. 0 \in P
    BY PowersAre
  <1>2. ASSUME NEW k \in P PROVE k + 1 \in P
    <2> SUFFICES ASSUME i + (k + 1) <= N PROVE q[i] <= q[i + (k + 1)]
      OBVIOUS
    <2>1. k \in Nat /\ i + (k + 1) = (i + k) + 1 /\ i + k <= N /\ i <= N /\ (i + k) + 1 <= N
      OBVIOUS
    <2>2. q[i] <= q[i + k]
      BY <2>1
    <2> HIDE DEF P
    <2>3. PICK m \in Nat : m = i + k
      BY <2>1
    <2>4. q[i] \in Nat /\ q[m] \in Nat /\ q[m + 1] = b * q[m]
      BY <2>1, <2>3, PowersAre
    <2>5. 1 * q[m] <= b * q[m] /\ b * q[m] \in Nat
      BY <2>4, Multiples
    <2> QED BY <2>1, <2>2, <2>3, <2>4, <2>5
  <1>3. P = Nat
    <2>1. P \in SUBSET Nat
      OBVIOUS
    <2> HIDE DEF P
    <2> QED BY <1>1, <1>2, <2>1, SetInduction
  <1>4. ASSUME NEW j \in Nat, i <= j, j <= N PROVE q[i] <= q[j]
    <2>1. j - i \in Nat /\ i + (j - i) = j
      BY <1>4
    <2> QED BY <1>3, <1>4, <2>1
  <1> QED BY <1>4

\* How many digits a number has.
LEMMA DigitsCount ==
    ASSUME NEW N \in Nat, NEW q, Powers(58, N, q), NEW s, NEW v, Numeral(s, q, v), Len(s) <= N
    PROVE  \A n \in Nat : /\ n <= N /\ q[n] <= v => Len(s) > n
                          /\ n <= N /\ v < q[n] => Len(s) <= n
  <1>1. s \in Seq(0..57) /\ IsWorth(s, q, v) /\ Len(s) \in Nat /\ v \in Nat
        /\ (s # <<>> => s[Len(s)] # 0)
    BY LenProperties DEF Numeral
  <1>2. \A n \in Nat : n <= N => q[n] \in Nat
    BY PowersAre
  <1>3. ASSUME NEW n \in Nat, n <= N, q[n] <= v PROVE Len(s) > n
    <2>1. v < q[Len(s)]
      BY <1>1, WorthIsBounded
    <2>2. Len(s) <= n => q[Len(s)] <= q[n]
      BY <1>1, <1>3, PowersGrow
    <2>3. q[Len(s)] \in Nat /\ q[n] \in Nat
      BY <1>1, <1>2, <1>3
    <2> QED BY <1>1, <1>3, <2>1, <2>2, <2>3
  <1>4. ASSUME NEW n \in Nat, n <= N, v < q[n] PROVE Len(s) <= n
    <2>1. SUFFICES ASSUME Len(s) > n PROVE FALSE
      BY <1>1
    <2>2. s # <<>> /\ Len(s) - 1 \in Nat /\ n <= Len(s) - 1 /\ Len(s) - 1 <= N
      BY <1>1, <2>1, EmptySeq
    <2>3. PICK unit, top : unit = q[Len(s) - 1] /\ top = s[Len(s)]
      OBVIOUS
    <2>4. unit \in Nat /\ q[n] \in Nat /\ q[n] <= unit
      BY <1>2, <1>4, <2>2, <2>3, PowersGrow
    <2>5. top \in Nat /\ top # 0
      <3>1. Len(s) \in 1..Len(s)
        BY <1>1, <2>2
      <3>2. top \in 0..57
        BY <1>1, <2>3, <3>1, ElementOfSeq
      <3>3. top \in Nat
        BY <3>2, SmallNumbers, Zenon
      <3> QED BY <1>1, <2>2, <2>3, <3>3
    <2>6. top * unit <= v
      BY <1>1, <2>2, <2>3, WorthIsBounded
    <2>7. 1 * unit <= top * unit /\ top * unit \in Nat
      <3>1. 1 <= top
        BY <2>5
      <3> QED BY <2>4, <2>5, <3>1, Multiples
    <2>8. unit <= v
      BY <1>1, <2>4, <2>6, <2>7
    <2> QED BY <1>1, <1>4, <2>4, <2>8
  <1> QED BY <1>3, <1>4

-----------------------------------------------------------------------------
\* The first z of the bytes are zeros and no more.
ZerosInFront(bytes, z) ==
    /\ z \in 0..Len(bytes) /\ \A i \in 1..z : bytes[i] = 0
    /\ z = Len(bytes) \/ bytes[z + 1] # 0

\* The number of zeros in front that _base58Encode counts is the only one.
LEMMA OneNumberOfZeros ==
    ASSUME NEW bytes \in Seq(0..255), NEW z, ZerosInFront(bytes, z)
    PROVE  z = CHOOSE n \in 0..Len(bytes) :
                   /\ \A i \in 1..n : bytes[i] = 0
                   /\ n = Len(bytes) \/ bytes[n + 1] # 0
  <1> DEFINE y == CHOOSE n \in 0..Len(bytes) :
                   /\ \A i \in 1..n : bytes[i] = 0
                   /\ n = Len(bytes) \/ bytes[n + 1] # 0
  <1>1. ZerosInFront(bytes, y)
    BY DEF ZerosInFront
  <1> HIDE DEF y
  <1>2. Len(bytes) \in Nat
    BY LenProperties
  <1>3. y \in Nat /\ z \in Nat /\ y <= Len(bytes) /\ z <= Len(bytes)
    BY <1>1, <1>2 DEF ZerosInFront
  <1>4. ASSUME z < y PROVE FALSE
    <2>1. z + 1 \in 1..y /\ z # Len(bytes)
      BY <1>3, <1>4
    <2> QED BY <1>1, <2>1 DEF ZerosInFront
  <1>5. ASSUME y < z PROVE FALSE
    <2>1. y + 1 \in 1..z /\ y # Len(bytes)
      BY <1>3, <1>5
    <2> QED BY <1>1, <2>1 DEF ZerosInFront
  <1>6. y = z
    BY <1>3, <1>4, <1>5
  <1> QED BY <1>6 DEF y

\* A text is a zero for each zero in front and the numeral of the bytes.
LEMMA TextIs ==
    ASSUME NEW bytes \in Seq(0..255), NEW z, ZerosInFront(bytes, z),
           Keys!Digits(bytes) \in Seq(0..57)
    PROVE  LET t == Keys!_base58Encode(bytes)
               d == Keys!Digits(bytes)
           IN  /\ Len(t) = z + Len(d)
               /\ z > 0 => t[1] = 0
               /\ z = 0 /\ d # <<>> => t[1] = d[Len(d)]
  <1> DEFINE t == Keys!_base58Encode(bytes)
             d == Keys!Digits(bytes)
             front == [i \in 1..z |-> 0]
             back == [i \in 1..Len(d) |-> d[(Len(d) - i) + 1]]
  <1>1. t = front \o back
    BY OneNumberOfZeros DEF Keys!_base58Encode, Keys!Reverse
  <1>2. z \in Nat /\ Len(d) \in Nat
    BY LenProperties DEF ZerosInFront
  <1>3. front \in Seq(0..57) /\ Len(front) = z
    BY <1>2
  <1> HIDE DEF d
  <1>4. back \in Seq(0..57) /\ Len(back) = Len(d)
    <2>1. \A i \in 1..Len(d) : d[i] \in 0..57
      BY ElementOfSeq DEF d
    <2>2. \A i \in 1..Len(d) : (Len(d) - i) + 1 \in 1..Len(d)
      BY <1>2
    <2> QED BY <1>2, <2>1, <2>2
  <1>5. z > 0 => front[1] = 0
    BY <1>2
  <1>6. Len(d) > 0 => back[1] = d[Len(d)]
    BY <1>2
  <1> HIDE DEF front, back, t
  <1>7. /\ Len(t) = z + Len(d)
        /\ \A i \in 1 .. z + Len(d) : t[i] = IF i <= z THEN front[i] ELSE back[i - z]
    <2>1. Joined(0..57, front, back)
      BY <1>3, <1>4, JoinedSequences
    <2> QED BY <1>1, <1>3, <1>4, <2>1 DEF Joined
  <1>8. z > 0 => t[1] = 0
    BY <1>2, <1>5, <1>7
  <1>9. z = 0 /\ d # <<>> => t[1] = d[Len(d)]
    <2>1. SUFFICES ASSUME z = 0, d # <<>> PROVE t[1] = d[Len(d)]
      OBVIOUS
    <2>2. Len(d) > 0 /\ 1 \in 1 .. z + Len(d) /\ ~ 1 <= z
      BY <1>2, <2>1, EmptySeq DEF d
    <2>3. t[1] = back[1 - z]
      BY <1>7, <2>2
    <2> QED BY <1>6, <2>1, <2>2, <2>3
  <1> QED BY <1>7, <1>8, <1>9 DEF t, d

\* Every list of bytes reads as a number.
LEMMA ReadsExist ==
    ASSUME NEW bytes \in Seq(0..255) PROVE \E b : Reads(bytes, b)
  <1> DEFINE F == [n \in 1..Len(bytes) |-> [v \in Nat |-> 256 * v + bytes[n]]]
  <1>1. Len(bytes) \in Nat /\ \A n \in 1..Len(bytes) : bytes[n] \in Nat
    <2>1. Len(bytes) \in Nat
      BY LenProperties
    <2>2. ASSUME NEW n \in 1..Len(bytes) PROVE bytes[n] \in Nat
      <3>1. bytes[n] \in 0..255
        BY ElementOfSeq
      <3> QED BY <3>1, SmallNumbers
    <2> QED BY <2>1, <2>2
  <1>2. F \in [1..Len(bytes) -> [Nat -> Nat]]
    BY <1>1
  <1>3. \A n \in 1..Len(bytes), v \in Nat : F[n][v] = 256 * v + bytes[n]
    OBVIOUS
  <1> HIDE DEF F
  <1>4. Recurs(Nat, 0, Len(bytes), F)
    <2>1. 0 \in Nat
      OBVIOUS
    <2> QED BY <1>1, <1>2, <2>1, Recursion
  <1>5. PICK b \in [0..Len(bytes) -> Nat] :
            b[0] = 0 /\ \A n \in 1..Len(bytes) : b[n] = F[n][b[n - 1]]
    BY <1>4 DEF Recurs
  <1>6. ASSUME NEW n \in 1..Len(bytes) PROVE b[n] = 256 * b[n - 1] + bytes[n]
    <2>1. n - 1 \in 0..Len(bytes)
      BY <1>1
    <2>2. b[n - 1] \in Nat
      BY <2>1
    <2>3. b[n] = F[n][b[n - 1]]
      BY <1>5
    <2> QED BY <1>3, <2>2, <2>3
  <1> QED BY <1>5, <1>6 DEF Reads

\* A number that begins with the byte f and has k bytes more.
BeginsWith(f, k, p, v) == v \in Nat /\ f * p[k] <= v /\ v + 1 <= (f + 1) * p[k]

\* Zeros in front read as zero.
LEMMA BytesOfZero ==
    ASSUME NEW bytes \in Seq(0..255), NEW b, Reads(bytes, b), NEW z, ZerosInFront(bytes, z)
    PROVE  b[z] = 0
  <1>1. Len(bytes) \in Nat
    BY LenProperties
  <1>2. z \in Nat /\ z <= Len(bytes) /\ \A i \in 1..z : bytes[i] = 0
    BY <1>1 DEF ZerosInFront
  <1> DEFINE P == {k \in Nat : k <= z => b[k] = 0}
  <1>3. 0 \in P
    BY DEF Reads
  <1>4. ASSUME NEW k \in P PROVE k + 1 \in P
    <2> SUFFICES ASSUME k + 1 <= z PROVE b[k + 1] = 0
      OBVIOUS
    <2>1. b[k] = 0 /\ k + 1 \in 1..z /\ k + 1 \in 1..Len(bytes) /\ (k + 1) - 1 = k
      BY <1>1, <1>2
    <2>2. b[k + 1] = 256 * b[k] + bytes[k + 1]
      BY <2>1 DEF Reads
    <2> QED BY <1>2, <2>1, <2>2
  <1>5. P = Nat
    <2>1. P \in SUBSET Nat
      OBVIOUS
    <2> HIDE DEF P
    <2> QED BY <1>3, <1>4, <2>1, SetInduction
  <1> QED BY <1>2, <1>5

\* What the bytes are worth, by the first that is not zero.
LEMMA ReadsFrom ==
    ASSUME NEW bytes \in Seq(0..255), NEW b, Reads(bytes, b),
           NEW z, ZerosInFront(bytes, z), z < Len(bytes),
           NEW M \in Nat, NEW p, Powers(256, M, p), Len(bytes) <= M
    PROVE  LET f == bytes[z + 1] IN
           f \in 1..255 /\ BeginsWith(f, Len(bytes) - (z + 1), p, b[Len(bytes)])
  <1>1. Len(bytes) \in Nat /\ \A n \in 1..Len(bytes) : bytes[n] \in 0..255
    BY LenProperties, ElementOfSeq
  <1>2. z \in Nat /\ z + 1 <= Len(bytes) /\ bytes[z + 1] # 0
    BY <1>1 DEF ZerosInFront
  <1>3. PICK f : f = bytes[z + 1]
    OBVIOUS
  <1>4. f \in 1..255 /\ f \in Nat
    <2>1. f \in 0..255 /\ f # 0
      BY <1>1, <1>2, <1>3
    <2> QED BY <2>1
  <1>5. \A n \in Nat : n + 1 <= Len(bytes) =>
            b[n] \in Nat /\ b[n + 1] = 256 * b[n] + bytes[n + 1]
    <2>1. \A n \in Nat : n + 1 <= Len(bytes) =>
              n \in 0..Len(bytes) /\ n + 1 \in 1..Len(bytes) /\ (n + 1) - 1 = n
      BY <1>1
    <2> QED BY <2>1 DEF Reads
  <1> DEFINE P == {k \in Nat : (z + 1) + k <= Len(bytes) => BeginsWith(f, k, p, b[(z + 1) + k])}
  <1>6. 0 \in P
    <2>1. b[z] = 0
      BY BytesOfZero
    <2>2. b[z + 1] = 256 * 0 + f
      BY <1>2, <1>3, <1>5, <2>1
    <2>3. b[z + 1] = f /\ (z + 1) + 0 = z + 1
      BY <1>2, <1>4, <2>2
    <2>4. p[0] = 1
      BY PowersAre
    <2>5. BeginsWith(f, 0, p, f)
      BY <1>4, <2>4 DEF BeginsWith
    <2> QED BY <2>3, <2>5
  <1>7. ASSUME NEW k \in P PROVE k + 1 \in P
    <2> SUFFICES ASSUME (z + 1) + (k + 1) <= Len(bytes)
                 PROVE  BeginsWith(f, k + 1, p, b[(z + 1) + (k + 1)])
      OBVIOUS
    <2>1. k \in Nat /\ (z + 1) + (k + 1) = ((z + 1) + k) + 1 /\ (z + 1) + k \in Nat
          /\ BeginsWith(f, k, p, b[(z + 1) + k]) /\ k + 1 <= M
      BY <1>1, <1>2
    <2> HIDE DEF P
    <2>2. PICK n \in Nat : n = (z + 1) + k
      BY <2>1
    <2>3. PICK v, byte : v = b[n] /\ byte = bytes[n + 1]
      OBVIOUS
    <2>4. b[n + 1] = 256 * v + byte /\ byte \in Nat /\ byte <= 255
      <3>1. n + 1 \in 1..Len(bytes)
        BY <1>1, <2>1, <2>2
      <3>2. b[n + 1] = 256 * v + byte /\ byte \in 0..255
        BY <1>1, <1>5, <2>2, <2>3, <3>1
      <3> QED BY <3>2
    <2>5. PICK unit \in Nat : unit = p[k] /\ p[k + 1] = 256 * unit
      <3>1. k <= M
        BY <2>1
      <3>2. p[k] \in Nat /\ p[k + 1] = 256 * p[k]
        BY <2>1, <3>1, PowersAre
      <3> QED BY <3>2
    <2>6. v \in Nat /\ f * unit <= v /\ v + 1 <= (f + 1) * unit
      BY <2>1, <2>2, <2>3, <2>5 DEF BeginsWith
    <2>7. f * (256 * unit) = 256 * (f * unit) /\ (f + 1) * (256 * unit) = 256 * ((f + 1) * unit)
      BY <1>4
    <2>8. f * unit \in Nat /\ (f + 1) * unit \in Nat
      BY <1>4, Multiples
    <2> DEFINE low == f * unit
               high == (f + 1) * unit
    <2>9. /\ 256 * v + byte \in Nat /\ 256 * low <= 256 * v + byte
          /\ (256 * v + byte) + 1 <= 256 * high
      <3>1. low \in Nat /\ high \in Nat /\ low <= v /\ v + 1 <= high
        BY <2>6, <2>8
      <3> HIDE DEF low, high
      <3> QED BY <2>4, <2>6, <3>1
    <2>10. BeginsWith(f, k + 1, p, 256 * v + byte)
      BY <2>5, <2>7, <2>9 DEF BeginsWith
    <2> QED BY <2>1, <2>2, <2>4, <2>10
  <1>8. P = Nat
    <2>1. P \in SUBSET Nat
      OBVIOUS
    <2> HIDE DEF P
    <2> QED BY <1>6, <1>7, <2>1, SetInduction
  <1>9. PICK k \in Nat : k = Len(bytes) - (z + 1)
    <2>1. Len(bytes) - (z + 1) \in Nat
      BY <1>1, <1>2
    <2> QED BY <2>1, Zenon
  <1>10. (z + 1) + k = Len(bytes)
    BY <1>1, <1>2, <1>9
  <1>11. BeginsWith(f, k, p, b[Len(bytes)])
    BY <1>1, <1>8, <1>10
  <1> QED BY <1>3, <1>4, <1>9, <1>11

\* How large they are, by the number of them that are not zeros in front.
LEMMA ReadsBetween ==
    ASSUME NEW bytes \in Seq(0..255), NEW b, Reads(bytes, b),
           NEW z, ZerosInFront(bytes, z),
           NEW M \in Nat, NEW p, Powers(256, M, p), Len(bytes) <= M
    PROVE  LET v == b[Len(bytes)] IN
           /\ v \in Nat /\ v < p[Len(bytes) - z]
           /\ \A n \in Nat : n + 1 = Len(bytes) - z => p[n] <= v
  <1>1. Len(bytes) \in Nat /\ z \in Nat /\ z <= Len(bytes)
    BY LenProperties DEF ZerosInFront
  <1>2. CASE z = Len(bytes)
    <2>1. b[Len(bytes)] = 0 /\ Len(bytes) - z = 0
      BY <1>1, <1>2, BytesOfZero
    <2>2. p[0] = 1
      BY PowersAre
    <2> QED BY <2>1, <2>2
  <1>3. CASE z < Len(bytes)
    <2>1. PICK f, k, v : f = bytes[z + 1] /\ k = Len(bytes) - (z + 1) /\ v = b[Len(bytes)]
      OBVIOUS
    <2>2. f \in 1..255 /\ BeginsWith(f, k, p, v)
      BY <1>3, <2>1, ReadsFrom
    <2>3. k \in Nat /\ Len(bytes) - z = k + 1 /\ k + 1 <= M /\ k <= M
      BY <1>1, <1>3, <2>1
    <2>4. PICK unit \in Nat : unit = p[k] /\ p[k + 1] = 256 * unit
      <3>1. p[k] \in Nat /\ p[k + 1] = 256 * p[k]
        BY <2>3, PowersAre
      <3> QED BY <3>1
    <2>5. v \in Nat /\ f * unit <= v /\ v + 1 <= (f + 1) * unit
      BY <2>2, <2>4 DEF BeginsWith
    <2>6. f \in Nat /\ 1 <= f /\ f + 1 <= 256
      BY <2>2
    <2>7. 1 * unit <= f * unit /\ (f + 1) * unit <= 256 * unit
      BY <2>4, <2>6, Multiples
    <2>8. f * unit \in Nat /\ (f + 1) * unit \in Nat
      BY <2>4, <2>6, Multiples
    <2>9. unit <= v /\ v < 256 * unit
      BY <2>4, <2>5, <2>7, <2>8
    <2>10. \A n \in Nat : n + 1 = Len(bytes) - z => n = k
      BY <2>3
    <2> QED BY <2>1, <2>3, <2>4, <2>5, <2>9, <2>10
  <1> QED BY <1>1, <1>2, <1>3

\* Powers of 58 and of 256 against one another.
Four(b, x) == b * (b * (b * (b * x)))

Stepped(b, q, n) ==
    /\ q[n] \in Nat /\ q[n + 1] = b * q[n] /\ q[n + 2] = b * q[n + 1]
    /\ q[n + 3] = b * (b * (b * q[n])) /\ q[n + 4] = Four(b, q[n])

\* Four powers on is four factors more.
LEMMA FourMore ==
    ASSUME NEW b \in Nat, NEW N \in Nat, NEW q, Powers(b, N, q), NEW n \in Nat, n + 4 <= N
    PROVE  Stepped(b, q, n)
  <1>1. \A k \in Nat : k + 1 <= N => q[k + 1] = b * q[k]
    BY PowersAre
  <1>2. n <= N /\ n + 1 \in Nat /\ n + 2 \in Nat /\ n + 3 \in Nat
    OBVIOUS
  <1>3. (n + 1) + 1 = n + 2 /\ (n + 2) + 1 = n + 3 /\ (n + 3) + 1 = n + 4
    OBVIOUS
  <1>4. n + 1 <= N /\ n + 2 <= N /\ n + 3 <= N
    OBVIOUS
  <1>5. q[n + 1] = b * q[n]
    BY <1>1, <1>4
  <1>6. q[n + 2] = b * q[n + 1]
    BY <1>1, <1>2, <1>3, <1>4
  <1>7. q[n + 3] = b * q[n + 2]
    BY <1>1, <1>2, <1>3, <1>4
  <1>8. q[n + 4] = b * q[n + 3]
    BY <1>1, <1>2, <1>3
  <1>9. q[n] \in Nat
    BY <1>2, PowersAre
  <1> QED BY <1>5, <1>6, <1>7, <1>8, <1>9 DEF Four, Stepped

\* The powers of 58 that the lengths are compared with.
LEMMA PowersOf58 ==
    ASSUME NEW N \in Nat, NEW q, Powers(58, N, q), 44 <= N
    PROVE  /\ q[0] = 1 /\ q[4] = Four(58, q[0]) /\ q[8] = Four(58, q[4])
           /\ q[12] = Four(58, q[8]) /\ q[16] = Four(58, q[12])
           /\ q[20] = Four(58, q[16]) /\ q[24] = Four(58, q[20])
           /\ q[28] = Four(58, q[24]) /\ q[32] = Four(58, q[28])
           /\ q[33] = 58 * q[32] /\ q[34] = 58 * q[33] /\ q[36] = Four(58, q[32])
           /\ q[40] = Four(58, q[36]) /\ q[44] = Four(58, q[40])
  <1>1. ASSUME NEW n \in Nat, n + 4 <= N PROVE Stepped(58, q, n)
    <2>1. 58 \in Nat
      OBVIOUS
    <2> QED BY <1>1, <2>1, FourMore
  <1>2. q[0] = 1
    BY PowersAre
  <1>3. \A n \in Nat : n <= 40 => n + 4 <= N
    OBVIOUS
  <1>4. \A n \in Nat : n <= 40 => q[n + 4] = Four(58, q[n]) /\ q[n + 1] = 58 * q[n]
                                  /\ q[n + 2] = 58 * q[n + 1]
    BY <1>1, <1>3 DEF Stepped
  <1>5. q[4] = Four(58, q[0]) /\ q[8] = Four(58, q[4]) /\ q[12] = Four(58, q[8])
    BY <1>4
  <1>6. q[16] = Four(58, q[12]) /\ q[20] = Four(58, q[16]) /\ q[24] = Four(58, q[20])
    BY <1>4
  <1>7. q[28] = Four(58, q[24]) /\ q[32] = Four(58, q[28]) /\ q[36] = Four(58, q[32])
    BY <1>4
  <1>8. q[40] = Four(58, q[36]) /\ q[44] = Four(58, q[40])
    BY <1>4
  <1>9. q[33] = 58 * q[32] /\ q[34] = 58 * q[33]
    BY <1>4
  <1> QED BY <1>2, <1>5, <1>6, <1>7, <1>8, <1>9

\* The powers of 256 that the hashes are compared with.
LEMMA PowersOf256 ==
    ASSUME NEW M \in Nat, NEW p, Powers(256, M, p), 24 <= M
    PROVE  /\ p[0] = 1 /\ p[3] = 256 * (256 * (256 * p[0]))
           /\ p[4] = Four(256, p[0]) /\ p[8] = Four(256, p[4])
           /\ p[12] = Four(256, p[8]) /\ p[16] = Four(256, p[12])
           /\ p[20] = Four(256, p[16]) /\ p[24] = Four(256, p[20])
           /\ 32 <= M => p[28] = Four(256, p[24]) /\ p[32] = Four(256, p[28])
  <1>1. \A n \in Nat :
            n + 4 <= M => /\ p[n + 4] = Four(256, p[n])
                          /\ p[n + 3] = 256 * (256 * (256 * p[n]))
    <2>1. ASSUME NEW n \in Nat, n + 4 <= M PROVE Stepped(256, p, n)
      <3>1. 256 \in Nat
        OBVIOUS
      <3> QED BY <2>1, <3>1, FourMore
    <2> QED BY <2>1 DEF Stepped
  <1>2. p[0] = 1
    BY PowersAre
  <1>3. \A n \in Nat : n <= 20 => n + 4 <= M
    OBVIOUS
  <1>4. p[3] = 256 * (256 * (256 * p[0])) /\ p[4] = Four(256, p[0]) /\ p[8] = Four(256, p[4])
    BY <1>1, <1>3
  <1>5. p[12] = Four(256, p[8]) /\ p[16] = Four(256, p[12])
    BY <1>1, <1>3
  <1>6. p[20] = Four(256, p[16]) /\ p[24] = Four(256, p[20])
    BY <1>1, <1>3
  <1>7. 32 <= M => p[28] = Four(256, p[24]) /\ p[32] = Four(256, p[28])
    BY <1>1
  <1> QED BY <1>2, <1>4, <1>5, <1>6, <1>7

\* The comparisons behind the service's bounds: 58^33 and 58^34 with 256^24.
LEMMA Comparisons ==
    ASSUME NEW N \in Nat, NEW q, Powers(58, N, q), 44 <= N,
           NEW M \in Nat, NEW p, Powers(256, M, p), 24 <= M
    PROVE  /\ q[0] <= p[0] /\ q[4] <= p[3] /\ p[24] <= q[34]
           /\ 26 * q[33] <= 65 * p[24] /\ 66 * p[24] <= 27 * q[33]
           /\ 32 <= M => p[32] <= q[44]
  <1>1. /\ \A n \in Nat : n <= N => q[n] \in Nat
        /\ \A n \in Nat : n <= M => p[n] \in Nat
    BY PowersAre
  <1>2. q[0] <= p[0] /\ q[4] <= p[3]
    BY PowersOf58, PowersOf256 DEF Four
  <1>3. PICK a4, a8, a12, a16, a20, a24, a28, a32, a36, a40 \in Nat :
            /\ a4 = q[4] /\ a8 = q[8] /\ a12 = q[12] /\ a16 = q[16] /\ a20 = q[20]
            /\ a24 = q[24] /\ a28 = q[28] /\ a32 = q[32] /\ a36 = q[36] /\ a40 = q[40]
    <2>1. /\ q[4] \in Nat /\ q[8] \in Nat /\ q[12] \in Nat /\ q[16] \in Nat /\ q[20] \in Nat
          /\ q[24] \in Nat /\ q[28] \in Nat /\ q[32] \in Nat /\ q[36] \in Nat /\ q[40] \in Nat
      BY <1>1
    <2> QED BY <2>1, Zenon
  <1>4. PICK c4, c8, c12, c16, c20, c24 \in Nat :
            /\ c4 = p[4] /\ c8 = p[8] /\ c12 = p[12]
            /\ c16 = p[16] /\ c20 = p[20] /\ c24 = p[24]
    <2>1. /\ p[4] \in Nat /\ p[8] \in Nat /\ p[12] \in Nat
          /\ p[16] \in Nat /\ p[20] \in Nat /\ p[24] \in Nat
      BY <1>1
    <2> QED BY <2>1, Zenon
  <1>5. /\ a4 = Four(58, 1) /\ a8 = Four(58, a4) /\ a12 = Four(58, a8)
        /\ a16 = Four(58, a12) /\ a20 = Four(58, a16) /\ a24 = Four(58, a20)
        /\ a28 = Four(58, a24) /\ a32 = Four(58, a28) /\ a36 = Four(58, a32)
        /\ a40 = Four(58, a36)
    BY <1>3, PowersOf58
  <1>6. /\ c4 = Four(256, 1) /\ c8 = Four(256, c4) /\ c12 = Four(256, c8)
        /\ c16 = Four(256, c12) /\ c20 = Four(256, c16) /\ c24 = Four(256, c20)
    BY <1>4, PowersOf256
  <1>7. /\ c24 <= 58 * (58 * a32)
        /\ 26 * (58 * a32) <= 65 * c24 /\ 66 * c24 <= 27 * (58 * a32)
        /\ Four(256, Four(256, c24)) <= Four(58, a40)
    BY <1>5, <1>6 DEF Four
  <1>8. p[24] = c24 /\ q[33] = 58 * a32 /\ q[34] = 58 * (58 * a32) /\ q[44] = Four(58, a40)
    BY <1>3, <1>4, PowersOf58
  <1>9. 32 <= M => p[32] = Four(256, Four(256, c24))
    BY <1>4, PowersOf256
  <1> QED BY <1>2, <1>7, <1>8, <1>9

\* A power of 256 that is under one of 58 stays under it downwards, and one that is over
\* it stays over it upwards.
LEMMA UnderStaysUnder ==
    ASSUME NEW N \in Nat, NEW q, Powers(58, N, q), NEW M \in Nat, NEW p, Powers(256, M, p),
           NEW i \in Nat, NEW e \in Nat, i <= M, i + e <= N, p[i] <= q[i + e]
    PROVE  \A n \in Nat : n <= i => p[n] <= q[n + e]
  <1> DEFINE P == {k \in Nat : k <= i => p[i - k] <= q[(i - k) + e]}
  <1>1. 0 \in P
    OBVIOUS
  <1>2. ASSUME NEW k \in P PROVE k + 1 \in P
    <2> SUFFICES ASSUME k + 1 <= i PROVE p[i - (k + 1)] <= q[(i - (k + 1)) + e]
      OBVIOUS
    <2>1. k \in Nat /\ k <= i /\ p[i - k] <= q[(i - k) + e]
      OBVIOUS
    <2> HIDE DEF P
    <2>2. PICK n \in Nat : n = i - (k + 1)
      <3>1. i - (k + 1) \in Nat
        BY <2>1
      <3> QED BY <3>1, Zenon
    <2>3. /\ i - k = n + 1 /\ (n + 1) + e = (n + e) + 1
          /\ n <= M /\ n + 1 <= M /\ n + e \in Nat /\ n + e <= N /\ (n + e) + 1 <= N
      BY <2>1, <2>2
    <2>4. PICK x, y \in Nat : x = p[n] /\ y = q[n + e]
      <3>1. p[n] \in Nat /\ q[n + e] \in Nat
        BY <2>3, PowersAre
      <3> QED BY <3>1
    <2>5. p[n + 1] = 256 * x /\ q[(n + e) + 1] = 58 * y
      BY <2>3, <2>4, PowersAre
    <2>6. 256 * x <= 58 * y
      BY <2>1, <2>3, <2>5
    <2>7. x <= y
      BY <2>6
    <2> QED BY <2>2, <2>4, <2>7
  <1>3. P = Nat
    <2>1. P \in SUBSET Nat
      OBVIOUS
    <2> HIDE DEF P
    <2> QED BY <1>1, <1>2, <2>1, SetInduction
  <1>4. ASSUME NEW n \in Nat, n <= i PROVE p[n] <= q[n + e]
    <2>1. i - n \in Nat /\ i - n <= i /\ i - (i - n) = n
      BY <1>4
    <2> QED BY <1>3, <2>1
  <1> QED BY <1>4

\* Once a power of 256 is above one of 58, it stays above as both go on.
LEMMA OverStaysOver ==
    ASSUME NEW N \in Nat, NEW q, Powers(58, N, q), NEW M \in Nat, NEW p, Powers(256, M, p),
           NEW i \in Nat, NEW e \in Nat, q[i + e] <= p[i]
    PROVE  \A n \in Nat : i <= n /\ n <= M /\ n + e <= N => q[n + e] <= p[n]
  <1> DEFINE P == {k \in Nat : i + k <= M /\ (i + k) + e <= N => q[(i + k) + e] <= p[i + k]}
  <1>1. 0 \in P
    OBVIOUS
  <1>2. ASSUME NEW k \in P PROVE k + 1 \in P
    <2> SUFFICES ASSUME i + (k + 1) <= M, (i + (k + 1)) + e <= N
                 PROVE  q[(i + (k + 1)) + e] <= p[i + (k + 1)]
      OBVIOUS
    <2>1. k \in Nat /\ q[(i + k) + e] <= p[i + k]
      OBVIOUS
    <2> HIDE DEF P
    <2>2. PICK n \in Nat : n = i + k
      BY <2>1
    <2>3. /\ i + (k + 1) = n + 1 /\ (n + 1) + e = (n + e) + 1
          /\ n <= M /\ n + 1 <= M /\ n + e \in Nat /\ n + e <= N /\ (n + e) + 1 <= N
      BY <2>1, <2>2
    <2>4. PICK x, y \in Nat : x = p[n] /\ y = q[n + e]
      <3>1. p[n] \in Nat /\ q[n + e] \in Nat
        BY <2>3, PowersAre
      <3> QED BY <3>1
    <2>5. p[n + 1] = 256 * x /\ q[(n + e) + 1] = 58 * y
      BY <2>3, <2>4, PowersAre
    <2>6. y <= x
      BY <2>1, <2>2, <2>4
    <2>7. 58 * y <= 256 * x
      BY <2>6
    <2> QED BY <2>3, <2>5, <2>7
  <1>3. P = Nat
    <2>1. P \in SUBSET Nat
      OBVIOUS
    <2> HIDE DEF P
    <2> QED BY <1>1, <1>2, <2>1, SetInduction
  <1>4. ASSUME NEW n \in Nat, i <= n, n <= M, n + e <= N PROVE q[n + e] <= p[n]
    <2>1. n - i \in Nat /\ i + (n - i) = n
      BY <1>4
    <2> QED BY <1>3, <1>4, <2>1
  <1> QED BY <1>4

\* Every list of bytes has some number of zeros in front.
LEMMA ZerosExist ==
    ASSUME NEW bytes \in Seq(0..255) PROVE \E z : ZerosInFront(bytes, z)
  <1>1. Len(bytes) \in Nat
    BY LenProperties
  <1> DEFINE Zero(k) == \A i \in 1..k : bytes[i] = 0
             P == {k \in Nat : k <= Len(bytes) => Zero(k) \/ \E z : ZerosInFront(bytes, z)}
  <1>2. 0 \in P
    OBVIOUS
  <1>3. ASSUME NEW k \in P PROVE k + 1 \in P
    <2> SUFFICES ASSUME k + 1 <= Len(bytes), Zero(k)
                 PROVE  Zero(k + 1) \/ \E z : ZerosInFront(bytes, z)
      BY <1>1
    <2>1. k \in 0..Len(bytes) /\ \A i \in 1 .. k + 1 : i \in 1..k \/ i = k + 1
      BY <1>1
    <2>2. CASE bytes[k + 1] = 0
      BY <2>1, <2>2
    <2>3. CASE bytes[k + 1] # 0
      <3>1. ZerosInFront(bytes, k)
        BY <2>1, <2>3 DEF ZerosInFront
      <3> QED BY <3>1
    <2> QED BY <2>2, <2>3
  <1>4. P = Nat
    <2>1. P \in SUBSET Nat
      OBVIOUS
    <2> HIDE DEF P
    <2> QED BY <1>2, <1>3, <2>1, SetInduction
  <1>5. Zero(Len(bytes)) \/ \E z : ZerosInFront(bytes, z)
    BY <1>1, <1>4
  <1>6. Zero(Len(bytes)) => ZerosInFront(bytes, Len(bytes))
    BY <1>1 DEF ZerosInFront
  <1> QED BY <1>5, <1>6

\* What is known of the text of some bytes: t is z zeros and the numeral d of v, and v
\* lies between powers of 256.
Encoded(bytes, z, q, p, v, d) ==
    /\ Powers(58, 2 * Len(bytes), q) /\ Powers(256, Len(bytes), p)
    /\ Numeral(d, q, v) /\ Len(d) \in Nat /\ Len(d) <= 2 * Len(bytes)
    /\ v < p[Len(bytes) - z] /\ \A n \in Nat : n + 1 = Len(bytes) - z => p[n] <= v
    /\ z < Len(bytes) => BeginsWith(bytes[z + 1], Len(bytes) - (z + 1), p, v)
    /\ LET t == Keys!_base58Encode(bytes) IN
       /\ Len(t) = z + Len(d)
       /\ z > 0 => t[1] = 0
       /\ z = 0 /\ d # <<>> => t[1] = d[Len(d)]

\* Every text of _base58Encode is zeros and the numeral of the number of its bytes.
LEMMA TextIsEncoded ==
    ASSUME NEW bytes \in Seq(0..255), NEW z, ZerosInFront(bytes, z)
    PROVE  \E q, p, v, d : Encoded(bytes, z, q, p, v, d)
  <1>1. Len(bytes) \in Nat /\ 2 * Len(bytes) \in Nat
    BY LenProperties
  <1>2. PICK q : Powers(58, 2 * Len(bytes), q)
    <2>1. 58 \in Nat
      OBVIOUS
    <2> QED BY <1>1, <2>1, PowersExist
  <1>3. PICK p : Powers(256, Len(bytes), p)
    <2>1. 256 \in Nat
      OBVIOUS
    <2> QED BY <1>1, <2>1, PowersExist
  <1>4. PICK b : Reads(bytes, b)
    BY ReadsExist
  <1>5. PICK v, d : v = b[Len(bytes)] /\ d = Keys!Digits(bytes)
    OBVIOUS
  <1>6. Numeral(d, q, v) /\ Len(d) <= 2 * Len(bytes)
    <2>1. PICK N \in Nat : N = 2 * Len(bytes)
      BY <1>1
    <2>2. Powers(58, N, q) /\ 2 * Len(bytes) <= N
      BY <1>1, <1>2, <2>1
    <2> QED BY <1>4, <1>5, <2>2, DigitsAreNumeral
  <1>7. d \in Seq(0..57) /\ Len(d) \in Nat
    BY <1>6, LenProperties DEF Numeral
  <1>8. /\ v < p[Len(bytes) - z] /\ \A n \in Nat : n + 1 = Len(bytes) - z => p[n] <= v
        /\ z < Len(bytes) => BeginsWith(bytes[z + 1], Len(bytes) - (z + 1), p, v)
    <2>1. PICK M \in Nat : M = Len(bytes)
      BY <1>1
    <2>2. Powers(256, M, p) /\ Len(bytes) <= M
      BY <1>1, <1>3, <2>1
    <2>3. v < p[Len(bytes) - z] /\ \A n \in Nat : n + 1 = Len(bytes) - z => p[n] <= v
      BY <1>4, <1>5, <2>2, ReadsBetween
    <2>4. z < Len(bytes) => BeginsWith(bytes[z + 1], Len(bytes) - (z + 1), p, v)
      BY <1>4, <1>5, <2>2, ReadsFrom
    <2> QED BY <2>3, <2>4
  <1>9. LET t == Keys!_base58Encode(bytes) IN
        Len(t) = z + Len(d) /\ (z > 0 => t[1] = 0) /\ (z = 0 /\ d # <<>> => t[1] = d[Len(d)])
    BY <1>5, <1>7, TextIs
  <1> QED BY <1>2, <1>3, <1>6, <1>7, <1>8, <1>9 DEF Encoded

\* A text of 25 bytes that begin with zeros, but not with more than 21.
LEMMA BitcoinText ==
    ASSUME NEW bytes \in Seq(0..255), Len(bytes) = 25,
           NEW z \in 1..21, ZerosInFront(bytes, z)
    PROVE  LET t == Keys!_base58Encode(bytes) IN t[1] = 0 /\ Len(t) \in 26..35
  <1>1. PICK q, p, v, d : Encoded(bytes, z, q, p, v, d)
    BY TextIsEncoded
  <1>2. /\ Powers(58, 50, q) /\ Powers(256, 25, p) /\ Numeral(d, q, v) /\ Len(d) <= 50
        /\ Len(d) \in Nat /\ v < p[25 - z] /\ \A n \in Nat : n + 1 = 25 - z => p[n] <= v
    BY <1>1 DEF Encoded
  <1>3. LET t == Keys!_base58Encode(bytes) IN Len(t) = z + Len(d) /\ t[1] = 0
    BY <1>1 DEF Encoded
  <1>4. PICK n \in Nat : n + 1 = 25 - z
    <2>1. 24 - z \in Nat /\ (24 - z) + 1 = 25 - z
      OBVIOUS
    <2> QED BY <2>1
  <1>5. n \in 3..23 /\ 25 - z = n + 1
    BY <1>4
  <1>6. q[4] <= p[3] /\ p[24] <= q[34]
    <2>1. 50 \in Nat /\ 25 \in Nat /\ 44 <= 50 /\ 24 <= 25
      OBVIOUS
    <2> QED BY <1>2, <2>1, Comparisons
  <1>7. \A k \in Nat : 3 <= k /\ k <= 25 /\ k + 1 <= 50 => q[k + 1] <= p[k]
    <2>1. 50 \in Nat /\ 25 \in Nat /\ 3 \in Nat /\ 1 \in Nat /\ q[3 + 1] <= p[3]
      BY <1>6
    <2> QED BY <1>2, <2>1, OverStaysOver
  <1>8. \A k \in Nat : k <= 24 => p[k] <= q[k + 10]
    <2>1. PICK N, M, i, e \in Nat : N = 50 /\ M = 25 /\ i = 24 /\ e = 10
      OBVIOUS
    <2>2. p[i] <= q[i + e] /\ i <= M /\ i + e <= N
      BY <1>6, <2>1
    <2>3. Powers(58, N, q) /\ Powers(256, M, p)
      BY <1>2, <2>1
    <2>4. \A k \in Nat : k <= i => p[k] <= q[k + e]
      BY <2>2, <2>3, UnderStaysUnder
    <2> QED BY <2>1, <2>4
  <1>9. q[n + 1] <= p[n] /\ p[n] <= v /\ v < p[n + 1] /\ p[n + 1] <= q[n + 11]
    <2>1. n + 1 \in Nat /\ n + 1 <= 24 /\ (n + 1) + 10 = n + 11
      BY <1>5
    <2>2. p[n + 1] <= q[n + 11]
      BY <1>8, <2>1
    <2>3. q[n + 1] <= p[n]
      BY <1>5, <1>7
    <2> QED BY <1>2, <1>4, <1>5, <2>2, <2>3
  <1>10. v \in Nat /\ p[n] \in Nat /\ p[n + 1] \in Nat /\ q[n + 1] \in Nat /\ q[n + 11] \in Nat
    <2>1. /\ n \in 0..25 /\ n + 1 \in 0..25 /\ n + 1 \in 0..50 /\ n + 11 \in 0..50
      BY <1>5
    <2>2. p \in [0..25 -> Nat] /\ q \in [0..50 -> Nat] /\ v \in Nat
      BY <1>2 DEF Powers, Numeral
    <2> QED BY <2>1, <2>2
  <1>11. q[n + 1] <= v /\ v < q[n + 11]
    BY <1>9, <1>10
  <1>12. Len(d) > n + 1 /\ Len(d) <= n + 11
    <2>1. \A m \in Nat : /\ m <= 50 /\ q[m] <= v => Len(d) > m
                         /\ m <= 50 /\ v < q[m] => Len(d) <= m
      BY <1>2, DigitsCount
    <2>2. n + 1 \in Nat /\ n + 11 \in Nat /\ n + 1 <= 50 /\ n + 11 <= 50
      BY <1>5
    <2> QED BY <1>11, <2>1, <2>2
  <1>13. z + Len(d) \in 26..35
    <2>1. PICK x \in Nat : x = Len(d)
      BY <1>2
    <2>2. x > n + 1 /\ x <= n + 11
      BY <1>12, <2>1
    <2>3. z + x \in 26..35
      BY <1>4, <2>2
    <2> QED BY <2>1, <2>3
  <1> QED BY <1>3, <1>13

\* A text of 32 bytes, whatever they are.
LEMMA SolanaText ==
    ASSUME NEW bytes \in Seq(0..255), Len(bytes) = 32
    PROVE  Len(Keys!_base58Encode(bytes)) \in 32..44
  <1>1. PICK z : ZerosInFront(bytes, z)
    BY ZerosExist
  <1>2. PICK q, p, v, d : Encoded(bytes, z, q, p, v, d)
    BY <1>1, TextIsEncoded
  <1>3. /\ Powers(58, 64, q) /\ Powers(256, 32, p) /\ Numeral(d, q, v) /\ Len(d) <= 64
        /\ Len(d) \in Nat /\ v < p[32 - z] /\ \A n \in Nat : n + 1 = 32 - z => p[n] <= v
    BY <1>2 DEF Encoded
  <1>4. Len(Keys!_base58Encode(bytes)) = z + Len(d)
    BY <1>2 DEF Encoded
  <1>5. z \in 0..32
    BY <1>1 DEF ZerosInFront
  <1>6. PICK n \in Nat : n = 32 - z
    BY <1>5
  <1>7. q[0] <= p[0] /\ p[32] <= q[44]
    <2>1. 64 \in Nat /\ 32 \in Nat /\ 44 <= 64 /\ 24 <= 32 /\ 32 <= 32
      OBVIOUS
    <2> QED BY <1>3, <2>1, Comparisons
  <1>8. \A k \in Nat : k <= 32 => q[k] <= p[k]
    <2>1. PICK N, M, i, e \in Nat : N = 64 /\ M = 32 /\ i = 0 /\ e = 0
      OBVIOUS
    <2>2. Powers(58, N, q) /\ Powers(256, M, p) /\ q[i + e] <= p[i]
      BY <1>3, <1>7, <2>1
    <2>3. \A k \in Nat : i <= k /\ k <= M /\ k + e <= N => q[k + e] <= p[k]
      BY <2>2, OverStaysOver
    <2>4. \A k \in Nat : k <= 32 => i <= k /\ k <= M /\ k + e <= N /\ k + e = k
      BY <2>1
    <2> QED BY <2>3, <2>4
  <1>9. \A k \in Nat : k <= 32 => p[k] <= q[k + 12]
    <2>1. PICK N, M, i, e \in Nat : N = 64 /\ M = 32 /\ i = 32 /\ e = 12
      OBVIOUS
    <2>2. p[i] <= q[i + e] /\ i <= M /\ i + e <= N
      BY <1>7, <2>1
    <2>3. Powers(58, N, q) /\ Powers(256, M, p)
      BY <1>3, <2>1
    <2>4. \A k \in Nat : k <= i => p[k] <= q[k + e]
      BY <2>2, <2>3, UnderStaysUnder
    <2> QED BY <2>1, <2>4
  <1>10. (\A k \in 0..64 : q[k] \in Nat) /\ (\A k \in 0..32 : p[k] \in Nat)
    <2>1. p \in [0..32 -> Nat] /\ q \in [0..64 -> Nat]
      BY <1>3 DEF Powers
    <2> QED BY <2>1
  <1>11. v \in Nat
    BY <1>3 DEF Numeral
  <1>12. \A m \in Nat : /\ m <= 64 /\ q[m] <= v => Len(d) > m
                        /\ m <= 64 /\ v < q[m] => Len(d) <= m
    BY <1>3, DigitsCount
  <1>13. Len(d) <= n + 12
    <2>1. n <= 32 /\ n + 12 <= 64 /\ n + 12 \in Nat
      BY <1>5, <1>6
    <2>2. v < p[n]
      BY <1>3, <1>6
    <2>3. p[n] <= q[n + 12]
      BY <1>9, <2>1
    <2>4. p[n] \in Nat /\ q[n + 12] \in Nat
      <3>1. n \in 0..32 /\ n + 12 \in 0..64
        BY <1>5, <1>6
      <3> QED BY <1>10, <3>1, Zenon
    <2>5. v < q[n + 12]
      BY <1>11, <2>2, <2>3, <2>4
    <2> QED BY <1>12, <2>1, <2>5
  <1>14. Len(d) >= n
    <2>1. CASE n = 0
      BY <1>3, <2>1
    <2>2. CASE n # 0
      <3>1. PICK m \in Nat : m + 1 = n
        <4>1. n - 1 \in Nat /\ (n - 1) + 1 = n
          BY <2>2
        <4> QED BY <4>1
      <3>2. m <= 32 /\ m <= 64 /\ m + 1 = 32 - z
        BY <1>5, <1>6, <3>1
      <3>3. p[m] <= v
        BY <1>3, <3>2
      <3>4. q[m] <= p[m]
        BY <1>8, <3>1, <3>2
      <3>5. q[m] \in Nat /\ p[m] \in Nat
        <4>1. m \in 0..32 /\ m \in 0..64
          BY <3>1, <3>2
        <4> QED BY <1>10, <4>1, Zenon
      <3>6. q[m] <= v
        BY <1>11, <3>3, <3>4, <3>5
      <3>7. Len(d) > m
        BY <1>12, <3>2, <3>6
      <3> QED BY <1>3, <3>1, <3>7
    <2> QED BY <2>1, <2>2
  <1>15. z + Len(d) \in 32..44
    <2>1. PICK x \in Nat : x = Len(d)
      BY <1>3
    <2> QED BY <1>5, <1>6, <1>13, <1>14, <2>1
  <1> QED BY <1>4, <1>15

\* A text of 25 bytes of which the first is 65.
LEMMA TronText ==
    ASSUME NEW bytes \in Seq(0..255), Len(bytes) = 25, bytes[1] = 65
    PROVE  LET t == Keys!_base58Encode(bytes) IN t[1] = 26 /\ Len(t) = 34
  <1>1. ZerosInFront(bytes, 0)
    BY DEF ZerosInFront
  <1>2. PICK q, p, v, d : Encoded(bytes, 0, q, p, v, d)
    BY <1>1, TextIsEncoded
  <1>3. /\ Powers(58, 50, q) /\ Powers(256, 25, p) /\ Numeral(d, q, v) /\ Len(d) <= 50
        /\ Len(d) \in Nat
    BY <1>2 DEF Encoded
  <1>4. LET t == Keys!_base58Encode(bytes) IN
        Len(t) = 0 + Len(d) /\ (d # <<>> => t[1] = d[Len(d)])
    BY <1>2 DEF Encoded
  <1>5. v \in Nat /\ 65 * p[24] <= v /\ v + 1 <= 66 * p[24]
    <2>1. BeginsWith(bytes[0 + 1], Len(bytes) - (0 + 1), p, v)
      BY <1>2 DEF Encoded
    <2>2. bytes[0 + 1] = 65 /\ Len(bytes) - (0 + 1) = 24
      OBVIOUS
    <2>3. BeginsWith(65, 24, p, v)
      BY <2>1, <2>2
    <2> QED BY <2>3 DEF BeginsWith
  <1>6. 26 * q[33] <= 65 * p[24] /\ 66 * p[24] <= 27 * q[33]
    <2>1. 50 \in Nat /\ 25 \in Nat /\ 44 <= 50 /\ 24 <= 25
      OBVIOUS
    <2> QED BY <1>3, <2>1, Comparisons
  <1>7. PICK unit, x \in Nat : unit = q[33] /\ x = p[24] /\ q[34] = 58 * unit
    <2>1. /\ p \in [0..25 -> Nat] /\ q \in [0..50 -> Nat]
          /\ \A n \in 1..50 : q[n] = 58 * q[n - 1]
      BY <1>3 DEF Powers
    <2>2. q[33] \in Nat /\ p[24] \in Nat
      BY <2>1
    <2>3. q[34] = 58 * q[33]
      <3>1. 34 \in 1..50 /\ 34 - 1 = 33
        OBVIOUS
      <3> QED BY <2>1, <3>1
    <2> QED BY <2>2, <2>3
  <1>8. /\ 26 * unit <= v /\ v < 27 * unit
        /\ unit <= v /\ v < 58 * unit
    <2>1. PICK w \in Nat : w = v
      BY <1>5
    <2>2. 65 * x <= w /\ w + 1 <= 66 * x
      BY <1>5, <1>7, <2>1
    <2>3. 26 * unit <= 65 * x /\ 66 * x <= 27 * unit
      BY <1>6, <1>7
    <2>4. 26 * unit <= w /\ w < 27 * unit /\ unit <= w /\ w < 58 * unit
      BY <2>2, <2>3
    <2> QED BY <2>1, <2>4
  <1>9. Len(d) = 34
    <2>1. \A m \in Nat : /\ m <= 50 /\ q[m] <= v => Len(d) > m
                         /\ m <= 50 /\ v < q[m] => Len(d) <= m
      BY <1>3, DigitsCount
    <2>2. Len(d) > 33
      BY <1>7, <1>8, <2>1
    <2>3. Len(d) <= 34
      <3>1. v < q[34]
        BY <1>7, <1>8
      <3> QED BY <2>1, <3>1
    <2>4. PICK len \in Nat : len = Len(d)
      BY <1>3
    <2>5. len > 33 /\ len <= 34
      BY <2>2, <2>3, <2>4
    <2>6. len = 34
      BY <2>5
    <2> QED BY <2>4, <2>6
  <1>10. d # <<>> /\ d \in Seq(0..57) /\ IsWorth(d, q, v)
    <2>1. d \in Seq(0..57) /\ IsWorth(d, q, v)
      BY <1>3 DEF Numeral
    <2>2. d # <<>>
      <3>1. Len(<<>>) = 0
        OBVIOUS
      <3>2. 34 # 0
        OBVIOUS
      <3> QED BY <1>9, <3>1, <3>2, Zenon
    <2> QED BY <2>1, <2>2
  <1>11. PICK top : top = d[34]
    OBVIOUS
  <1>12. top \in Nat
    <2>1. 34 \in 1..Len(d)
      BY <1>9
    <2>2. top \in 0..57
      BY <1>10, <1>11, <2>1, ElementOfSeq
    <2> QED BY <2>2, SmallNumbers, Zenon
  <1>13. top * unit <= v /\ v < (top + 1) * unit
    <2>1. PICK N \in Nat : N = 50
      OBVIOUS
    <2>2. Powers(58, N, q) /\ Len(d) <= N
      BY <1>3, <2>1
    <2>3. d[Len(d)] * q[Len(d) - 1] <= v /\ v < (d[Len(d)] + 1) * q[Len(d) - 1]
      BY <1>10, <2>2, WorthIsBounded
    <2>4. d[Len(d)] = top /\ q[Len(d) - 1] = unit
      BY <1>7, <1>9, <1>11
    <2> QED BY <2>3, <2>4
  <1>14. ~ top + 1 <= 26
    <2>1. SUFFICES ASSUME top + 1 <= 26 PROVE FALSE
      OBVIOUS
    <2>2. top + 1 \in Nat /\ 26 \in Nat /\ unit \in Nat
      BY <1>7, <1>12
    <2>3. PICK y \in Nat : y = (top + 1) * unit
      BY <2>2, Multiples
    <2>4. y <= 26 * unit
      BY <2>1, <2>2, <2>3, Multiples
    <2>5. PICK w \in Nat : w = v
      BY <1>5
    <2>6. w < y /\ 26 * unit <= w
      BY <1>8, <1>13, <2>3, <2>5
    <2> QED BY <2>4, <2>6
  <1>15. ~ 27 <= top
    <2>1. SUFFICES ASSUME 27 <= top PROVE FALSE
      OBVIOUS
    <2>2. top \in Nat /\ 27 \in Nat /\ unit \in Nat
      BY <1>7, <1>12
    <2>3. PICK y \in Nat : y = top * unit
      BY <2>2, Multiples
    <2>4. 27 * unit <= y
      BY <2>1, <2>2, <2>3, Multiples
    <2>5. PICK w \in Nat : w = v
      BY <1>5
    <2>6. y <= w /\ w < 27 * unit
      BY <1>8, <1>13, <2>3, <2>5
    <2> QED BY <2>4, <2>6
  <1>16. top = 26
    BY <1>12, <1>14, <1>15
  <1> QED BY <1>4, <1>9, <1>10, <1>11, <1>16

Bytes(n) == [1..n -> 0..255]

\* A hash is a list of bytes.
LEMMA BytesAreASeq ==
    ASSUME NEW n \in Nat, NEW hash \in Bytes(n)
    PROVE  hash \in Seq(0..255) /\ Len(hash) = n
  BY DEF Bytes

\* A version before the 24 bytes of a hash.
Versioned(bytes, version, hash) ==
    /\ bytes \in Seq(0..255) /\ Len(bytes) = 25 /\ bytes[1] = version
    /\ \A i \in 1..24 : bytes[i + 1] = hash[i]

\* A version byte in front of a hash.
LEMMA VersionInFront ==
    ASSUME NEW version \in 0..255, NEW hash \in Bytes(24)
    PROVE  Versioned(<<version>> \o hash, version, hash)
  <1>1. hash \in Seq(0..255) /\ Len(hash) = 24
    <2>1. 24 \in Nat
      OBVIOUS
    <2> QED BY <2>1, BytesAreASeq
  <1>2. <<version>> \in Seq(0..255) /\ Len(<<version>>) = 1 /\ <<version>>[1] = version
    OBVIOUS
  <1> DEFINE one == <<version>>
             bytes == one \o hash
  <1> HIDE DEF one
  <1>3. /\ bytes \in Seq(0..255) /\ Len(bytes) = 1 + 24
        /\ \A i \in 1 .. 1 + 24 : bytes[i] = IF i <= 1 THEN one[i] ELSE hash[i - 1]
    <2>1. one \in Seq(0..255) /\ Len(one) = 1
      BY <1>2 DEF one
    <2>2. Joined(0..255, one, hash)
      <3>1. one \in Seq(0..255) /\ hash \in Seq(0..255)
        BY <1>1, <2>1
      <3> QED BY <3>1, JoinedSequences
    <2> QED BY <1>1, <2>1, <2>2 DEF Joined
  <1> HIDE DEF bytes
  <1>4. bytes[1] = one[1]
    <2>1. 1 \in 1 .. 1 + 24 /\ 1 <= 1
      OBVIOUS
    <2> QED BY <1>3, <2>1
  <1>5. ASSUME NEW i \in 1..24 PROVE bytes[i + 1] = hash[i]
    <2>1. i + 1 \in 1 .. 1 + 24 /\ ~ i + 1 <= 1 /\ (i + 1) - 1 = i
      OBVIOUS
    <2> QED BY <1>3, <2>1
  <1>6. Len(bytes) = 25
    BY <1>3
  <1> QED BY <1>2, <1>3, <1>4, <1>5, <1>6 DEF bytes, one, Versioned

\* The payment service takes the address of any hash: for Solana and Tron of every one,
\* for Bitcoin of every one that does not begin with 21 zeros.
THEOREM AnyAddressIsAccepted ==
    ASSUME NEW hash
    PROVE  /\ hash \in Bytes(24) /\ (\E i \in 1..21 : hash[i] # 0) =>
                  Keys!_validateAddress("BTC", Keys!AddressText("BTC", hash))
           /\ hash \in Bytes(24) =>
                  Keys!_validateAddress("TRX", Keys!AddressText("TRX", hash))
           /\ hash \in Bytes(32) =>
                  Keys!_validateAddress("SOL", Keys!AddressText("SOL", hash))
  <1>1. ASSUME hash \in Bytes(24), NEW i \in 1..21, hash[i] # 0
        PROVE  Keys!_validateAddress("BTC", Keys!AddressText("BTC", hash))
    <2> DEFINE bytes == <<0>> \o hash
    <2>1. /\ bytes \in Seq(0..255) /\ Len(bytes) = 25 /\ bytes[1] = 0
          /\ \A k \in 1..24 : bytes[k + 1] = hash[k]
      <3>1. Versioned(<<0>> \o hash, 0, hash)
        <4>1. 0 \in 0..255
          OBVIOUS
        <4> QED BY <1>1, <4>1, VersionInFront
      <3> QED BY <3>1 DEF Versioned
    <2> HIDE DEF bytes
    <2>2. PICK z : ZerosInFront(bytes, z)
      BY <2>1, ZerosExist
    <2>3. z \in 0..25 /\ (\A k \in 1..z : bytes[k] = 0) /\ (z = 25 \/ bytes[z + 1] # 0)
      BY <2>1, <2>2 DEF ZerosInFront
    <2>4. z # 0
      BY <2>1, <2>3
    <2>5. z <= 21
      <3>1. i \in 1..24 /\ bytes[i + 1] # 0
        <4>1. i \in 1..24
          OBVIOUS
        <4> QED BY <1>1, <2>1, <4>1, Zenon
      <3>2. i + 1 <= z => i + 1 \in 1..z
        BY <2>3
      <3>3. ~ i + 1 <= z
        BY <2>3, <3>1, <3>2
      <3> QED BY <2>3, <3>3
    <2>6. z \in 1..21
      BY <2>3, <2>4, <2>5
    <2>7. LET t == Keys!_base58Encode(bytes) IN t[1] = 0 /\ Len(t) \in 26..35
      BY <2>1, <2>2, <2>6, BitcoinText
    <2> QED BY <2>7 DEF bytes, Keys!_validateAddress, Keys!AddressText, Keys!Character
  <1>2. ASSUME hash \in Bytes(24)
        PROVE  Keys!_validateAddress("TRX", Keys!AddressText("TRX", hash))
    <2> DEFINE bytes == <<65>> \o hash
    <2>1. bytes \in Seq(0..255) /\ Len(bytes) = 25 /\ bytes[1] = 65
      <3>1. Versioned(<<65>> \o hash, 65, hash)
        <4>1. 65 \in 0..255
          OBVIOUS
        <4> QED BY <1>2, <4>1, VersionInFront
      <3> QED BY <3>1 DEF Versioned
    <2> HIDE DEF bytes
    <2>2. LET t == Keys!_base58Encode(bytes) IN t[1] = 26 /\ Len(t) = 34
      BY <2>1, TronText
    <2> QED BY <2>2 DEF bytes, Keys!_validateAddress, Keys!AddressText, Keys!Character
  <1>3. ASSUME hash \in Bytes(32)
        PROVE  Keys!_validateAddress("SOL", Keys!AddressText("SOL", hash))
    <2>1. hash \in Seq(0..255) /\ Len(hash) = 32
      <3>1. 32 \in Nat
        OBVIOUS
      <3> QED BY <1>3, <3>1, BytesAreASeq
    <2>2. Len(Keys!_base58Encode(hash)) \in 32..44
      BY <2>1, SolanaText
    <2> QED BY <2>2 DEF Keys!_validateAddress, Keys!AddressText
  <1> QED BY <1>1, <1>2, <1>3

\* The addresses that the wallets derive are accepted, also those of the hashes that begin
\* with zeros.
THEOREM AddressesOfWalletsAreAccepted == MCSpec => []WalletAddressesAreAccepted
  <1>1. ASSUME NEW chain \in {"BTC", "TRX", "SOL"}, NEW hash \in Keys!AddressHashes(chain)
        PROVE  Keys!_validateAddress(chain, Keys!AddressText(chain, hash))
    <2>1. PICK n : n = IF chain = "SOL" THEN 32 ELSE 24
      OBVIOUS
    <2>2. hash \in Keys!HashesOf(n)
      BY <2>1 DEF Keys!AddressHashes
    <2>3. PICK zeros \in 0..3, fill \in {1, 255} :
              hash = [i \in 1..n |-> IF i <= zeros THEN 0 ELSE fill]
      BY <2>2 DEF Keys!HashesOf
    <2>4. hash \in Bytes(n)
      BY <2>3 DEF Bytes
    <2>5. 4 \in 1..21 /\ hash[4] # 0
      <3>1. 4 \in 1..n /\ ~ 4 <= zeros /\ fill # 0
        BY <2>1, <2>3
      <3> QED BY <2>3, <3>1
    <2> QED BY <2>1, <2>4, <2>5, AnyAddressIsAccepted
  <1>2. WalletAddressesAreAccepted
    BY <1>1 DEF WalletAddressesAreAccepted, Keys!AddressesAreAccepted
  <1>3. []WalletAddressesAreAccepted
    BY <1>2, PTL
  <1> QED BY <1>3, PTL

=============================================================================
