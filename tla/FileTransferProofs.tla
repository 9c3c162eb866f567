------------------------- MODULE FileTransferProofs -------------------------
(***************************************************************************)
(* For every chunk size, every set of bytes and every file length: a       *)
(* completed TransferSession holds exactly the chunks the sender cut, on a *)
(* transport that loses, repeats, reorders and damages them; the first     *)
(* copy of a chunk stays; and assemble gives the file exactly when all     *)
(* chunks are as they were cut.  The last is by induction over the chunks: *)
(* the first i of them, joined, are the file up to where chunk i begins.   *)
(***************************************************************************)
EXTENDS FileTransfer, FiniteSetTheorems, SequenceTheorems, WellFoundedInduction, TLAPS

\* A file of f bytes has a natural number of chunks (create_file_metadata).
LEMMA ChunkCountNat ==
    ASSUME NEW f \in Seq(Bytes)
    PROVE  ChunkCount(f) \in Nat
  <1>1. Len(f) + CHUNK_SIZE - 1 \in Nat
    BY ChunkSizeAssumption
  <1> DEFINE n == Len(f) + CHUNK_SIZE - 1
  <1>2. n \div CHUNK_SIZE \in Nat
    <2> HIDE DEF n
    <2> QED BY <1>1, ChunkSizeAssumption DEF n
  <1> QED BY <1>2 DEF ChunkCount

\* Every file is a sequence of bytes.
LEMMA FilesAreSequences == Files \subseteq Seq(Bytes)
  BY DEF Files

\* Every chunk split_into_chunks cuts carries a sequence of bytes.
LEMMA ChunkDataType ==
    ASSUME NEW f \in Seq(Bytes), NEW i \in 0 .. ChunkCount(f) - 1
    PROVE  ChunkData(f, i) \in Seq(Bytes)
  <1> DEFINE m == i * CHUNK_SIZE + 1
             n == LesserOf((i + 1) * CHUNK_SIZE, Len(f))
  <1>1. i \in Nat
    BY ChunkCountNat
  <1>2. i * CHUNK_SIZE \in Nat /\ (i + 1) * CHUNK_SIZE \in Nat
    BY <1>1, ChunkSizeAssumption
  <1>3. m \in 1 .. Len(f) + 1 \/ m > Len(f) + 1
    BY <1>2
  <1>4. n \in 0 .. Len(f)
    BY <1>2 DEF LesserOf
  <1>5. \A j \in m .. n : f[j] \in Bytes
    BY <1>2, <1>4
  <1>6. SubSeq(f, m, n) \in Seq(Bytes)
    <2> HIDE DEF m, n
    <2>1. m \in Nat /\ n \in Nat
      BY <1>2, <1>4 DEF m
    <2> QED BY <2>1, <1>5
  <1> QED BY <1>6 DEF ChunkData

\* A damaged chunk keeps its header and still carries bytes.
LEMMA DamagedType ==
    ASSUME NEW S, NEW c \in [index : S, data : Seq(Bytes)], NEW d \in Damaged(c)
    PROVE  d \in [index : S, data : Seq(Bytes)]
  BY DEF Damaged

\* The sender's chunks initially satisfy the invariant.
LEMMA InitIndInv == Init => IndInv
  <1> SUFFICES ASSUME Init PROVE IndInv
    OBVIOUS
  <1>1. file \in Seq(Bytes)
    BY FilesAreSequences DEF Init
  <1>2. total_chunks \in Nat
    BY <1>1, ChunkCountNat DEF total_chunks
  <1>3. wire \subseteq [index : 0 .. total_chunks - 1, data : Seq(Bytes)]
    BY <1>1, ChunkDataType DEF Init, split_into_chunks, total_chunks
  <1>4. DOMAIN chunks = {} /\ Cardinality({}) = 0
    BY FS_EmptySet DEF Init
  <1>5. chunks \in [DOMAIN chunks -> Seq(Bytes)] /\ DOMAIN chunks \subseteq 0 .. total_chunks - 1
    BY <1>4 DEF Init
  <1>6. completed = FALSE /\ completed \in BOOLEAN
    BY DEF Init
  <1>7. received_count = 0 /\ received_count \in 0 .. total_chunks /\ bytes_received \in Nat
    BY <1>2 DEF Init
  <1>8. received_count = Cardinality(DOMAIN chunks)
    BY <1>4, <1>7
  <1> QED
    BY <1>1, <1>3, <1>5, <1>6, <1>7, <1>8 DEF IndInv, TypeOK

\* Storing a new index adds one to the number of stored indices, which stays
\* within total_chunks.
LEMMA StoredCount ==
    ASSUME NEW n \in Nat, NEW D, D \subseteq 0 .. n - 1,
           NEW i \in 0 .. n - 1, i \notin D
    PROVE  /\ Cardinality(D) \in Nat
           /\ Cardinality(D \cup {i}) = Cardinality(D) + 1
           /\ Cardinality(D \cup {i}) <= n
  <1>1. IsFiniteSet(0 .. n - 1) /\ Cardinality(0 .. n - 1) = n
    BY FS_Interval
  <1>2. IsFiniteSet(D)
    BY <1>1, FS_Subset
  <1>3. D \cup {i} \subseteq 0 .. n - 1
    OBVIOUS
  <1>4. Cardinality(D) \in Nat
    BY <1>2, FS_CardinalityType
  <1>5. Cardinality(D \cup {i}) = Cardinality(D) + 1
    BY <1>2, FS_AddElement
  <1>6. Cardinality(D \cup {i}) <= Cardinality(0 .. n - 1)
    BY <1>1, <1>3, FS_Subset
  <1> QED BY <1>1, <1>4, <1>5, <1>6

\* Every step of the transport and of add_chunk preserves the invariant.
LEMMA NextIndInv == IndInv /\ [Next]_vars => IndInv'
  <1> SUFFICES ASSUME IndInv, [Next]_vars PROVE IndInv'
    OBVIOUS
  <1> USE DEF IndInv
  <1>1. total_chunks \in Nat
    BY ChunkCountNat DEF TypeOK, total_chunks
  <1>2. total_chunks' = total_chunks
    BY DEF Next, Deliver, Lose, Damage, vars, total_chunks
  <1>3. ASSUME NEW i \in 0 .. total_chunks - 1, Deliver(i)
        PROVE  IndInv'
    <2>1. PICK c \in wire : c.index = i /\ add_chunk(c)
      BY <1>3 DEF Deliver
    <2>2. c.index \in 0 .. total_chunks - 1 /\ c.data \in Seq(Bytes)
      BY <2>1 DEF TypeOK
    <2>3. CASE AddDuplicate(c)
      BY <1>2, <1>3, <2>3 DEF Deliver, AddDuplicate, session, TypeOK
    <2>4. CASE AddNew(c)
      <3>1. DOMAIN chunks' = DOMAIN chunks \cup {c.index}
        BY <2>4 DEF AddNew
      <3>2. /\ Cardinality(DOMAIN chunks) \in Nat
            /\ Cardinality(DOMAIN chunks') = Cardinality(DOMAIN chunks) + 1
            /\ Cardinality(DOMAIN chunks') <= total_chunks
        BY <1>1, <2>2, <2>4, <3>1, StoredCount DEF AddNew, TypeOK
      <3>3. received_count' = Cardinality(DOMAIN chunks')
        BY <2>4, <3>2 DEF AddNew
      <3>4. chunks' \in [DOMAIN chunks' -> Seq(Bytes)]
        BY <2>2, <2>4, <3>1 DEF AddNew, TypeOK
      <3>5. received_count' \in 0 .. total_chunks
        BY <1>1, <3>2, <3>3
      <3>6. bytes_received' \in Nat /\ completed' \in BOOLEAN
        BY <2>2, <2>4 DEF AddNew, TypeOK
      <3>7. completed' => received_count' >= total_chunks
        BY <1>1, <2>4, <3>2 DEF AddNew, TypeOK
      <3>8. DOMAIN chunks' \subseteq 0 .. total_chunks - 1
        BY <2>2, <3>1 DEF TypeOK
      <3> QED
        BY <1>2, <1>3, <3>3, <3>4, <3>5, <3>6, <3>7, <3>8 DEF TypeOK, Deliver
    <2> QED BY <2>1, <2>3, <2>4 DEF add_chunk
  <1>4. CASE Lose
    BY <1>2, <1>4 DEF Lose, TypeOK, session
  <1>5. CASE Damage
    <2>1. PICK c \in wire : \E d \in Damaged(c) : wire' = wire \cup {d}
      BY <1>5 DEF Damage
    <2>2. wire' \subseteq [index : 0 .. total_chunks - 1, data : Seq(Bytes)]
      BY <2>1, DamagedType DEF TypeOK
    <2> QED BY <1>2, <1>5, <2>2 DEF Damage, TypeOK, session
  <1>6. CASE UNCHANGED vars
    BY <1>2, <1>6 DEF vars, session, TypeOK
  <1> QED BY <1>3, <1>4, <1>5, <1>6 DEF Next

\* The session's bookkeeping is exact in every reachable state.
THEOREM BookkeepingInvariant == Spec => []IndInv
  BY InitIndInv, NextIndInv, PTL DEF Spec

\* The session's state keeps its type: in particular no duplicate ever pushes
\* received_count beyond total_chunks.
THEOREM TypeCorrect == Spec => []TypeOK
  <1>1. IndInv => TypeOK
    BY DEF IndInv
  <1> QED BY <1>1, BookkeepingInvariant, PTL

\* completed, which add_chunk sets from a count, implies that every chunk
\* assemble asks for is present.
THEOREM CompletedMeansWhole == Spec => []CompletedIsWhole
  <1>1. IndInv => CompletedIsWhole
    <2> SUFFICES ASSUME IndInv, completed
                 PROVE  DOMAIN chunks = 0 .. total_chunks - 1
      BY DEF CompletedIsWhole
    <2>1. total_chunks \in Nat
      BY ChunkCountNat DEF IndInv, TypeOK, total_chunks
    <2>2. IsFiniteSet(0 .. total_chunks - 1) /\ Cardinality(0 .. total_chunks - 1) = total_chunks
      BY <2>1, FS_Interval
    <2>3. /\ DOMAIN chunks \subseteq 0 .. total_chunks - 1
          /\ Cardinality(DOMAIN chunks) >= total_chunks
      BY DEF IndInv, TypeOK
    <2>4. Cardinality(DOMAIN chunks) <= total_chunks
      BY <2>2, <2>3, FS_Subset
    <2>5. Cardinality(DOMAIN chunks) = total_chunks
      BY <2>1, <2>2, <2>3, <2>4, FS_Subset, FS_CardinalityType
    <2> QED BY <2>2, <2>3, <2>5, FS_Subset
  <1> QED BY <1>1, BookkeepingInvariant, PTL

\* add_chunk never replaces or drops a stored chunk and never takes completed back.
THEOREM FirstCopyStays == Spec => FirstCopyWins
  <1>1. [Next]_vars => /\ \A i \in DOMAIN chunks : i \in DOMAIN chunks' /\ chunks'[i] = chunks[i]
                       /\ completed => completed'
    <2> SUFFICES ASSUME [Next]_vars
                 PROVE  /\ \A i \in DOMAIN chunks : i \in DOMAIN chunks' /\ chunks'[i] = chunks[i]
                        /\ completed => completed'
      OBVIOUS
    <2>1. ASSUME NEW i \in 0 .. total_chunks - 1, Deliver(i)
          PROVE  /\ \A j \in DOMAIN chunks : j \in DOMAIN chunks' /\ chunks'[j] = chunks[j]
                 /\ completed => completed'
      <3>1. PICK c \in wire : c.index = i /\ add_chunk(c)
        BY <2>1 DEF Deliver
      <3>2. CASE AddDuplicate(c)
        BY <3>2 DEF AddDuplicate, session
      <3>3. CASE AddNew(c)
        <4>1. DOMAIN chunks' = DOMAIN chunks \cup {c.index}
          BY <3>3 DEF AddNew
        <4> QED BY <3>3, <4>1 DEF AddNew
      <3> QED BY <3>1, <3>2, <3>3 DEF add_chunk
    <2>2. CASE Lose \/ Damage \/ UNCHANGED vars
      <3>1. chunks' = chunks /\ completed' = completed
        BY <2>2 DEF Lose, Damage, vars, session
      <3> QED BY <3>1
    <2> QED BY <2>1, <2>2 DEF Next
  <1> QED BY <1>1, PTL DEF Spec, FirstCopyWins

-----------------------------------------------------------------------------
(* assemble.  What it concatenates is built one chunk after the other; by induction *)
(* over the number of chunks, the first n of them are the bytes of the file up to   *)
(* the end of chunk n - 1 exactly when each is the one that was cut.                *)

\* A set that has 0 and with each number the next one has them all.
LEMMA SetInduction ==
    ASSUME NEW P \in SUBSET Nat, 0 \in P, \A n \in P : n + 1 \in P
    PROVE  P = Nat
  <1> DEFINE R == OpToRel(<, Nat)
             rest == Nat \ P
  <1> SUFFICES ASSUME rest # {} PROVE FALSE
    OBVIOUS
  <1>1. IsWellFoundedOn(R, Nat)
    BY NatLessThanWellFounded
  <1>2. \A x, y \in Nat : y < x => <<y, x>> \in R
    BY DEF OpToRel
  <1> HIDE DEF R
  <1>3. PICK n \in rest : \A m \in rest : ~ (<<m, n>> \in R)
    BY <1>1, WFMin
  <1>4. n - 1 \in Nat /\ n - 1 < n
    BY <1>3
  <1>5. n - 1 \in P
    BY <1>2, <1>3, <1>4
  <1> QED BY <1>3, <1>4, <1>5

\* Where chunk i begins.
Offset(f, i) == LesserOf(i * CHUNK_SIZE, Len(f))

LEMMA CountBounds ==
    ASSUME NEW n \in Nat, NEW c \in Nat \ {0}, NEW i \in Nat
    PROVE  /\ i < (n + c - 1) \div c => i * c < n
           /\ n <= ((n + c - 1) \div c) * c
           /\ i * c \in Nat /\ i * c <= (i + 1) * c
  OBVIOUS

LEMMA OffsetFacts ==
    ASSUME NEW f \in Seq(Bytes)
    PROVE  /\ Offset(f, 0) = 0
           /\ Offset(f, ChunkCount(f)) = Len(f)
           /\ \A i \in 0 .. ChunkCount(f) - 1 :
                 /\ Offset(f, i) \in 0 .. Len(f)
                 /\ Offset(f, i + 1) \in Offset(f, i) .. Len(f)
                 /\ ChunkData(f, i) = SubSeq(f, Offset(f, i) + 1, Offset(f, i + 1))
                 /\ ChunkData(f, i) \in Seq(Bytes)
                 /\ Len(ChunkData(f, i)) = Offset(f, i + 1) - Offset(f, i)
  <1>1. Len(f) \in Nat /\ CHUNK_SIZE \in Nat \ {0} /\ ChunkCount(f) \in Nat
    BY ChunkCountNat, ChunkSizeAssumption
  <1>2. Offset(f, 0) = 0
    BY <1>1 DEF Offset, LesserOf
  <1>3. Offset(f, ChunkCount(f)) = Len(f)
    <2>1. Len(f) <= ChunkCount(f) * CHUNK_SIZE
      BY <1>1, CountBounds DEF ChunkCount
    <2> QED BY <1>1, <2>1 DEF Offset, LesserOf
  <1>4. ASSUME NEW i \in 0 .. ChunkCount(f) - 1
        PROVE  /\ Offset(f, i) \in 0 .. Len(f)
               /\ Offset(f, i + 1) \in Offset(f, i) .. Len(f)
               /\ ChunkData(f, i) = SubSeq(f, Offset(f, i) + 1, Offset(f, i + 1))
               /\ ChunkData(f, i) \in Seq(Bytes)
               /\ Len(ChunkData(f, i)) = Offset(f, i + 1) - Offset(f, i)
    <2>1. i \in Nat /\ i < ChunkCount(f)
      BY <1>1
    <2>2. i * CHUNK_SIZE < Len(f) /\ i * CHUNK_SIZE \in Nat
          /\ i * CHUNK_SIZE <= (i + 1) * CHUNK_SIZE /\ (i + 1) * CHUNK_SIZE \in Nat
      <3>1. i * CHUNK_SIZE < Len(f)
        <4> DEFINE c == (Len(f) + CHUNK_SIZE - 1) \div CHUNK_SIZE
        <4>1. i < c
          BY <2>1 DEF ChunkCount
        <4> QED BY <1>1, <2>1, <4>1, CountBounds
      <3>2. \A j \in Nat : j * CHUNK_SIZE \in Nat /\ j * CHUNK_SIZE <= (j + 1) * CHUNK_SIZE
        BY <1>1, CountBounds
      <3>3. i + 1 \in Nat
        BY <2>1
      <3> QED BY <2>1, <3>1, <3>2, <3>3
    <2>3. Offset(f, i) = i * CHUNK_SIZE
      BY <1>1, <2>2 DEF Offset, LesserOf
    <2>4. Offset(f, i) \in 0 .. Len(f) /\ Offset(f, i + 1) \in Offset(f, i) .. Len(f)
      BY <1>1, <2>2, <2>3 DEF Offset, LesserOf
    <2>5. ChunkData(f, i) = SubSeq(f, Offset(f, i) + 1, Offset(f, i + 1))
      BY <2>3 DEF ChunkData, Offset
    <2>6. /\ ChunkData(f, i) \in Seq(Bytes)
          /\ Len(ChunkData(f, i)) = Offset(f, i + 1) - Offset(f, i)
      BY <1>1, <2>4, <2>5, SubSeqProperties
    <2> QED BY <2>4, <2>5, <2>6
  <1> QED BY <1>2, <1>3, <1>4

\* u has, for every i up to n, the first i chunks of cs in one piece.
Joins(cs, n, u) == u = [i \in 0..n |-> IF i = 0 THEN <<>> ELSE u[i - 1] \o cs[i - 1]]
Join(cs, n) == CHOOSE u : Joins(cs, n, u)

LEMMA ConcatIsJoin == ASSUME NEW cs, NEW n PROVE Concat(cs, n) = Join(cs, n)[n]
  BY DEF Concat, Join, Joins

LEMMA JoinExists == ASSUME NEW cs, NEW n \in Nat PROVE Joins(cs, n, Join(cs, n))
  <1> DEFINE P == {k \in Nat : \E u : Joins(cs, k, u)}
  <1>1. 0 \in P
    <2> DEFINE u == [i \in 0..0 |-> <<>>]
    <2>1. Joins(cs, 0, u)
      BY DEF Joins
    <2> QED BY <2>1
  <1>2. ASSUME NEW k \in P PROVE k + 1 \in P
    <2>1. PICK u : Joins(cs, k, u)
      OBVIOUS
    <2> DEFINE v == [i \in 0..k + 1 |-> IF i = k + 1 THEN u[k] \o cs[k] ELSE u[i]]
    <2>2. ASSUME NEW i \in 0..k + 1
          PROVE  v[i] = IF i = 0 THEN <<>> ELSE v[i - 1] \o cs[i - 1]
      <3>1. CASE i = k + 1
        <4>1. i # 0 /\ i - 1 = k /\ k \in 0..k + 1 /\ k # k + 1
          BY <3>1
        <4>2. v[i] = u[k] \o cs[k] /\ v[k] = u[k]
          BY <3>1, <4>1
        <4> QED BY <4>1, <4>2
      <3>2. CASE i # k + 1
        <4>1. i \in 0..k /\ (i # 0 => i - 1 \in 0..k)
          BY <3>2
        <4>2. u[i] = IF i = 0 THEN <<>> ELSE u[i - 1] \o cs[i - 1]
          BY <2>1, <4>1 DEF Joins
        <4> QED BY <3>2, <4>1, <4>2
      <3> QED BY <3>1, <3>2
    <2>3. v = [i \in 0..k + 1 |-> v[i]]
      OBVIOUS
    <2> HIDE DEF v
    <2>4. Joins(cs, k + 1, v)
      BY <2>2, <2>3 DEF Joins
    <2> QED BY <2>4
  <1> HIDE DEF P
  <1>3. P = Nat
    BY <1>1, <1>2, SetInduction DEF P
  <1>4. \E u : Joins(cs, n, u)
    BY <1>3 DEF P
  <1> QED BY <1>4 DEF Join

LEMMA JoinStep ==
    ASSUME NEW cs, NEW n \in Nat, NEW i \in 0 .. n - 1
    PROVE  Join(cs, n)[0] = <<>> /\ Join(cs, n)[i + 1] = Join(cs, n)[i] \o cs[i]
  <1>1. Joins(cs, n, Join(cs, n))
    BY JoinExists
  <1>2. 0 \in 0..n /\ i + 1 \in 0..n /\ i + 1 # 0 /\ (i + 1) - 1 = i
    OBVIOUS
  <1> QED BY <1>1, <1>2 DEF Joins

LEMMA JoinEmpty == ASSUME NEW cs, NEW n \in Nat PROVE Join(cs, n)[0] = <<>>
  <1>1. Joins(cs, n, Join(cs, n))
    BY JoinExists
  <1>2. 0 \in 0..n
    OBVIOUS
  <1> QED BY <1>1, <1>2 DEF Joins

\* The beginning of f and the part that follows it are a longer beginning of f.
LEMMA JoinPrefix ==
    ASSUME NEW f \in Seq(Bytes), NEW m \in 0 .. Len(f), NEW k \in m .. Len(f)
    PROVE  SubSeq(f, 1, m) \o SubSeq(f, m + 1, k) = SubSeq(f, 1, k)
  <1> DEFINE s == SubSeq(f, 1, m)
             t == SubSeq(f, m + 1, k)
             p == SubSeq(f, 1, k)
  <1>1. s \in Seq(Bytes) /\ Len(s) = m /\ \A i \in 1..m : s[i] = f[i]
    BY SubSeqProperties
  <1>2. t \in Seq(Bytes) /\ Len(t) = k - m /\ \A i \in 1..k - m : t[i] = f[m + i]
    BY SubSeqProperties
  <1>3. p \in Seq(Bytes) /\ Len(p) = k /\ \A i \in 1..k : p[i] = f[i]
    BY SubSeqProperties
  <1> HIDE DEF s, t, p
  <1>0. Len(f) \in Nat /\ m \in Nat /\ k \in Nat /\ m <= k
    OBVIOUS
  <1>4. /\ s \o t \in Seq(Bytes)
        /\ Len(s \o t) = m + (k - m)
        /\ \A i \in 1 .. m + (k - m) : (s \o t)[i] = IF i <= m THEN s[i] ELSE t[i - m]
    <2>1. s \in Seq(Bytes) /\ t \in Seq(Bytes)
      BY <1>1, <1>2
    <2>2. /\ s \o t \in Seq(Bytes)
          /\ Len(s \o t) = Len(s) + Len(t)
          /\ \A i \in 1 .. Len(s) + Len(t) :
                (s \o t)[i] = IF i <= Len(s) THEN s[i] ELSE t[i - Len(s)]
      BY <2>1, ConcatProperties
    <2>3. Len(s) = m /\ Len(t) = k - m
      BY <1>1, <1>2
    <2> QED BY <2>2, <2>3, Zenon
  <1>5. ASSUME NEW i \in 1..k PROVE (s \o t)[i] = p[i]
    <2>1. m + (k - m) = k
      BY <1>0
    <2>2. (s \o t)[i] = IF i <= m THEN s[i] ELSE t[i - m]
      BY <1>4, <2>1
    <2>3. p[i] = f[i]
      BY <1>3
    <2>4. CASE i <= m
      <3>1. i \in 1..m
        BY <1>0, <2>4
      <3> QED BY <1>1, <2>2, <2>3, <2>4, <3>1
    <2>5. CASE ~ (i <= m)
      <3>1. i - m \in 1..k - m /\ m + (i - m) = i
        BY <1>0, <2>5
      <3>2. t[i - m] = f[m + (i - m)]
        BY <1>2, <3>1
      <3> QED BY <2>2, <2>3, <2>5, <3>1, <3>2
    <2> QED BY <2>4, <2>5
  <1>6. s \o t = p
    <2>1. Len(s \o t) = k
      BY <1>0, <1>4
    <2> QED BY <1>3, <1>4, <1>5, <2>1, SeqEqual
  <1> QED BY <1>6 DEF s, t, p

\* Two pieces that make up the beginning of f are the two parts of it.
LEMMA SplitPrefix ==
    ASSUME NEW f \in Seq(Bytes), NEW m \in 0 .. Len(f), NEW k \in m .. Len(f),
           NEW s \in Seq(Bytes), NEW t \in Seq(Bytes), Len(s) = m, Len(t) = k - m,
           s \o t = SubSeq(f, 1, k)
    PROVE  s = SubSeq(f, 1, m) /\ t = SubSeq(f, m + 1, k)
  <1>1. \A i \in 1..k : (s \o t)[i] = f[i]
    BY SubSeqProperties
  <1>2. \A i \in 1..m : s[i] = f[i]
    BY <1>1, ConcatProperties
  <1>3. \A i \in 1..k - m : t[i] = f[m + i]
    <2> TAKE i \in 1..k - m
    <2>1. m + i \in 1..k /\ m + i > m /\ (m + i) - m = i
      OBVIOUS
    <2>2. (s \o t)[m + i] = t[i]
      <3> DEFINE j == m + i
      <3>1. j \in 1..Len(s) + Len(t) /\ ~ (j <= Len(s)) /\ j - Len(s) = i
        BY <2>1
      <3> HIDE DEF j
      <3>2. (s \o t)[j] = t[j - Len(s)]
        BY <3>1, ConcatProperties
      <3> QED BY <3>1, <3>2 DEF j
    <2> QED BY <1>1, <2>1, <2>2
  <1>4. /\ SubSeq(f, 1, m) \in Seq(Bytes) /\ Len(SubSeq(f, 1, m)) = m
        /\ \A i \in 1..m : SubSeq(f, 1, m)[i] = f[i]
    BY SubSeqProperties
  <1>5. /\ SubSeq(f, m + 1, k) \in Seq(Bytes) /\ Len(SubSeq(f, m + 1, k)) = k - m
        /\ \A i \in 1..k - m : SubSeq(f, m + 1, k)[i] = f[m + i]
    BY SubSeqProperties
  <1>6. s = SubSeq(f, 1, m)
    BY <1>2, <1>4, SeqEqual
  <1>7. t = SubSeq(f, m + 1, k)
    <2> DEFINE u == SubSeq(f, m + 1, k)
    <2>1. u \in Seq(Bytes) /\ Len(u) = Len(t) /\ \A i \in 1..Len(t) : t[i] = u[i]
      BY <1>3, <1>5
    <2> HIDE DEF u
    <2>2. t = u
      BY <2>1, SeqEqual
    <2> QED BY <2>2 DEF u
  <1> QED BY <1>6, <1>7

\* What assemble concatenates is the file, if each chunk is the one that was cut.
LEMMA CutThenJoin ==
    ASSUME NEW f \in Seq(Bytes), NEW cs,
           \A i \in 0 .. ChunkCount(f) - 1 : cs[i] = ChunkData(f, i)
    PROVE  Concat(cs, ChunkCount(f)) = f
  <1> DEFINE n == ChunkCount(f)
             u == Join(cs, n)
             P == {k \in Nat : k <= n => u[k] = SubSeq(f, 1, Offset(f, k))}
  <1>1. n \in Nat
    BY ChunkCountNat
  <1>2. Offset(f, 0) = 0 /\ Offset(f, n) = Len(f)
    BY OffsetFacts
  <1>3. 0 \in P
    <2>1. u[0] = <<>>
      BY <1>1, JoinEmpty
    <2>2. SubSeq(f, 1, 0) = <<>>
      OBVIOUS
    <2> HIDE DEF u, n
    <2> QED BY <1>2, <2>1, <2>2
  <1>4. ASSUME NEW k \in P PROVE k + 1 \in P
    <2> SUFFICES ASSUME k + 1 <= n PROVE u[k + 1] = SubSeq(f, 1, Offset(f, k + 1))
      OBVIOUS
    <2>1. k \in Nat /\ k \in 0 .. n - 1 /\ k <= n
      BY <1>1
    <2>2. u[k] = SubSeq(f, 1, Offset(f, k))
      BY <2>1
    <2>3. u[k + 1] = u[k] \o cs[k]
      BY <1>1, <2>1, JoinStep
    <2>4. cs[k] = SubSeq(f, Offset(f, k) + 1, Offset(f, k + 1))
      BY <2>1, OffsetFacts
    <2>5. Offset(f, k) \in 0 .. Len(f) /\ Offset(f, k + 1) \in Offset(f, k) .. Len(f)
      BY <2>1, OffsetFacts
    <2> HIDE DEF u, n, P
    <2> QED BY <2>2, <2>3, <2>4, <2>5, JoinPrefix
  <1>5. P = Nat
    <2> HIDE DEF u, n
    <2>1. P \in SUBSET Nat
      OBVIOUS
    <2> HIDE DEF P
    <2> QED BY <1>3, <1>4, <2>1, SetInduction
  <1>6. u[n] = SubSeq(f, 1, Len(f))
    <2> HIDE DEF u, n
    <2> QED BY <1>1, <1>2, <1>5
  <1>7. SubSeq(f, 1, Len(f)) = f
    BY SubSeqFull
  <1> QED BY <1>6, <1>7, ConcatIsJoin

\* The converse: pieces of the right length that make up the file are its chunks.
LEMMA JoinThenCut ==
    ASSUME NEW f \in Seq(Bytes), NEW cs,
           \A i \in 0 .. ChunkCount(f) - 1 :
              cs[i] \in Seq(Bytes) /\ Len(cs[i]) = Len(ChunkData(f, i)),
           Concat(cs, ChunkCount(f)) = f
    PROVE  \A i \in 0 .. ChunkCount(f) - 1 : cs[i] = ChunkData(f, i)
  <1> DEFINE n == ChunkCount(f)
             u == Join(cs, n)
             P == {k \in Nat : k <= n => u[k] \in Seq(Bytes) /\ Len(u[k]) = Offset(f, k)}
             Q == {k \in Nat : k <= n => u[n - k] = SubSeq(f, 1, Offset(f, n - k))}
  <1>1. n \in Nat
    BY ChunkCountNat
  <1>2. Offset(f, 0) = 0 /\ Offset(f, n) = Len(f) /\ Len(f) \in Nat
    BY OffsetFacts
  <1>3. ASSUME NEW i \in 0 .. n - 1
        PROVE  /\ Offset(f, i) \in 0 .. Len(f)
               /\ Offset(f, i + 1) \in Offset(f, i) .. Len(f)
               /\ ChunkData(f, i) = SubSeq(f, Offset(f, i) + 1, Offset(f, i + 1))
               /\ cs[i] \in Seq(Bytes) /\ Len(cs[i]) = Offset(f, i + 1) - Offset(f, i)
               /\ u[i + 1] = u[i] \o cs[i]
    BY <1>1, OffsetFacts, JoinStep
  <1>4. u[0] = <<>> /\ u[n] = f
    BY <1>1, JoinEmpty, ConcatIsJoin
  <1> HIDE DEF n, u
  <1>5. 0 \in P
    <2>1. <<>> \in Seq(Bytes) /\ Len(<<>>) = 0
      OBVIOUS
    <2> QED BY <1>2, <1>4, <2>1
  <1>6. ASSUME NEW k \in P PROVE k + 1 \in P
    <2> SUFFICES ASSUME k + 1 <= n
                 PROVE  u[k + 1] \in Seq(Bytes) /\ Len(u[k + 1]) = Offset(f, k + 1)
      OBVIOUS
    <2>1. k \in 0 .. n - 1 /\ u[k] \in Seq(Bytes) /\ Len(u[k]) = Offset(f, k)
      BY <1>1
    <2> HIDE DEF P
    <2>2. u[k] \o cs[k] \in Seq(Bytes) /\ Len(u[k] \o cs[k]) = Len(u[k]) + Len(cs[k])
      BY <1>3, <2>1, ConcatProperties
    <2>3. /\ Offset(f, k) \in 0 .. Len(f) /\ Offset(f, k + 1) \in Offset(f, k) .. Len(f)
          /\ Len(cs[k]) = Offset(f, k + 1) - Offset(f, k) /\ u[k + 1] = u[k] \o cs[k]
      BY <1>3, <2>1
    <2>4. Len(u[k]) + Len(cs[k]) = Offset(f, k + 1)
      <3>1. ASSUME NEW z \in Nat, NEW x \in 0 .. z, NEW y \in x .. z
            PROVE  x + (y - x) = y
        OBVIOUS
      <3> QED BY <1>2, <2>1, <2>3, <3>1
    <2> QED BY <2>2, <2>3, <2>4
  <1>7. P = Nat
    <2>1. P \in SUBSET Nat
      OBVIOUS
    <2> HIDE DEF P
    <2> QED BY <1>5, <1>6, <2>1, SetInduction
  <1>8. \A k \in 0 .. n : u[k] \in Seq(Bytes) /\ Len(u[k]) = Offset(f, k)
    BY <1>1, <1>7
  <1> HIDE DEF P
  <1>9. ASSUME NEW i \in 0 .. n - 1, u[i + 1] = SubSeq(f, 1, Offset(f, i + 1))
        PROVE  u[i] = SubSeq(f, 1, Offset(f, i)) /\ cs[i] = ChunkData(f, i)
    <2>1. i \in 0 .. n
      BY <1>1
    <2>2. u[i] \in Seq(Bytes) /\ Len(u[i]) = Offset(f, i)
      BY <1>8, <2>1
    <2> DEFINE a == Offset(f, i)
               b == Offset(f, i + 1)
    <2>3. /\ a \in 0 .. Len(f) /\ b \in a .. Len(f)
          /\ ChunkData(f, i) = SubSeq(f, a + 1, b)
          /\ cs[i] \in Seq(Bytes) /\ Len(cs[i]) = b - a
          /\ u[i] \o cs[i] = SubSeq(f, 1, b)
      BY <1>3, <1>9
    <2>4. Len(u[i]) = a
      BY <2>2
    <2> HIDE DEF a, b
    <2>5. u[i] = SubSeq(f, 1, a) /\ cs[i] = SubSeq(f, a + 1, b)
      BY <2>2, <2>3, <2>4, SplitPrefix
    <2> QED BY <2>3, <2>5 DEF a
  <1>10. 0 \in Q
    <2>1. f = SubSeq(f, 1, Len(f))
      BY SubSeqFull
    <2>2. n - 0 = n
      BY <1>1
    <2> QED BY <1>2, <1>4, <2>1, <2>2
  <1>11. ASSUME NEW k \in Q PROVE k + 1 \in Q
    <2> SUFFICES ASSUME k + 1 <= n
                 PROVE  u[n - (k + 1)] = SubSeq(f, 1, Offset(f, n - (k + 1)))
      OBVIOUS
    <2>1. n - (k + 1) \in 0 .. n - 1 /\ (n - (k + 1)) + 1 = n - k /\ k <= n
      BY <1>1
    <2>2. u[n - k] = SubSeq(f, 1, Offset(f, n - k))
      BY <2>1
    <2> HIDE DEF Q
    <2> QED BY <1>9, <2>1, <2>2
  <1>12. Q = Nat
    <2>1. Q \in SUBSET Nat
      OBVIOUS
    <2> HIDE DEF Q
    <2> QED BY <1>10, <1>11, <2>1, SetInduction
  <1>13. ASSUME NEW i \in 0 .. n - 1 PROVE cs[i] = ChunkData(f, i)
    <2>1. n - (i + 1) \in Nat /\ n - (i + 1) <= n /\ n - (n - (i + 1)) = i + 1
      BY <1>1
    <2>2. u[i + 1] = SubSeq(f, 1, Offset(f, i + 1))
      BY <1>12, <2>1
    <2> QED BY <1>9, <2>2
  <1> QED BY <1>13 DEF n

-----------------------------------------------------------------------------
\* A damaged chunk keeps its length, so every chunk under way or stored is as long
\* as the one that was cut.
AsLongAsCut ==
    /\ \A c \in wire : Len(c.data) = Len(ChunkData(file, c.index))
    /\ \A i \in DOMAIN chunks : Len(chunks[i]) = Len(ChunkData(file, i))

LEMMA LengthsStay == Spec => []AsLongAsCut
  <1>1. Init => AsLongAsCut
    BY DEF Init, AsLongAsCut, split_into_chunks
  <1>2. IndInv /\ AsLongAsCut /\ [Next]_vars => AsLongAsCut'
    <2> SUFFICES ASSUME IndInv, AsLongAsCut, [Next]_vars PROVE AsLongAsCut'
      OBVIOUS
    <2>1. ASSUME NEW i \in 0 .. total_chunks - 1, Deliver(i) PROVE AsLongAsCut'
      <3>1. PICK c \in wire : c.index = i /\ add_chunk(c)
        BY <2>1 DEF Deliver
      <3>2. file' = file /\ wire' = wire
        BY <2>1 DEF Deliver
      <3>3. CASE AddDuplicate(c)
        BY <3>2, <3>3 DEF AddDuplicate, session, AsLongAsCut
      <3>4. CASE AddNew(c)
        <4>1. DOMAIN chunks' = DOMAIN chunks \cup {c.index}
          BY <3>4 DEF AddNew
        <4>2. \A j \in DOMAIN chunks' : chunks'[j] = IF j = c.index THEN c.data ELSE chunks[j]
          BY <3>4 DEF AddNew
        <4> QED BY <3>1, <3>2, <4>1, <4>2 DEF AsLongAsCut
      <3> QED BY <3>1, <3>3, <3>4 DEF add_chunk
    <2>2. CASE Lose
      BY <2>2 DEF Lose, session, AsLongAsCut
    <2>3. CASE Damage
      <3>1. PICK c \in wire : \E d \in Damaged(c) : wire' = wire \cup {d}
        BY <2>3 DEF Damage
      <3>2. PICK d \in Damaged(c) : wire' = wire \cup {d}
        BY <3>1
      <3>3. d.index = c.index /\ Len(d.data) = Len(c.data)
        <4>1. PICK k \in 1..Len(c.data), b \in Bytes :
                      d = [index |-> c.index, data |-> [c.data EXCEPT ![k] = b]]
          BY <3>2 DEF Damaged
        <4>2. c.data \in Seq(Bytes)
          BY DEF IndInv, TypeOK
        <4> QED BY <4>1, <4>2
      <3>4. file' = file /\ chunks' = chunks
        BY <2>3 DEF Damage, session
      <3> QED BY <3>2, <3>3, <3>4 DEF AsLongAsCut
    <2>4. CASE UNCHANGED vars
      BY <2>4 DEF vars, session, AsLongAsCut
    <2> QED BY <2>1, <2>2, <2>3, <2>4 DEF Next
  <1> QED BY <1>1, <1>2, BookkeepingInvariant, PTL DEF Spec

\* assemble returns the file exactly when every stored chunk is the one that was cut,
\* for files of every length and chunks of every size: the cut and the concatenation
\* are inverse, and no damage to a chunk goes unnoticed.
THEOREM AssembleIsExact == Spec => []AssembleExact
  <1>1. IndInv /\ AsLongAsCut => AssembleExact
    <2> SUFFICES ASSUME IndInv, AsLongAsCut PROVE AssembleExact
      OBVIOUS
    <2> DEFINE whole == 0 .. total_chunks - 1 \subseteq DOMAIN chunks
               cut   == \A i \in 0 .. total_chunks - 1 : chunks[i] = ChunkData(file, i)
    <2>1. file \in Seq(Bytes) /\ chunks \in [DOMAIN chunks -> Seq(Bytes)]
      BY DEF IndInv, TypeOK
    <2>2. cut => Concat(chunks, total_chunks) = file
      BY <2>1, CutThenJoin DEF total_chunks
    <2>3. whole /\ Concat(chunks, total_chunks) = file => cut
      <3> SUFFICES ASSUME whole, Concat(chunks, total_chunks) = file PROVE cut
        OBVIOUS
      <3>1. \A i \in 0 .. total_chunks - 1 :
               chunks[i] \in Seq(Bytes) /\ Len(chunks[i]) = Len(ChunkData(file, i))
        BY <2>1 DEF AsLongAsCut
      <3> QED BY <2>1, <3>1, JoinThenCut DEF total_chunks
    <2>4. assemble = "file" <=> whole /\ Concat(chunks, total_chunks) = file
      BY DEF assemble
    <2> QED BY <2>2, <2>3, <2>4 DEF AssembleExact
  <1> QED BY <1>1, LengthsStay, BookkeepingInvariant, PTL

=============================================================================
