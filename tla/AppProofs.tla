------------------------------ MODULE AppProofs ------------------------------
(***************************************************************************)
(* Three services of the app: the proposals, for any number of voters and  *)
(* votes; the stored identity, for any number of identities, calls,        *)
(* refusals, timeouts and kills; and the onion circuits, for any number of *)
(* nodes, regions, hops and circuits.                                      *)
(***************************************************************************)
EXTENDS MCApp, FiniteSetTheorems, SequenceTheorems, WellFoundedInduction, TLAPS

(* Proposals and votes. *)

LEMMA VotesAreCounted == \A S : DAO!Cardinality(S) = Cardinality(S)
  BY DEF DAO!Cardinality, Cardinality

Proposals == [status : {"Active", "Passed", "Rejected"}, count : [DAO!Choices -> Nat],
              ended : BOOLEAN]

\* The proposals are numbered from 1 and fit their counters; an open sheet belongs to
\* an undecided one, and the votes that stand were all counted.
ProposalsInv ==
    /\ \E n \in Nat : DOMAIN made = 1..n
    /\ made \in [DOMAIN made -> Proposals]
    /\ votes \subseteq [proposalId : DOMAIN made, voterDid : Voters, choice : DAO!Choices]
    /\ IsFiniteSet(votes)
    /\ sheet # NoSheet => sheet \in DOMAIN made /\ made[sheet].status = "Active"
    /\ DAO!OutcomeFitsCounts
    /\ \A id \in DOMAIN made, c \in DAO!Choices :
           Cardinality(DAO!VotesFor(id, c)) <= made[id].count[c]
    /\ \A v, w \in votes : v.proposalId = w.proposalId /\ v.voterDid = w.voterDid => v = w

\* A count of one choice of a proposal is raised; what the vote decides is decided on
\* the raised counts.
LEMMA VoteDecides ==
    ASSUME NEW p \in Proposals, NEW c \in DAO!Choices, p.status = "Active",
           ~ DAO!quorumReached(p)
    PROVE  LET q == DAO!Decided([p EXCEPT !.count[c] = @ + 1]) IN
           /\ q \in Proposals
           /\ q.count[c] = p.count[c] + 1
           /\ \A d \in DAO!Choices \ {c} : q.count[d] = p.count[d]
           /\ q.status = IF ~ DAO!quorumReached(q) THEN "Active"
                         ELSE IF 2 * q.count["for"] > DAO!totalVotes(q) THEN "Passed"
                         ELSE "Rejected"
  <1> DEFINE r == [p EXCEPT !.count[c] = @ + 1]
             q == DAO!Decided(r)
  <1> SUFFICES /\ q \in Proposals
               /\ q.count[c] = p.count[c] + 1
               /\ \A d \in DAO!Choices \ {c} : q.count[d] = p.count[d]
               /\ q.status = IF ~ DAO!quorumReached(q) THEN "Active"
                             ELSE IF 2 * q.count["for"] > DAO!totalVotes(q) THEN "Passed"
                             ELSE "Rejected"
    BY Zenon
  <1>1. /\ r \in Proposals /\ r.status = "Active" /\ r.count[c] = p.count[c] + 1
        /\ \A d \in DAO!Choices \ {c} : r.count[d] = p.count[d]
    BY DEF Proposals
  <1>2. q = IF DAO!quorumReached(r) /\ r.status = "Active"
            THEN [r EXCEPT !.status = IF 2 * r.count["for"] > DAO!totalVotes(r)
                                      THEN "Passed" ELSE "Rejected"]
            ELSE r
    BY DEF DAO!Decided
  <1> HIDE DEF q, r
  <1>3. CASE ~ DAO!quorumReached(r)
    <2>1. q = r
      BY <1>2, <1>3
    <2> QED BY <1>1, <1>3, <2>1
  <1>4. CASE DAO!quorumReached(r)
    <2> DEFINE outcome == IF 2 * r.count["for"] > DAO!totalVotes(r) THEN "Passed" ELSE "Rejected"
    <2>1. q = [r EXCEPT !.status = outcome]
      BY <1>1, <1>2, <1>4
    <2>2. outcome \in {"Passed", "Rejected"}
      OBVIOUS
    <2> HIDE DEF outcome
    <2>3. q \in Proposals /\ q.count = r.count /\ q.status = outcome
      BY <1>1, <2>1, <2>2 DEF Proposals
    <2>4. DAO!totalVotes(q) = DAO!totalVotes(r)
      BY <2>3 DEF DAO!totalVotes
    <2>5. DAO!quorumReached(q)
      BY <1>4, <2>4 DEF DAO!quorumReached
    <2>6. q.status = IF 2 * q.count["for"] > DAO!totalVotes(q) THEN "Passed" ELSE "Rejected"
      BY <2>3, <2>4 DEF outcome
    <2> QED BY <1>1, <2>3, <2>5, <2>6
  <1> QED BY <1>3, <1>4

LEMMA ProposalsFirst == DAO!Init => ProposalsInv
  <1> SUFFICES ASSUME DAO!Init PROVE ProposalsInv
    OBVIOUS
  <1>1. made = <<>> /\ votes = {} /\ sheet = NoSheet
    BY DEF DAO!Init
  <1>2. DOMAIN made = {} /\ DOMAIN made = 1..0 /\ 0 \in Nat
    BY <1>1
  <1>3. made \in [DOMAIN made -> Proposals]
    BY <1>1, <1>2
  <1>4. IsFiniteSet(votes)
    BY <1>1, FS_EmptySet
  <1> QED BY <1>1, <1>2, <1>3, <1>4 DEF ProposalsInv, DAO!OutcomeFitsCounts

LEMMA ProposalsCreated == ProposalsInv /\ DAO!createProposal => ProposalsInv'
  <1> SUFFICES ASSUME ProposalsInv, DAO!createProposal PROVE ProposalsInv'
    OBVIOUS
  <1>1. PICK n \in Nat : DOMAIN made = 1..n
    BY DEF ProposalsInv
  <1>2. DAO!Cardinality(DOMAIN made) = n
    BY <1>1, VotesAreCounted, FS_Interval
  <1> DEFINE new == [status |-> "Active", count |-> [c \in DAO!Choices |-> 0], ended |-> FALSE]
  <1>3. /\ made' = [id \in DOMAIN made \cup {n + 1} |-> IF id \in DOMAIN made THEN made[id] ELSE new]
        /\ votes' = votes /\ sheet' = sheet
    BY <1>2 DEF DAO!createProposal
  <1>4. new \in Proposals
    BY DEF Proposals
  <1>5. new.status = "Active" /\ new.count = [c \in DAO!Choices |-> 0] /\ ~ DAO!quorumReached(new)
    BY ProposalsAssumption DEF DAO!PowerAssumption, DAO!quorumReached, DAO!totalVotes, DAO!Choices
  <1> HIDE DEF new
  <1>6. DOMAIN made' = 1..n + 1 /\ n + 1 \in Nat /\ n + 1 \notin DOMAIN made
    BY <1>1, <1>3
  <1>7. \A id \in DOMAIN made : id \in DOMAIN made' /\ made'[id] = made[id]
    BY <1>3
  <1>8. made'[n + 1] = new /\ \A id \in DOMAIN made' : id \in DOMAIN made \/ id = n + 1
    BY <1>3, <1>6
  <1>9. made' \in [DOMAIN made' -> Proposals]
    BY <1>3, <1>4 DEF ProposalsInv
  <1>10. votes' \subseteq [proposalId : DOMAIN made', voterDid : Voters, choice : DAO!Choices]
    BY <1>3, <1>7 DEF ProposalsInv
  <1>11. sheet' # NoSheet => sheet' \in DOMAIN made' /\ made'[sheet'].status = "Active"
    BY <1>3, <1>7 DEF ProposalsInv
  <1>12. DAO!OutcomeFitsCounts'
    BY <1>5, <1>7, <1>8 DEF ProposalsInv, DAO!OutcomeFitsCounts, DAO!quorumReached, DAO!totalVotes
  <1>13. ASSUME NEW id \in DOMAIN made', NEW c \in DAO!Choices
         PROVE  Cardinality(DAO!VotesFor(id, c)') <= made'[id].count[c]
    <2>1. DAO!VotesFor(id, c)' = DAO!VotesFor(id, c)
      BY <1>3 DEF DAO!VotesFor
    <2>2. CASE id \in DOMAIN made
      BY <1>7, <2>1, <2>2 DEF ProposalsInv
    <2>3. CASE id = n + 1
      <3>1. DAO!VotesFor(id, c) = {}
        BY <1>6, <2>3 DEF ProposalsInv, DAO!VotesFor
      <3> QED BY <1>5, <1>8, <2>1, <2>3, <3>1, FS_EmptySet
    <2> QED BY <1>8, <2>2, <2>3
  <1> QED BY <1>3, <1>6, <1>9, <1>10, <1>11, <1>12, <1>13 DEF ProposalsInv

LEMMA ProposalsVoted ==
    ASSUME ProposalsInv, NEW id \in DOMAIN made, NEW voter \in Voters, NEW choice \in DAO!Choices,
           DAO!vote(id, voter, choice)
    PROVE  ProposalsInv'
  <1> DEFINE q == DAO!Decided([made[id] EXCEPT !.count[choice] = @ + 1])
             new == [proposalId |-> id, voterDid |-> voter, choice |-> choice]
  <1>1. sheet = id /\ sheet' = NoSheet /\ made' = [made EXCEPT ![id] = q]
        /\ votes' = {v \in votes : ~ (v.proposalId = id /\ v.voterDid = voter)} \cup {new}
    BY DEF DAO!vote, DAO!SheetAfterVote, DAO!Recorded, DAO!Counted
  <1>2. PICK n \in Nat : DOMAIN made = 1..n
    BY DEF ProposalsInv
  <1>3. made[id] \in Proposals /\ made[id].status = "Active"
    <2>1. id \in Nat /\ id # NoSheet
      BY <1>2, ProposalsAssumption DEF DAO!PowerAssumption
    <2> QED BY <1>1, <2>1 DEF ProposalsInv
  <1>4. ~ DAO!quorumReached(made[id])
    BY <1>3 DEF ProposalsInv, DAO!OutcomeFitsCounts
  <1>5. /\ q \in Proposals
        /\ q.count[choice] = made[id].count[choice] + 1
        /\ \A d \in DAO!Choices \ {choice} : q.count[d] = made[id].count[d]
        /\ q.status = IF ~ DAO!quorumReached(q) THEN "Active"
                      ELSE IF 2 * q.count["for"] > DAO!totalVotes(q) THEN "Passed"
                      ELSE "Rejected"
    BY <1>3, <1>4, VoteDecides
  <1> HIDE DEF q
  <1>6. DOMAIN made' = DOMAIN made /\ made'[id] = q
        /\ \A i \in DOMAIN made \ {id} : made'[i] = made[i]
    BY <1>1
  <1>7. made' \in [DOMAIN made' -> Proposals]
    BY <1>1, <1>5, <1>6 DEF ProposalsInv
  <1>8. votes' \subseteq [proposalId : DOMAIN made', voterDid : Voters, choice : DAO!Choices]
    BY <1>1, <1>6 DEF ProposalsInv
  <1>9. IsFiniteSet(votes')
    <2>1. IsFiniteSet({v \in votes : ~ (v.proposalId = id /\ v.voterDid = voter)})
      BY FS_Subset DEF ProposalsInv
    <2> QED BY <1>1, <2>1, FS_AddElement
  <1>10. DAO!OutcomeFitsCounts'
    <2> SUFFICES ASSUME NEW i \in DOMAIN made'
                 PROVE  made'[i].status =
                            IF ~ DAO!quorumReached(made'[i]) THEN "Active"
                            ELSE IF 2 * made'[i].count["for"] > DAO!totalVotes(made'[i])
                            THEN "Passed" ELSE "Rejected"
      BY DEF DAO!OutcomeFitsCounts, DAO!quorumReached, DAO!totalVotes
    <2>1. CASE i = id
      BY <1>5, <1>6, <2>1
    <2>2. CASE i # id
      <3>1. i \in DOMAIN made /\ made'[i] = made[i]
        BY <1>6, <2>2
      <3>2. made[i].status =
                IF ~ DAO!quorumReached(made[i]) THEN "Active"
                ELSE IF 2 * made[i].count["for"] > DAO!totalVotes(made[i])
                THEN "Passed" ELSE "Rejected"
        BY <3>1 DEF ProposalsInv, DAO!OutcomeFitsCounts
      <3> QED BY <3>1, <3>2, Zenon
    <2> QED BY <2>1, <2>2
  <1>11. ASSUME NEW i \in DOMAIN made', NEW c \in DAO!Choices
         PROVE  Cardinality(DAO!VotesFor(i, c)') <= made'[i].count[c]
    <2>1. IsFiniteSet(DAO!VotesFor(i, c)) /\ Cardinality(DAO!VotesFor(i, c)) <= made[i].count[c]
          /\ Cardinality(DAO!VotesFor(i, c)) \in Nat
      BY <1>6, FS_Subset, FS_CardinalityType DEF ProposalsInv, DAO!VotesFor
    <2>2. CASE i = id /\ c = choice
      <3>1. DAO!VotesFor(i, c)' \subseteq DAO!VotesFor(i, c) \cup {new}
        BY <1>1 DEF DAO!VotesFor
      <3>2. IsFiniteSet(DAO!VotesFor(i, c) \cup {new})
            /\ Cardinality(DAO!VotesFor(i, c) \cup {new}) <= Cardinality(DAO!VotesFor(i, c)) + 1
            /\ Cardinality(DAO!VotesFor(i, c) \cup {new}) \in Nat
        <4> DEFINE V == DAO!VotesFor(i, c)
        <4>1. IsFiniteSet(V)
          BY <2>1
        <4> HIDE DEF V, new
        <4>2. /\ IsFiniteSet(V \cup {new})
              /\ \/ Cardinality(V \cup {new}) = Cardinality(V)
                 \/ Cardinality(V \cup {new}) = Cardinality(V) + 1
          BY <4>1, FS_AddElement
        <4>3. Cardinality(V) \in Nat
          BY <4>1, FS_CardinalityType
        <4>4. Cardinality(V \cup {new}) \in Nat /\ Cardinality(V \cup {new}) <= Cardinality(V) + 1
          BY <4>2, <4>3
        <4> QED BY <4>2, <4>4 DEF V
      <3>3. Cardinality(DAO!VotesFor(i, c)') <= Cardinality(DAO!VotesFor(i, c) \cup {new})
            /\ Cardinality(DAO!VotesFor(i, c)') \in Nat
        BY <3>1, <3>2, FS_Subset, FS_CardinalityType
      <3>4. made'[i].count[c] = made[i].count[c] + 1 /\ made[i].count[c] \in Nat
        BY <1>3, <1>5, <1>6, <2>2 DEF Proposals
      <3> QED BY <2>1, <3>2, <3>3, <3>4
    <2>3. CASE ~ (i = id /\ c = choice)
      <3>1. DAO!VotesFor(i, c)' \subseteq DAO!VotesFor(i, c)
        BY <1>1, <2>3 DEF DAO!VotesFor
      <3>2. Cardinality(DAO!VotesFor(i, c)') <= Cardinality(DAO!VotesFor(i, c))
            /\ Cardinality(DAO!VotesFor(i, c)') \in Nat
        BY <2>1, <3>1, FS_Subset, FS_CardinalityType
      <3>3. made'[i].count[c] = made[i].count[c] /\ made[i].count[c] \in Nat
        <4>1. made[i] \in Proposals
          BY <1>6 DEF ProposalsInv
        <4> QED BY <1>5, <1>6, <2>3, <4>1 DEF Proposals
      <3> QED BY <2>1, <3>2, <3>3
    <2> QED BY <2>2, <2>3
  <1>12. ASSUME NEW v \in votes', NEW w \in votes',
                v.proposalId = w.proposalId /\ v.voterDid = w.voterDid
         PROVE  v = w
    BY <1>1, <1>12 DEF ProposalsInv
  <1> QED BY <1>1, <1>2, <1>6, <1>7, <1>8, <1>9, <1>10, <1>11, <1>12 DEF ProposalsInv

LEMMA ProposalsStep == ProposalsInv /\ [DAO!Next]_dao_vars => ProposalsInv'
  <1> SUFFICES ASSUME ProposalsInv, [DAO!Next]_dao_vars PROVE ProposalsInv'
    OBVIOUS
  <1>1. ASSUME made' = made, votes' = votes,
               sheet' = sheet \/ sheet' = NoSheet \/
                   (sheet' \in DOMAIN made /\ made[sheet'].status = "Active")
        PROVE  ProposalsInv'
    BY <1>1 DEF ProposalsInv, DAO!OutcomeFitsCounts, DAO!VotesFor
  <1>2. CASE DAO!CloseSheet \/ UNCHANGED dao_vars
    BY <1>1, <1>2 DEF DAO!CloseSheet, dao_vars
  <1>3. ASSUME NEW id \in DOMAIN made, DAO!OpenSheet(id) PROVE ProposalsInv'
    BY <1>1, <1>3 DEF DAO!OpenSheet, DAO!isActive
  <1>4. ASSUME NEW id \in DOMAIN made, DAO!End(id) PROVE ProposalsInv'
    <2>1. made' = [made EXCEPT ![id].ended = TRUE] /\ votes' = votes /\ sheet' = sheet
      BY <1>4 DEF DAO!End
    <2>2. DOMAIN made' = DOMAIN made
          /\ \A i \in DOMAIN made : /\ made'[i].status = made[i].status
                                    /\ made'[i].count = made[i].count
                                    /\ made'[i] \in Proposals
      BY <2>1 DEF ProposalsInv, Proposals
    <2>3. made' \in [DOMAIN made' -> Proposals]
      BY <2>1, <2>2 DEF ProposalsInv
    <2>4. \A i, c : DAO!VotesFor(i, c)' = DAO!VotesFor(i, c)
      BY <2>1 DEF DAO!VotesFor
    <2>5. DAO!OutcomeFitsCounts'
      BY <2>2 DEF ProposalsInv, DAO!OutcomeFitsCounts, DAO!quorumReached, DAO!totalVotes
    <2>6. \A i \in DOMAIN made', c \in DAO!Choices :
              Cardinality(DAO!VotesFor(i, c)') <= made'[i].count[c]
      BY <2>2, <2>4 DEF ProposalsInv
    <2> QED BY <2>1, <2>2, <2>3, <2>5, <2>6 DEF ProposalsInv
  <1> QED BY <1>2, <1>3, <1>4, ProposalsCreated, ProposalsVoted DEF DAO!Next

\* The outcome of a proposal fits the counters it shows, and these count every vote
\* that stands, for any number of voters, any voting power and any quorum.
THEOREM OutcomesFit == MCSpec => []OutcomeFitsVotes
  <1>1. MCInit => ProposalsInv
    BY ProposalsFirst DEF MCInit
  <1>2. ProposalsInv /\ [MCNext]_all_vars => ProposalsInv'
    BY ProposalsStep DEF MCNext, all_vars, dao_vars
  <1>3. ProposalsInv => OutcomeFitsVotes
    BY VotesAreCounted DEF ProposalsInv, OutcomeFitsVotes, DAO!StandingVotesCount
  <1> QED BY <1>1, <1>2, <1>3, PTL DEF MCSpec

-----------------------------------------------------------------------------
(* The stored identity.  What is said of it is said of the calls and the answers  *)
(* by their places in the two queues.                                             *)

\* The calls the service makes, and the answers it gets.
Calls ==
    [op : {"write"}, key : Keys, value : Nat \ {0}, waiter : {Nobody}]
        \cup [op : {"read"}, key : Keys, value : {0}, waiter : {"load"} \X Nat]
        \cup [op : {"delete"}, key : Keys, value : {0}, waiter : {"clear"} \X Nat]
Answers == [to : {"load", "clear"} \X Nat, ok : BOOLEAN, value : Nat]

StoreTypes ==
    /\ stored \in [Keys -> Nat] /\ created \in Nat /\ refusals \in Nat /\ crashes \in Nat
    /\ calls \in Seq(Calls) /\ answers \in Seq(Answers)
    /\ load \in [at : {"idle", _mnemonicKey, _storageKey}, run : Nat, from : Nat]
    /\ clear \in [at : {"idle", _mnemonicKey, _storageKey, _initializedKey}, run : Nat]
    /\ loaded \in [id : Nat, from : Nat]

\* t is s with c at its end; t is s without its first element.
Grown(s, t, c) ==
    /\ Len(t) = Len(s) + 1 /\ t[Len(s) + 1] = c
    /\ \A i \in 1..Len(s) : t[i] = s[i]
Shifted(s, t) ==
    /\ Len(s) \in Nat \ {0} /\ Len(t) = Len(s) - 1
    /\ \A i \in 1..Len(t) : i \in 1..Len(s) /\ i + 1 \in 1..Len(s) /\ t[i] = s[i + 1]

LEMMA AppendGrows ==
    ASSUME NEW S, NEW s \in Seq(S), NEW c \in S
    PROVE  Append(s, c) \in Seq(S) /\ Len(s) \in Nat /\ Grown(s, Append(s, c), c)
  BY AppendProperties DEF Grown

LEMMA TailShifts ==
    ASSUME NEW S, NEW s \in Seq(S), s # <<>>
    PROVE  Tail(s) \in Seq(S) /\ Shifted(s, Tail(s)) /\ Head(s) = s[1] /\ s[1] \in S
  <1>1. Len(s) \in Nat \ {0} /\ Head(s) = s[1] /\ s[1] \in S
    OBVIOUS
  <1>2. /\ Tail(s) \in Seq(S) /\ Len(Tail(s)) = Len(s) - 1
        /\ \A i \in 1 .. Len(Tail(s)) : Tail(s)[i] = s[i + 1]
    BY HeadTailProperties
  <1> QED BY <1>1, <1>2 DEF Shifted

LEMMA NamesDiffer ==
    /\ _mnemonicKey # _storageKey /\ _mnemonicKey # _initializedKey
    /\ _storageKey # _initializedKey
    /\ "idle" \notin Keys /\ Keys = {_mnemonicKey, _storageKey, _initializedKey}
    /\ \A r, n : Nobody # <<"load", r>> /\ Nobody # <<"clear", r>> /\ <<"load", r>> # <<"clear", n>>
    /\ \A r, n : (<<"load", r>> = <<"load", n>> => r = n) /\ (<<"clear", r>> = <<"clear", n>> => r = n)
  BY DEF Keys, _mnemonicKey, _storageKey, _initializedKey, Nobody

LEMMA CallFacts ==
    ASSUME NEW c \in Calls
    PROVE  /\ c.key \in Keys /\ c.value \in Nat /\ c.op \in {"write", "read", "delete"}
           /\ c.op = "write" => c.value # 0 /\ c.waiter = Nobody
           /\ c.op = "read" => \E r \in Nat : c.waiter = <<"load", r>>
           /\ c.op = "delete" => c.value = 0 /\ \E r \in Nat : c.waiter = <<"clear", r>>
           /\ c.waiter # Nobody => c.waiter \in {"load", "clear"} \X Nat
           /\ \A r : c.waiter = <<"load", r>> => c.op = "read"
           /\ \A r : c.waiter = <<"clear", r>> => c.op = "delete"
  <1>1. CASE c \in [op : {"write"}, key : Keys, value : Nat \ {0}, waiter : {Nobody}]
    BY <1>1, NamesDiffer
  <1>2. CASE c \in [op : {"read"}, key : Keys, value : {0}, waiter : {"load"} \X Nat]
    <2>1. PICK r \in Nat : c.waiter = <<"load", r>>
      BY <1>2
    <2> QED BY <1>2, <2>1, NamesDiffer
  <1>3. CASE c \in [op : {"delete"}, key : Keys, value : {0}, waiter : {"clear"} \X Nat]
    <2>1. PICK r \in Nat : c.waiter = <<"clear", r>>
      BY <1>3
    <2> QED BY <1>3, <2>1, NamesDiffer
  <1> QED BY <1>1, <1>2, <1>3 DEF Calls

LEMMA CallsMade ==
    /\ \A k \in Keys, v \in Nat \ {0} : Write(k, v) \in Calls
    /\ \A k \in Keys, r \in Nat : Read(k, <<"load", r>>) \in Calls
    /\ \A k \in Keys, r \in Nat : Delete(k, <<"clear", r>>) \in Calls
  BY DEF Write, Read, Delete, Calls

\* The three writes of a new identity, one after the other.
LEMMA PersistGrows ==
    ASSUME NEW s \in Seq(Calls), NEW id \in Nat \ {0}
    PROVE  /\ s \o _persist(id) \in Seq(Calls) /\ Len(s) \in Nat
           /\ Len(s \o _persist(id)) = Len(s) + 3
           /\ \A i \in 1..Len(s) : (s \o _persist(id))[i] = s[i]
           /\ (s \o _persist(id))[Len(s) + 1] = Write(_mnemonicKey, id)
           /\ (s \o _persist(id))[Len(s) + 2] = Write(_storageKey, id)
           /\ (s \o _persist(id))[Len(s) + 3] = Write(_initializedKey, 1)
  <1> DEFINE a == Write(_mnemonicKey, id)
             b == Write(_storageKey, id)
             c == Write(_initializedKey, 1)
             t == <<a, b, c>>
  <1>1. a \in Calls /\ b \in Calls /\ c \in Calls
    BY CallsMade, NamesDiffer
  <1>2. _persist(id) = t
    BY DEF _persist
  <1> HIDE DEF a, b, c
  <1>3. t \in Seq(Calls) /\ Len(t) = 3 /\ t[1] = a /\ t[2] = b /\ t[3] = c
    BY <1>1
  <1> HIDE DEF t
  <1>4. /\ s \o t \in Seq(Calls) /\ Len(s \o t) = Len(s) + Len(t)
        /\ \A i \in 1 .. Len(s) + Len(t) :
              (s \o t)[i] = IF i <= Len(s) THEN s[i] ELSE t[i - Len(s)]
    BY <1>3, ConcatProperties
  <1>5. Len(s) \in Nat
    OBVIOUS
  <1>6. \A i \in 1..Len(s) : i \in 1 .. Len(s) + Len(t) /\ i <= Len(s)
    BY <1>3, <1>5
  <1>7. \A k \in 1..3 : /\ Len(s) + k \in 1 .. Len(s) + Len(t) /\ ~ (Len(s) + k <= Len(s))
                        /\ (Len(s) + k) - Len(s) = k
    BY <1>3, <1>5
  <1>8. \A k \in 1..3 : (s \o t)[Len(s) + k] = t[k]
    BY <1>4, <1>7
  <1> QED BY <1>2, <1>3, <1>4, <1>5, <1>6, <1>8 DEF a, b, c

\* createIdentity puts its three writes behind the calls there are.
LEMMA CreateWrites ==
    ASSUME StoreTypes, calls' = calls \o _persist(created + 1)
    PROVE  /\ Len(calls) \in Nat /\ Len(calls') = Len(calls) + 3
           /\ \A i \in 1..Len(calls) : calls'[i] = calls[i]
           /\ calls'[Len(calls) + 1] = Write(_mnemonicKey, created + 1)
           /\ calls'[Len(calls) + 2] = Write(_storageKey, created + 1)
           /\ calls'[Len(calls) + 3] = Write(_initializedKey, 1)
  <1>1. calls \in Seq(Calls) /\ created + 1 \in Nat \ {0}
    BY DEF StoreTypes
  <1> DEFINE id == created + 1
             t == calls \o _persist(id)
  <1>2. /\ Len(calls) \in Nat /\ Len(t) = Len(calls) + 3
        /\ \A i \in 1..Len(calls) : t[i] = calls[i]
        /\ t[Len(calls) + 1] = Write(_mnemonicKey, id)
        /\ t[Len(calls) + 2] = Write(_storageKey, id)
        /\ t[Len(calls) + 3] = Write(_initializedKey, 1)
    <2>1. id \in Nat \ {0}
      BY <1>1
    <2> HIDE DEF id
    <2> QED BY <1>1, <2>1, PersistGrows DEF t
  <1>3. calls' = t /\ id = created + 1
    OBVIOUS
  <1> HIDE DEF t, id
  <1> QED BY <1>2, <1>3

LEMMA StoreFirst == Init => StoreTypes
  <1> SUFFICES ASSUME Init PROVE StoreTypes
    OBVIOUS
  <1>1. created \in Nat /\ stored \in [Keys -> Nat]
    BY DEF Init
  <1>2. calls \in Seq(Calls) /\ answers \in Seq(Answers)
    <2>1. calls = <<>> /\ answers = <<>>
      BY DEF Init
    <2> QED BY <2>1
  <1> QED BY <1>1, <1>2 DEF Init, StoreTypes

\* What the plugin does with its first call.
Carried(c, ok) ==
    /\ refusals' = IF ok THEN refusals ELSE refusals + 1
    /\ stored' = IF ok /\ c.op # "read" THEN [stored EXCEPT ![c.key] = c.value] ELSE stored
    /\ \/ c.waiter = Nobody /\ answers' = answers
       \/ /\ c.waiter # Nobody
          /\ Grown(answers, answers', [to |-> c.waiter, ok |-> ok, value |-> stored[c.key]])

LEMMA CarryStep ==
    ASSUME StoreTypes, Carry
    PROVE  /\ calls[1] \in Calls /\ Shifted(calls, calls') /\ calls' \in Seq(Calls)
           /\ answers' \in Seq(Answers)
           /\ \E ok \in BOOLEAN : Carried(calls[1], ok)
           /\ UNCHANGED <<load, clear, created, loaded, history, crashes>>
  <1>1. /\ calls[1] \in Calls /\ Head(calls) = calls[1] /\ Shifted(calls, calls')
        /\ calls' \in Seq(Calls)
    <2>1. calls # <<>> /\ calls' = Tail(calls) /\ calls \in Seq(Calls)
      BY DEF Carry, StoreTypes
    <2> QED BY <2>1, TailShifts
  <1> DEFINE c == calls[1]
  <1>2. PICK ok \in BOOLEAN :
            /\ refusals' = IF ok THEN refusals ELSE refusals + 1
            /\ stored' = IF ok /\ c.op # "read" THEN [stored EXCEPT ![c.key] = c.value] ELSE stored
            /\ answers' = IF c.waiter = Nobody THEN answers
                          ELSE Append(answers, [to |-> c.waiter, ok |-> ok,
                                                value |-> stored[c.key]])
    BY <1>1 DEF Carry
  <1> DEFINE a == [to |-> c.waiter, ok |-> ok, value |-> stored[c.key]]
  <1>3. answers \in Seq(Answers)
    BY DEF StoreTypes
  <1>4. CASE c.waiter = Nobody
    BY <1>1, <1>2, <1>3, <1>4 DEF Carried, Carry
  <1>5. CASE c.waiter # Nobody
    <2>1. c.waiter \in {"load", "clear"} \X Nat /\ c.key \in Keys
      BY <1>1, <1>5, CallFacts
    <2>2. a \in Answers
      BY <2>1 DEF Answers, StoreTypes
    <2>3. answers' = Append(answers, a)
      BY <1>2, <1>5
    <2>4. answers' \in Seq(Answers) /\ Grown(answers, answers', a)
      <3> HIDE DEF a
      <3> QED BY <1>3, <2>2, <2>3, AppendGrows
    <2>5. Carried(c, ok)
      BY <1>2, <1>5, <2>4 DEF Carried
    <2> QED BY <1>1, <2>4, <2>5 DEF Carry
  <1> QED BY <1>4, <1>5

LoadW == <<"load", load.run>>
ClearW == <<"clear", clear.run>>

\* What the app does with answer a: loadIdentity ends, perhaps with a migration, or
\* asks once more; clearIdentity goes on or ends; or nobody waits.
Ends(a) ==
    /\ a.to = LoadW /\ load.at # "idle"
    /\ load' = [load EXCEPT !.at = "idle"]
    /\ loaded' = [id |-> IF a.ok THEN a.value ELSE 0, from |-> load.from]
    /\ clear' = clear /\ cleared' = cleared
    /\ \/ calls' = calls
       \/ /\ load.at = _storageKey /\ a.ok /\ a.value # 0
          /\ Grown(calls, calls', Write(_mnemonicKey, a.value))
Asks(a) ==
    /\ a.to = LoadW /\ load.at = _mnemonicKey
    /\ load' = [load EXCEPT !.at = _storageKey]
    /\ Grown(calls, calls', Read(_storageKey, LoadW))
    /\ loaded' = loaded /\ clear' = clear /\ cleared' = cleared
GoesOn(a, at) ==
    /\ a.to = ClearW /\ a.ok
    /\ \/ clear.at = _storageKey /\ at = _mnemonicKey
       \/ clear.at = _mnemonicKey /\ at = _initializedKey
    /\ clear' = [clear EXCEPT !.at = at]
    /\ Grown(calls, calls', Delete(at, ClearW))
    /\ load' = load /\ loaded' = loaded /\ cleared' = cleared
Stops(a) ==
    /\ a.to = ClearW /\ clear.at # "idle"
    /\ clear' = [clear EXCEPT !.at = "idle"]
    /\ cleared' => clear.at = _initializedKey /\ since = "clear"
    /\ calls' = calls /\ load' = load /\ loaded' = loaded
Unheard == UNCHANGED <<calls, load, clear, loaded, cleared>>

LEMMA AnswerStep ==
    ASSUME StoreTypes, Answer
    PROVE  /\ answers[1] \in Answers /\ Shifted(answers, answers') /\ answers' \in Seq(Answers)
           /\ calls' \in Seq(Calls)
           /\ \/ Ends(answers[1]) \/ Asks(answers[1]) \/ Stops(answers[1]) \/ Unheard
              \/ \E at \in Keys : GoesOn(answers[1], at)
           /\ UNCHANGED <<stored, created, since, raced, old, refusals, crashes>>
  <1> DEFINE a == answers[1]
  <1>1. /\ a \in Answers /\ Head(answers) = a /\ Shifted(answers, answers')
        /\ answers' \in Seq(Answers)
    <2>1. answers # <<>> /\ answers' = Tail(answers) /\ answers \in Seq(Answers)
      BY DEF Answer, StoreTypes
    <2> QED BY <2>1, TailShifts
  <1>2. UNCHANGED <<stored, created, since, raced, old, refusals, crashes>>
    BY DEF Answer
  <1>3. \/ LoadContinues(a) \/ ClearContinues(a) \/ Unheard
    BY <1>1 DEF Answer, Unheard
  <1>4. /\ load.run \in Nat /\ load.at \in {"idle", _mnemonicKey, _storageKey}
        /\ clear.run \in Nat /\ clear.at \in {"idle", _mnemonicKey, _storageKey, _initializedKey}
        /\ calls \in Seq(Calls) /\ a.value \in Nat /\ a.ok \in BOOLEAN
    BY <1>1 DEF StoreTypes, Answers
  <1> HIDE DEF a
  <1>5. CASE LoadContinues(a)
    <2>1. a.to = LoadW /\ load.at # "idle" /\ clear' = clear /\ cleared' = cleared
      BY <1>5 DEF LoadContinues, LoadW
    <2>2. CASE calls' = calls /\ LoadReturns(IF a.ok THEN a.value ELSE 0)
      BY <1>1, <1>2, <1>4, <2>1, <2>2 DEF LoadReturns, Ends, a
    <2>3. CASE /\ load.at = _storageKey /\ a.ok /\ a.value # 0 /\ LoadReturns(a.value)
               /\ calls' = Append(calls, Write(_mnemonicKey, a.value))
      <3>1. Write(_mnemonicKey, a.value) \in Calls
        BY <1>4, <2>3, CallsMade, NamesDiffer
      <3>2. calls' \in Seq(Calls) /\ Grown(calls, calls', Write(_mnemonicKey, a.value))
        BY <1>4, <2>3, <3>1, AppendGrows
      <3> QED BY <1>1, <1>2, <2>1, <2>3, <3>2 DEF LoadReturns, Ends, a
    <2>4. CASE /\ load.at = _mnemonicKey /\ load' = [load EXCEPT !.at = _storageKey]
               /\ calls' = Append(calls, Read(_storageKey, a.to)) /\ loaded' = loaded
      <3>1. Read(_storageKey, LoadW) \in Calls
        BY <1>4, CallsMade, NamesDiffer DEF LoadW
      <3>2. calls' \in Seq(Calls) /\ Grown(calls, calls', Read(_storageKey, LoadW))
        BY <1>4, <2>1, <2>4, <3>1, AppendGrows
      <3> QED BY <1>1, <1>2, <2>1, <2>4, <3>2 DEF Asks, a
    <2> QED BY <1>4, <1>5, <2>2, <2>3, <2>4 DEF LoadContinues
  <1>6. CASE ClearContinues(a)
    <2> DEFINE i == CHOOSE i \in 1..3 : DeleteOrder[i] = clear.at
    <2>1. /\ a.to = ClearW /\ clear.at # "idle" /\ load' = load /\ loaded' = loaded
          /\ IF a.ok /\ i < 3
             THEN /\ clear' = [clear EXCEPT !.at = DeleteOrder[i + 1]]
                  /\ calls' = Append(calls, Delete(DeleteOrder[i + 1], a.to))
                  /\ UNCHANGED cleared
             ELSE /\ clear' = [clear EXCEPT !.at = "idle"]
                  /\ cleared' = (a.ok /\ since = "clear")
                  /\ UNCHANGED calls
      BY <1>6 DEF ClearContinues, ClearW
    <2>2. /\ DeleteOrder[1] = _storageKey /\ DeleteOrder[2] = _mnemonicKey
          /\ DeleteOrder[3] = _initializedKey
      BY DEF DeleteOrder
    <2>3. \E j \in 1..3 : DeleteOrder[j] = clear.at
      BY <1>4, <2>1, <2>2
    <2>4. i \in 1..3 /\ DeleteOrder[i] = clear.at
      BY <2>3
    <2> HIDE DEF i
    <2>6. CASE a.ok /\ i = 1
      <3>1. DeleteOrder[i + 1] = _mnemonicKey /\ clear.at = _storageKey
        BY <2>2, <2>4, <2>6
      <3>2. /\ clear' = [clear EXCEPT !.at = _mnemonicKey] /\ cleared' = cleared
            /\ calls' = Append(calls, Delete(_mnemonicKey, a.to)) /\ _mnemonicKey \in Keys
        BY <2>1, <2>6, <3>1, NamesDiffer
      <3>3. calls' \in Seq(Calls) /\ GoesOn(a, _mnemonicKey)
        <4>1. Delete(_mnemonicKey, ClearW) \in Calls
          BY <1>4, CallsMade, NamesDiffer DEF ClearW
        <4>2. calls' \in Seq(Calls) /\ Grown(calls, calls', Delete(_mnemonicKey, ClearW))
          BY <1>4, <2>1, <3>2, <4>1, AppendGrows
        <4> QED BY <2>1, <2>6, <3>1, <3>2, <4>2 DEF GoesOn
      <3> QED BY <1>1, <1>2, <3>2, <3>3 DEF a
    <2>7. CASE a.ok /\ i = 2
      <3>1. DeleteOrder[i + 1] = _initializedKey /\ clear.at = _mnemonicKey
        BY <2>2, <2>4, <2>7
      <3>2. /\ clear' = [clear EXCEPT !.at = _initializedKey] /\ cleared' = cleared
            /\ calls' = Append(calls, Delete(_initializedKey, a.to)) /\ _initializedKey \in Keys
        BY <2>1, <2>7, <3>1, NamesDiffer
      <3>3. calls' \in Seq(Calls) /\ GoesOn(a, _initializedKey)
        <4>1. Delete(_initializedKey, ClearW) \in Calls
          BY <1>4, CallsMade, NamesDiffer DEF ClearW
        <4>2. calls' \in Seq(Calls) /\ Grown(calls, calls', Delete(_initializedKey, ClearW))
          BY <1>4, <2>1, <3>2, <4>1, AppendGrows
        <4> QED BY <2>1, <2>7, <3>1, <3>2, <4>2 DEF GoesOn
      <3> QED BY <1>1, <1>2, <3>2, <3>3 DEF a
    <2>8. CASE ~ (a.ok /\ i < 3)
      <3>1. a.ok => clear.at = _initializedKey
        BY <2>2, <2>4, <2>8
      <3>2. Stops(a) /\ calls' = calls
        BY <2>1, <2>8, <3>1 DEF Stops
      <3> QED BY <1>1, <1>2, <1>4, <3>2 DEF a
    <2> QED BY <2>4, <2>6, <2>7, <2>8
  <1>7. CASE Unheard
    BY <1>1, <1>2, <1>4, <1>7 DEF Unheard, a
  <1> QED BY <1>3, <1>5, <1>6, <1>7

\* Every waiter has been a method call before, the running methods wait for what they
\* called last, and no waiter has two calls or answers on their way.
Waiting ==
    /\ \A i \in 1..Len(calls), r \in Nat :
          /\ calls[i].waiter = <<"load", r>> => r <= load.run
          /\ calls[i].waiter = <<"clear", r>> => r <= clear.run
    /\ \A i \in 1..Len(answers), r \in Nat :
          /\ answers[i].to = <<"load", r>> => r <= load.run
          /\ answers[i].to = <<"clear", r>> => r <= clear.run
    /\ \A i \in 1..Len(calls) :
          /\ load.at # "idle" /\ calls[i].waiter = LoadW => calls[i].key = load.at
          /\ clear.at # "idle" /\ calls[i].waiter = ClearW => calls[i].key = clear.at
Once ==
    /\ \A i, j \in 1..Len(calls) :
          calls[i].waiter = calls[j].waiter /\ calls[i].waiter # Nobody => i = j
    /\ \A i, j \in 1..Len(answers) : answers[i].to = answers[j].to => i = j
    /\ \A i \in 1..Len(calls), j \in 1..Len(answers) : calls[i].waiter # answers[j].to

\* What holds whether or not something is refused, killed or raced.
StoreBase == StoreTypes /\ Waiting /\ Once

LEMMA BaseFirst == Init => StoreBase
  <1>1. Init => calls = <<>> /\ answers = <<>>
    BY DEF Init
  <1> QED BY <1>1, StoreFirst DEF StoreBase, Waiting, Once

LEMMA TypesStep == StoreTypes /\ Next => StoreTypes'
  <1> SUFFICES ASSUME StoreTypes, Next PROVE StoreTypes'
    OBVIOUS
  <1>0. /\ calls \in Seq(Calls) /\ answers \in Seq(Answers) /\ created \in Nat
        /\ load.run \in Nat /\ clear.run \in Nat /\ load.from \in Nat
    BY DEF StoreTypes
  <1>9. /\ load \in [at : {"idle", _mnemonicKey, _storageKey}, run : Nat, from : Nat]
        /\ clear \in [at : {"idle", _mnemonicKey, _storageKey, _initializedKey}, run : Nat]
        /\ loaded \in [id : Nat, from : Nat] /\ crashes \in Nat
    BY DEF StoreTypes
  <1>1. CASE createIdentity
    <2>1. created + 1 \in Nat \ {0} /\ calls' = calls \o _persist(created + 1)
      BY <1>0, <1>1 DEF createIdentity
    <2>2. calls' \in Seq(Calls)
      BY <1>0, <2>1, PersistGrows
    <2> QED BY <1>1, <2>2 DEF StoreTypes, createIdentity
  <1>2. CASE loadIdentity
    <2>1. Read(_mnemonicKey, <<"load", load.run + 1>>) \in Calls
      BY <1>0, CallsMade, NamesDiffer
    <2>2. calls' \in Seq(Calls)
      BY <1>0, <1>2, <2>1, AppendGrows DEF loadIdentity
    <2> QED BY <1>2, <2>2 DEF StoreTypes, loadIdentity, history
  <1>3. CASE clearIdentity
    <2>1. DeleteOrder[1] = _storageKey
      BY DEF DeleteOrder
    <2>2. Delete(_storageKey, <<"clear", clear.run + 1>>) \in Calls
      BY <1>0, CallsMade, NamesDiffer
    <2>3. calls' \in Seq(Calls)
      BY <1>0, <1>3, <2>1, <2>2, AppendGrows DEF clearIdentity
    <2> QED BY <1>3, <2>1, <2>3 DEF StoreTypes, clearIdentity
  <1>4. CASE Carry
    <2>1. PICK ok \in BOOLEAN : Carried(calls[1], ok)
      BY <1>4, CarryStep
    <2>2. calls[1].key \in Keys /\ calls[1].value \in Nat
      BY <1>4, CarryStep, CallFacts
    <2>3. stored' \in [Keys -> Nat] /\ refusals' \in Nat
      BY <2>1, <2>2 DEF Carried, StoreTypes
    <2>4. /\ calls' \in Seq(Calls) /\ answers' \in Seq(Answers)
          /\ load' = load /\ clear' = clear /\ created' = created /\ loaded' = loaded
          /\ crashes' = crashes
      BY <1>4, CarryStep
    <2>5. /\ load' \in [at : {"idle", _mnemonicKey, _storageKey}, run : Nat, from : Nat]
          /\ clear' \in [at : {"idle", _mnemonicKey, _storageKey, _initializedKey}, run : Nat]
          /\ loaded' \in [id : Nat, from : Nat] /\ crashes' \in Nat /\ created' \in Nat
      BY <1>0, <1>9, <2>4
    <2> QED BY <2>3, <2>4, <2>5 DEF StoreTypes
  <1>5. CASE Answer
    <2>1. answers[1].value \in Nat
      BY <1>5, AnswerStep DEF Answers
    <2>2. load' \in [at : {"idle", _mnemonicKey, _storageKey}, run : Nat, from : Nat]
      BY <1>5, AnswerStep DEF StoreTypes, Ends, Asks, GoesOn, Stops, Unheard
    <2>3. clear' \in [at : {"idle", _mnemonicKey, _storageKey, _initializedKey}, run : Nat]
      <3>1. CASE \E at \in Keys : GoesOn(answers[1], at)
        BY <3>1, NamesDiffer DEF StoreTypes, GoesOn
      <3>2. CASE ~ (\E at \in Keys : GoesOn(answers[1], at))
        BY <1>5, <3>2, AnswerStep DEF StoreTypes, Ends, Asks, Stops, Unheard
      <3> QED BY <3>1, <3>2
    <2>4. loaded' \in [id : Nat, from : Nat]
      <3>1. answers[1].value \in Nat /\ load.from \in Nat /\ loaded \in [id : Nat, from : Nat]
        <4>1. answers[1] \in Answers
          BY <1>5, AnswerStep
        <4> QED BY <1>0, <4>1 DEF Answers, StoreTypes
      <3>2. CASE Ends(answers[1])
        <4>1. loaded' = [id |-> IF answers[1].ok THEN answers[1].value ELSE 0, from |-> load.from]
          BY <3>2 DEF Ends
        <4> QED BY <3>1, <4>1
      <3>3. CASE loaded' = loaded
        BY <3>1, <3>3
      <3> QED BY <1>5, <3>2, <3>3, AnswerStep DEF Asks, GoesOn, Stops, Unheard
    <2> QED BY <1>5, <2>2, <2>3, <2>4, AnswerStep DEF StoreTypes
  <1>6. CASE LoadTimeout
    BY <1>6 DEF StoreTypes, LoadTimeout, LoadReturns
  <1>7. CASE ClearTimeout
    BY <1>7 DEF StoreTypes, ClearTimeout
  <1>8. CASE Crash
    <2>1. calls' = <<>> /\ answers' = <<>>
      BY <1>8 DEF Crash
    <2>2. calls' \in Seq(Calls) /\ answers' \in Seq(Answers)
      BY <2>1
    <2>3. /\ stored' = stored /\ created' = created /\ refusals' = refusals
          /\ crashes' = crashes + 1 /\ load' = [load EXCEPT !.at = "idle"]
          /\ clear' = [clear EXCEPT !.at = "idle"] /\ loaded' = [id |-> 0, from |-> 0]
      BY <1>8 DEF Crash
    <2>4. /\ load' \in [at : {"idle", _mnemonicKey, _storageKey}, run : Nat, from : Nat]
          /\ clear' \in [at : {"idle", _mnemonicKey, _storageKey, _initializedKey}, run : Nat]
          /\ loaded' \in [id : Nat, from : Nat] /\ crashes' \in Nat
      BY <1>9, <2>3
    <2> QED BY <2>2, <2>3, <2>4 DEF StoreTypes
  <1> QED BY <1>1, <1>2, <1>3, <1>4, <1>5, <1>6, <1>7, <1>8 DEF Next

LEMMA AnswersHaveWaiters ==
    ASSUME answers \in Seq(Answers)
    PROVE  \A k \in 1..Len(answers) : answers[k].to # Nobody
  <1> TAKE k \in 1..Len(answers)
  <1>1. answers[k] \in Answers
    OBVIOUS
  <1>2. answers[k].to[1] \in {"load", "clear"} /\ Nobody[1] = "nobody"
    BY <1>1 DEF Answers, Nobody
  <1> QED BY <1>2

\* A call at the end of the queue, whose waiter has nothing else on its way.
LEMMA OnceGrown ==
    ASSUME StoreBase, NEW c \in Calls, Grown(calls, calls', c),
           \/ answers' = answers /\ \A i \in 1..Len(answers) : answers[i].to # c.waiter
           \/ Shifted(answers, answers') /\ answers[1].to = c.waiter
           \/ Shifted(answers, answers') /\ c.waiter = Nobody,
           answers \in Seq(Answers),
           c.waiter = Nobody \/ \A i \in 1..Len(calls) : calls[i].waiter # c.waiter
    PROVE  Once'
  <1> DEFINE n == Len(calls)
  <1>1. n \in Nat /\ Len(calls') = n + 1 /\ calls'[n + 1] = c
        /\ \A i \in 1..n : calls'[i] = calls[i]
    BY DEF StoreBase, StoreTypes, Grown
  <1> HIDE DEF n
  <1>2. \A i \in 1..n + 1 : i \in 1..n \/ i = n + 1
    BY <1>1
  <1>3. \A j \in 1..Len(answers') :
            /\ \E k \in 1..Len(answers) : answers'[j] = answers[k]
            /\ answers'[j].to # c.waiter
    <2>1. \A k \in 1..Len(answers) : answers[k].to # Nobody
      BY AnswersHaveWaiters
    <2>2. CASE answers' = answers /\ \A i \in 1..Len(answers) : answers[i].to # c.waiter
      BY <2>2
    <2>3. CASE Shifted(answers, answers') /\ answers[1].to = c.waiter
      <3>1. \A j \in 1..Len(answers') : /\ j + 1 \in 1..Len(answers) /\ 1 \in 1..Len(answers)
                                        /\ j + 1 # 1 /\ answers'[j] = answers[j + 1]
        BY <2>3 DEF Shifted
      <3> QED BY <2>3, <3>1 DEF StoreBase, Once
    <2>4. CASE Shifted(answers, answers') /\ c.waiter = Nobody
      <3>1. \A j \in 1..Len(answers') : j + 1 \in 1..Len(answers) /\ answers'[j] = answers[j + 1]
        BY <2>4 DEF Shifted
      <3> QED BY <2>1, <2>4, <3>1
    <2> QED BY <2>2, <2>3, <2>4
  <1>4. \A i, j \in 1..Len(answers') : answers'[i].to = answers'[j].to => i = j
    <2>1. CASE answers' = answers
      BY <2>1 DEF StoreBase, Once
    <2>2. CASE Shifted(answers, answers')
      <3>1. \A j \in 1..Len(answers') : j + 1 \in 1..Len(answers) /\ answers'[j] = answers[j + 1]
        BY <2>2 DEF Shifted
      <3> SUFFICES ASSUME NEW i \in 1..Len(answers'), NEW j \in 1..Len(answers'),
                          answers'[i].to = answers'[j].to
                   PROVE  i = j
        OBVIOUS
      <3>2. answers[i + 1].to = answers[j + 1].to
        BY <3>1
      <3>3. i + 1 = j + 1
        BY <3>1, <3>2 DEF StoreBase, Once
      <3> QED BY <3>3
    <2> QED BY <2>1, <2>2
  <1>5. \A i \in 1..n, j \in 1..Len(answers') : calls[i].waiter # answers'[j].to
    <2> TAKE i \in 1..n, j \in 1..Len(answers')
    <2>1. PICK k \in 1..Len(answers) : answers'[j] = answers[k]
      BY <1>3
    <2>2. calls[i].waiter # answers[k].to
      BY DEF StoreBase, Once, n
    <2> QED BY <2>1, <2>2
  <1>6. \A i, j \in 1..n : calls[i].waiter = calls[j].waiter /\ calls[i].waiter # Nobody => i = j
    BY DEF StoreBase, Once, n
  <1>7. c.waiter = Nobody \/ \A i \in 1..n : calls[i].waiter # c.waiter
    BY DEF n
  <1>8. \A i, j \in 1..n + 1 :
            calls'[i].waiter = calls'[j].waiter /\ calls'[i].waiter # Nobody => i = j
    BY <1>1, <1>2, <1>6, <1>7
  <1>9. \A i \in 1..n + 1, j \in 1..Len(answers') : calls'[i].waiter # answers'[j].to
    BY <1>1, <1>2, <1>3, <1>5
  <1> QED BY <1>1, <1>4, <1>8, <1>9 DEF Once

\* Queues from which something is only taken.
LEMMA OnceSame ==
    ASSUME StoreBase, calls' = calls, answers' = answers \/ Shifted(answers, answers')
    PROVE  Once'
  <1>1. CASE answers' = answers
    BY <1>1 DEF StoreBase, Once
  <1>2. CASE Shifted(answers, answers')
    <2>1. \A j \in 1..Len(answers') : j + 1 \in 1..Len(answers) /\ answers'[j] = answers[j + 1]
      BY <1>2 DEF Shifted
    <2>2. \A i, j \in 1..Len(answers') : answers'[i].to = answers'[j].to => i = j
      <3> TAKE i, j \in 1..Len(answers')
      <3>1. answers[i + 1].to = answers[j + 1].to => i + 1 = j + 1
        BY <2>1 DEF StoreBase, Once
      <3> QED BY <2>1, <3>1
    <2>3. \A i \in 1..Len(calls), j \in 1..Len(answers') : calls[i].waiter # answers'[j].to
      <3> TAKE i \in 1..Len(calls), j \in 1..Len(answers')
      <3>1. j + 1 \in 1..Len(answers) /\ answers'[j] = answers[j + 1]
        BY <2>1
      <3>2. calls[i].waiter # answers[j + 1].to
        BY <3>1 DEF StoreBase, Once
      <3> QED BY <3>1, <3>2
    <2>4. \A i, j \in 1..Len(calls) :
              calls[i].waiter = calls[j].waiter /\ calls[i].waiter # Nobody => i = j
      BY DEF StoreBase, Once
    <2> QED BY <2>2, <2>3, <2>4 DEF Once
  <1> QED BY <1>1, <1>2

LEMMA OnceCarried ==
    ASSUME StoreBase, Carry
    PROVE  Once'
  <1>1. /\ calls[1] \in Calls /\ Shifted(calls, calls')
        /\ \E ok \in BOOLEAN : Carried(calls[1], ok)
    BY CarryStep DEF StoreBase
  <1>2. \A i \in 1..Len(calls') : /\ i + 1 \in 1..Len(calls) /\ 1 \in 1..Len(calls) /\ i + 1 # 1
                                  /\ calls'[i] = calls[i + 1]
    BY <1>1 DEF Shifted
  <1>3. \A i, j \in 1..Len(calls') :
            calls'[i].waiter = calls'[j].waiter /\ calls'[i].waiter # Nobody => i = j
    <2> TAKE i, j \in 1..Len(calls')
    <2>1. calls[i + 1].waiter = calls[j + 1].waiter /\ calls[i + 1].waiter # Nobody
              => i + 1 = j + 1
      BY <1>2 DEF StoreBase, Once
    <2> QED BY <1>2, <2>1
  <1>4. PICK ok \in BOOLEAN : Carried(calls[1], ok)
    BY <1>1
  <1>5. CASE calls[1].waiter = Nobody /\ answers' = answers
    BY <1>2, <1>3, <1>5 DEF StoreBase, Once
  <1>6. CASE calls[1].waiter # Nobody
    <2> DEFINE m == Len(answers)
    <2>1. /\ m \in Nat /\ Len(answers') = m + 1 /\ answers'[m + 1].to = calls[1].waiter
          /\ \A i \in 1..m : answers'[i] = answers[i]
      BY <1>4, <1>6 DEF Carried, Grown, StoreBase, StoreTypes
    <2>2. \A i \in 1..m : answers[i].to # calls[1].waiter
      <3>1. 1 \in 1..Len(calls)
        BY <1>1 DEF Shifted
      <3> QED BY <3>1 DEF StoreBase, Once
    <2>3. \A i, j \in 1..m : answers[i].to = answers[j].to => i = j
      BY DEF StoreBase, Once
    <2>4. \A i \in 1..Len(calls'), j \in 1..m : calls'[i].waiter # answers[j].to
      BY <1>2 DEF StoreBase, Once
    <2>5. \A i \in 1..Len(calls') : calls'[i].waiter # calls[1].waiter
      BY <1>2, <1>6 DEF StoreBase, Once
    <2> HIDE DEF m
    <2>6. \A i \in 1..m + 1 : i \in 1..m \/ i = m + 1
      BY <2>1
    <2>7. \A i, j \in 1..m + 1 : answers'[i].to = answers'[j].to => i = j
      BY <2>1, <2>2, <2>3, <2>6
    <2>8. \A i \in 1..Len(calls'), j \in 1..m + 1 : calls'[i].waiter # answers'[j].to
      BY <2>1, <2>4, <2>5, <2>6
    <2> QED BY <1>3, <2>1, <2>7, <2>8 DEF Once
  <1> QED BY <1>4, <1>5, <1>6 DEF Carried

\* Where the calls are when the first has been taken or one has been added.
LEMMA CallsAfter ==
    ASSUME StoreTypes
    PROVE  /\ Len(calls) \in Nat /\ Len(answers) \in Nat
           /\ \A i \in 1..Len(calls) : calls[i] \in Calls
           /\ \A i \in 1..Len(answers) : answers[i] \in Answers
           /\ \A c : Grown(calls, calls', c) => \A i \in 1..Len(calls') :
                  \/ i \in 1..Len(calls) /\ calls'[i] = calls[i]
                  \/ i = Len(calls) + 1 /\ calls'[i] = c
           /\ \A a : Grown(answers, answers', a) => \A i \in 1..Len(answers') :
                  \/ i \in 1..Len(answers) /\ answers'[i] = answers[i]
                  \/ i = Len(answers) + 1 /\ answers'[i] = a
  <1>1. calls \in Seq(Calls) /\ answers \in Seq(Answers)
    BY DEF StoreTypes
  <1>2. /\ Len(calls) \in Nat /\ Len(answers) \in Nat
        /\ \A i \in 1..Len(calls) : calls[i] \in Calls
        /\ \A i \in 1..Len(answers) : answers[i] \in Answers
    BY <1>1
  <1> QED BY <1>2 DEF Grown

LEMMA WaitingStep == StoreBase /\ Next => Waiting'
  <1> SUFFICES ASSUME StoreBase, Next PROVE Waiting'
    OBVIOUS
  <1>0. StoreTypes /\ Waiting /\ Once
    BY DEF StoreBase
  <1>a. /\ load.run \in Nat /\ clear.run \in Nat /\ Len(calls) \in Nat
        /\ load = [at |-> load.at, run |-> load.run, from |-> load.from]
        /\ clear = [at |-> clear.at, run |-> clear.run]
    BY <1>0, CallsAfter DEF StoreTypes
  \* A step that adds a call c at most, takes or adds an answer, and changes no run.
  <1>b. ASSUME load'.run = load.run, clear'.run = clear.run,
               \A i \in 1..Len(calls') :
                   \/ \E j \in 1..Len(calls) : calls'[i] = calls[j]
                   \/ calls'[i].waiter = Nobody
                   \/ calls'[i].waiter = LoadW /\ calls'[i].key = load'.at
                   \/ calls'[i].waiter = ClearW /\ calls'[i].key = clear'.at,
               \A i \in 1..Len(answers') :
                   \/ \E j \in 1..Len(answers) : answers'[i] = answers[j]
                   \/ \E j \in 1..Len(calls) : answers'[i].to = calls[j].waiter,
               \/ load'.at \in {load.at, "idle"}
               \/ \A j \in 1..Len(calls) : calls[j].waiter # LoadW,
               \/ clear'.at \in {clear.at, "idle"}
               \/ \A j \in 1..Len(calls) : calls[j].waiter # ClearW
        PROVE  Waiting'
    <2>1. \A i \in 1..Len(calls'), r \in Nat :
             /\ calls'[i].waiter = <<"load", r>> => r <= load'.run
             /\ calls'[i].waiter = <<"clear", r>> => r <= clear'.run
      <3> TAKE i \in 1..Len(calls'), r \in Nat
      <3>1. CASE \E j \in 1..Len(calls) : calls'[i] = calls[j]
        BY <1>0, <1>b, <3>1 DEF Waiting
      <3>2. CASE calls'[i].waiter \in {Nobody, LoadW, ClearW}
        <4>1. \A m \in Nat : m <= m
          OBVIOUS
        <4>2. CASE calls'[i].waiter = Nobody
          BY <4>2, NamesDiffer
        <4>3. CASE calls'[i].waiter = LoadW
          BY <1>a, <1>b, <4>1, <4>3, NamesDiffer DEF LoadW
        <4>4. CASE calls'[i].waiter = ClearW
          BY <1>a, <1>b, <4>1, <4>4, NamesDiffer DEF ClearW
        <4> QED BY <3>2, <4>2, <4>3, <4>4
      <3> QED BY <1>b, <3>1, <3>2
    <2>2. \A i \in 1..Len(answers'), r \in Nat :
             /\ answers'[i].to = <<"load", r>> => r <= load'.run
             /\ answers'[i].to = <<"clear", r>> => r <= clear'.run
      <3> TAKE i \in 1..Len(answers'), r \in Nat
      <3>1. CASE \E j \in 1..Len(answers) : answers'[i] = answers[j]
        BY <1>0, <1>b, <3>1 DEF Waiting
      <3>2. CASE \E j \in 1..Len(calls) : answers'[i].to = calls[j].waiter
        BY <1>0, <1>b, <3>2 DEF Waiting
      <3> QED BY <1>b, <3>1, <3>2
    <2>3. LoadW' = LoadW /\ ClearW' = ClearW /\ LoadW # ClearW /\ Nobody # LoadW /\ Nobody # ClearW
      BY <1>b, NamesDiffer DEF LoadW, ClearW
    <2>4. ASSUME NEW i \in 1..Len(calls')
          PROVE  /\ load'.at # "idle" /\ calls'[i].waiter = LoadW => calls'[i].key = load'.at
                 /\ clear'.at # "idle" /\ calls'[i].waiter = ClearW => calls'[i].key = clear'.at
      <3>1. CASE \E j \in 1..Len(calls) : calls'[i] = calls[j]
        <4>1. PICK j \in 1..Len(calls) : calls'[i] = calls[j]
          BY <3>1
        <4>2. /\ load.at # "idle" /\ calls[j].waiter = LoadW => calls[j].key = load.at
              /\ clear.at # "idle" /\ calls[j].waiter = ClearW => calls[j].key = clear.at
          BY <1>0 DEF Waiting
        <4> QED BY <1>b, <4>1, <4>2
      <3>2. CASE calls'[i].waiter = Nobody
        BY <2>3, <3>2
      <3>3. CASE calls'[i].waiter = LoadW /\ calls'[i].key = load'.at
        BY <2>3, <3>3
      <3>4. CASE calls'[i].waiter = ClearW /\ calls'[i].key = clear'.at
        BY <2>3, <3>4
      <3> QED BY <1>b, <3>1, <3>2, <3>3, <3>4
    <2> QED BY <2>1, <2>2, <2>3, <2>4 DEF Waiting
  <1>c. \A c : Grown(calls, calls', c) => \A i \in 1..Len(calls') :
            (\E j \in 1..Len(calls) : calls'[i] = calls[j]) \/ calls'[i] = c
    BY <1>0, CallsAfter
  <1>d. Shifted(answers, answers') => \A i \in 1..Len(answers') :
            \E j \in 1..Len(answers) : answers'[i] = answers[j]
    BY DEF Shifted
  <1>1. CASE createIdentity
    <2>1. /\ load' = load /\ clear' = clear /\ answers' = answers
          /\ calls' = calls \o _persist(created + 1)
      BY <1>1 DEF createIdentity
    <2>2. created + 1 \in Nat \ {0}
      BY <1>0 DEF StoreTypes
    <2>3. /\ Len(calls') = Len(calls) + 3 /\ \A i \in 1..Len(calls) : calls'[i] = calls[i]
          /\ \A k \in 1..3 : calls'[Len(calls) + k].waiter = Nobody
      <3>1. /\ Len(calls') = Len(calls) + 3 /\ \A i \in 1..Len(calls) : calls'[i] = calls[i]
            /\ calls'[Len(calls) + 1] = Write(_mnemonicKey, created + 1)
            /\ calls'[Len(calls) + 2] = Write(_storageKey, created + 1)
            /\ calls'[Len(calls) + 3] = Write(_initializedKey, 1)
        BY <1>0, <2>1, CreateWrites
      <3> QED BY <3>1 DEF Write
    <2>4. \A i \in 1..Len(calls') : \/ \E j \in 1..Len(calls) : calls'[i] = calls[j]
                                    \/ calls'[i].waiter = Nobody
      <3> TAKE i \in 1..Len(calls')
      <3>1. CASE i \in 1..Len(calls)
        BY <2>3, <3>1
      <3>2. CASE i \notin 1..Len(calls)
        <4>1. i - Len(calls) \in 1..3 /\ Len(calls) + (i - Len(calls)) = i
          BY <1>a, <2>3, <3>2
        <4> QED BY <2>3, <4>1
      <3> QED BY <3>1, <3>2
    <2> QED BY <1>b, <2>1, <2>4
  <1>2. CASE loadIdentity
    <2>1. /\ load.at = "idle" /\ clear' = clear /\ answers' = answers
          /\ load' = [at |-> _mnemonicKey, run |-> load.run + 1, from |-> created]
          /\ calls' = Append(calls, Read(_mnemonicKey, <<"load", load.run + 1>>))
      BY <1>2 DEF loadIdentity
    <2>2. Read(_mnemonicKey, <<"load", load.run + 1>>) \in Calls
      BY <1>a, CallsMade, NamesDiffer
    <2> DEFINE c == Read(_mnemonicKey, <<"load", load.run + 1>>)
    <2>3. Grown(calls, calls', c)
      BY <1>0, <2>1, <2>2, AppendGrows DEF StoreTypes
    <2>4. c.waiter = <<"load", load.run + 1>> /\ c.key = _mnemonicKey
      BY DEF Read
    <2> HIDE DEF c
    <2>5. load'.run = load.run + 1 /\ load'.at = _mnemonicKey /\ clear'.run = clear.run
      BY <2>1
    <2>6. \A i \in 1..Len(calls'), r \in Nat :
             /\ calls'[i].waiter = <<"load", r>> => r <= load'.run
             /\ calls'[i].waiter = <<"clear", r>> => r <= clear'.run
      <3> TAKE i \in 1..Len(calls'), r \in Nat
      <3>1. CASE calls'[i] = c
        <4>1. calls'[i].waiter = <<"load", r>> => r = load.run + 1
          BY <2>4, <3>1, NamesDiffer
        <4>2. calls'[i].waiter # <<"clear", r>>
          BY <2>4, <3>1, NamesDiffer
        <4> QED BY <1>a, <2>5, <4>1, <4>2
      <3>2. CASE \E j \in 1..Len(calls) : calls'[i] = calls[j]
        <4>1. /\ calls'[i].waiter = <<"load", r>> => r <= load.run
              /\ calls'[i].waiter = <<"clear", r>> => r <= clear.run
          BY <1>0, <3>2 DEF Waiting
        <4> QED BY <1>a, <2>5, <4>1
      <3> QED BY <1>c, <2>3, <3>1, <3>2
    <2>7. \A i \in 1..Len(answers'), r \in Nat :
             /\ answers'[i].to = <<"load", r>> => r <= load'.run
             /\ answers'[i].to = <<"clear", r>> => r <= clear'.run
      <3> TAKE i \in 1..Len(answers'), r \in Nat
      <3>1. /\ answers[i].to = <<"load", r>> => r <= load.run
            /\ answers[i].to = <<"clear", r>> => r <= clear.run
        BY <1>0, <2>1 DEF Waiting
      <3> QED BY <1>a, <2>1, <2>5, <3>1
    <2>8. LoadW' = <<"load", load.run + 1>> /\ ClearW' = ClearW
      BY <2>1, <2>5 DEF LoadW, ClearW
    <2>9. ASSUME NEW i \in 1..Len(calls')
          PROVE  /\ load'.at # "idle" /\ calls'[i].waiter = LoadW' => calls'[i].key = load'.at
                 /\ clear'.at # "idle" /\ calls'[i].waiter = ClearW' => calls'[i].key = clear'.at
      <3>1. CASE calls'[i] = c
        BY <2>4, <2>5, <2>8, <3>1, NamesDiffer DEF ClearW
      <3>2. CASE \E j \in 1..Len(calls) : calls'[i] = calls[j]
        <4>1. PICK j \in 1..Len(calls) : calls'[i] = calls[j]
          BY <3>2
        <4>2. calls[j].waiter # <<"load", load.run + 1>>
          <5>1. load.run + 1 \in Nat /\ ~ (load.run + 1 <= load.run)
            BY <1>a
          <5> QED BY <1>0, <5>1 DEF Waiting
        <4>3. clear.at # "idle" /\ calls[j].waiter = ClearW => calls[j].key = clear.at
          BY <1>0 DEF Waiting
        <4> QED BY <2>1, <2>8, <4>1, <4>2, <4>3
      <3> QED BY <1>c, <2>3, <3>1, <3>2
    <2> QED BY <2>6, <2>7, <2>9 DEF Waiting
  <1>3. CASE clearIdentity
    <2>1. /\ clear.at = "idle" /\ load' = load /\ answers' = answers
          /\ clear' = [at |-> _storageKey, run |-> clear.run + 1]
          /\ calls' = Append(calls, Delete(_storageKey, <<"clear", clear.run + 1>>))
      BY <1>3 DEF clearIdentity, DeleteOrder
    <2>2. Delete(_storageKey, <<"clear", clear.run + 1>>) \in Calls
      BY <1>a, CallsMade, NamesDiffer
    <2> DEFINE c == Delete(_storageKey, <<"clear", clear.run + 1>>)
    <2>3. Grown(calls, calls', c)
      BY <1>0, <2>1, <2>2, AppendGrows DEF StoreTypes
    <2>4. c.waiter = <<"clear", clear.run + 1>> /\ c.key = _storageKey
      BY DEF Delete
    <2> HIDE DEF c
    <2>5. clear'.run = clear.run + 1 /\ clear'.at = _storageKey /\ load'.run = load.run
      BY <2>1
    <2>6. \A i \in 1..Len(calls'), r \in Nat :
             /\ calls'[i].waiter = <<"load", r>> => r <= load'.run
             /\ calls'[i].waiter = <<"clear", r>> => r <= clear'.run
      <3> TAKE i \in 1..Len(calls'), r \in Nat
      <3>1. CASE calls'[i] = c
        <4>1. calls'[i].waiter = <<"clear", r>> => r = clear.run + 1
          BY <2>4, <3>1, NamesDiffer
        <4>2. calls'[i].waiter # <<"load", r>>
          BY <2>4, <3>1, NamesDiffer
        <4> QED BY <1>a, <2>5, <4>1, <4>2
      <3>2. CASE \E j \in 1..Len(calls) : calls'[i] = calls[j]
        <4>1. /\ calls'[i].waiter = <<"load", r>> => r <= load.run
              /\ calls'[i].waiter = <<"clear", r>> => r <= clear.run
          BY <1>0, <3>2 DEF Waiting
        <4> QED BY <1>a, <2>5, <4>1
      <3> QED BY <1>c, <2>3, <3>1, <3>2
    <2>7. \A i \in 1..Len(answers'), r \in Nat :
             /\ answers'[i].to = <<"load", r>> => r <= load'.run
             /\ answers'[i].to = <<"clear", r>> => r <= clear'.run
      <3> TAKE i \in 1..Len(answers'), r \in Nat
      <3>1. /\ answers[i].to = <<"load", r>> => r <= load.run
            /\ answers[i].to = <<"clear", r>> => r <= clear.run
        BY <1>0, <2>1 DEF Waiting
      <3> QED BY <1>a, <2>1, <2>5, <3>1
    <2>8. ClearW' = <<"clear", clear.run + 1>> /\ LoadW' = LoadW
      BY <2>1, <2>5 DEF LoadW, ClearW
    <2>9. ASSUME NEW i \in 1..Len(calls')
          PROVE  /\ load'.at # "idle" /\ calls'[i].waiter = LoadW' => calls'[i].key = load'.at
                 /\ clear'.at # "idle" /\ calls'[i].waiter = ClearW' => calls'[i].key = clear'.at
      <3>1. CASE calls'[i] = c
        BY <2>4, <2>5, <2>8, <3>1, NamesDiffer DEF LoadW
      <3>2. CASE \E j \in 1..Len(calls) : calls'[i] = calls[j]
        <4>1. PICK j \in 1..Len(calls) : calls'[i] = calls[j]
          BY <3>2
        <4>2. calls[j].waiter # <<"clear", clear.run + 1>>
          <5>1. clear.run + 1 \in Nat /\ ~ (clear.run + 1 <= clear.run)
            BY <1>a
          <5> QED BY <1>0, <5>1 DEF Waiting
        <4>3. load.at # "idle" /\ calls[j].waiter = LoadW => calls[j].key = load.at
          BY <1>0 DEF Waiting
        <4> QED BY <2>1, <2>8, <4>1, <4>2, <4>3
      <3> QED BY <1>c, <2>3, <3>1, <3>2
    <2> QED BY <2>6, <2>7, <2>9 DEF Waiting
  <1>4. CASE Carry
    <2>1. Shifted(calls, calls') /\ load' = load /\ clear' = clear
      BY <1>0, <1>4, CarryStep
    <2>2. PICK ok \in BOOLEAN : Carried(calls[1], ok)
      BY <1>0, <1>4, CarryStep
    <2>3. \A i \in 1..Len(calls') : \E j \in 1..Len(calls) : calls'[i] = calls[j]
      BY <2>1 DEF Shifted
    <2>4. 1 \in 1..Len(calls)
      BY <2>1 DEF Shifted
    <2>5. \A i \in 1..Len(answers') :
              \/ \E j \in 1..Len(answers) : answers'[i] = answers[j]
              \/ \E j \in 1..Len(calls) : answers'[i].to = calls[j].waiter
      <3>1. CASE answers' = answers
        BY <3>1
      <3> DEFINE a == [to |-> calls[1].waiter, ok |-> ok, value |-> stored[calls[1].key]]
      <3>2. CASE Grown(answers, answers', a)
        <4>1. \A i \in 1..Len(answers') :
                  (\E j \in 1..Len(answers) : answers'[i] = answers[j]) \/ answers'[i] = a
          <5> HIDE DEF a
          <5> QED BY <1>0, <3>2, CallsAfter
        <4>2. a.to = calls[1].waiter
          OBVIOUS
        <4> HIDE DEF a
        <4> QED BY <2>4, <4>1, <4>2
      <3> QED BY <2>2, <3>1, <3>2 DEF Carried
    <2> QED BY <1>b, <2>1, <2>3, <2>5
  <1>5. CASE Answer
    <2>1. Shifted(answers, answers')
      BY <1>0, <1>5, AnswerStep
    <2>2. 1 \in 1..Len(answers)
      BY <2>1 DEF Shifted
    <2>3. \A j \in 1..Len(calls) : calls[j].waiter # answers[1].to
      BY <1>0, <2>2 DEF Once
    <2>4. CASE Ends(answers[1])
      <3>1. load'.run = load.run /\ load'.at = "idle" /\ clear' = clear
        BY <1>a, <2>4 DEF Ends
      <3>2. \A i \in 1..Len(calls') : \/ \E j \in 1..Len(calls) : calls'[i] = calls[j]
                                      \/ calls'[i].waiter = Nobody
        BY <1>c, <2>4 DEF Ends, Write
      <3> QED BY <1>b, <1>d, <2>1, <3>1, <3>2
    <2>5. CASE Asks(answers[1])
      <3>1. /\ load'.run = load.run /\ load'.at = _storageKey /\ clear' = clear
            /\ answers[1].to = LoadW /\ Grown(calls, calls', Read(_storageKey, LoadW))
        BY <1>a, <2>5 DEF Asks
      <3>2. Read(_storageKey, LoadW).waiter = LoadW /\ Read(_storageKey, LoadW).key = _storageKey
        BY DEF Read
      <3>3. \A i \in 1..Len(calls') : \/ \E j \in 1..Len(calls) : calls'[i] = calls[j]
                                      \/ calls'[i].waiter = LoadW /\ calls'[i].key = load'.at
        BY <1>c, <3>1, <3>2
      <3> QED BY <1>b, <1>d, <2>1, <2>3, <3>1, <3>3
    <2>6. ASSUME NEW at \in Keys, GoesOn(answers[1], at) PROVE Waiting'
      <3>1. /\ load' = load /\ clear'.at = at /\ clear'.run = clear.run
            /\ answers[1].to = ClearW /\ Grown(calls, calls', Delete(at, ClearW))
        BY <1>a, <2>6 DEF GoesOn
      <3>2. Delete(at, ClearW).waiter = ClearW /\ Delete(at, ClearW).key = at
        BY DEF Delete
      <3>3. \A i \in 1..Len(calls') : \/ \E j \in 1..Len(calls) : calls'[i] = calls[j]
                                      \/ calls'[i].waiter = ClearW /\ calls'[i].key = clear'.at
        BY <1>c, <3>1, <3>2
      <3> QED BY <1>b, <1>d, <2>1, <2>3, <3>1, <3>3
    <2>7. CASE Stops(answers[1])
      <3>1. load' = load /\ clear'.at = "idle" /\ clear'.run = clear.run /\ calls' = calls
        BY <1>a, <2>7 DEF Stops
      <3> QED BY <1>b, <1>d, <2>1, <3>1
    <2>8. CASE Unheard
      BY <1>b, <1>d, <2>1, <2>8 DEF Unheard
    <2> QED BY <1>0, <1>5, <2>4, <2>5, <2>6, <2>7, <2>8, AnswerStep
  <1>6. CASE LoadTimeout
    <2>1. /\ load'.run = load.run /\ load'.at = "idle" /\ clear' = clear /\ calls' = calls
          /\ answers' = answers
      BY <1>a, <1>6 DEF LoadTimeout, LoadReturns
    <2> QED BY <1>b, <2>1
  <1>7. CASE ClearTimeout
    <2>1. /\ clear'.run = clear.run /\ clear'.at = "idle" /\ load' = load /\ calls' = calls
          /\ answers' = answers
      BY <1>a, <1>7 DEF ClearTimeout
    <2> QED BY <1>b, <2>1
  <1>8. CASE Crash
    <2>1. calls' = <<>> /\ answers' = <<>>
      BY <1>8 DEF Crash
    <2> QED BY <2>1 DEF Waiting
  <1> QED BY <1>1, <1>2, <1>3, <1>4, <1>5, <1>6, <1>7, <1>8 DEF Next

LEMMA OnceStep == StoreBase /\ Next => Once'
  <1> SUFFICES ASSUME StoreBase, Next PROVE Once'
    OBVIOUS
  <1>0. StoreTypes /\ Waiting /\ Once /\ answers \in Seq(Answers)
    BY DEF StoreBase, StoreTypes
  <1>a. load.run \in Nat /\ clear.run \in Nat /\ Len(calls) \in Nat
    BY <1>0, CallsAfter DEF StoreTypes
  <1>1. CASE createIdentity
    <2>1. created + 1 \in Nat \ {0} /\ answers' = answers /\ calls' = calls \o _persist(created + 1)
      BY <1>0, <1>1 DEF createIdentity, StoreTypes
    <2>2. /\ Len(calls') = Len(calls) + 3 /\ \A i \in 1..Len(calls) : calls'[i] = calls[i]
          /\ calls'[Len(calls) + 1] = Write(_mnemonicKey, created + 1)
          /\ calls'[Len(calls) + 2] = Write(_storageKey, created + 1)
          /\ calls'[Len(calls) + 3] = Write(_initializedKey, 1)
      BY <1>0, <2>1, CreateWrites
    <2>3. \A i \in 1..Len(calls') : calls'[i].waiter # Nobody =>
              i \in 1..Len(calls) /\ calls'[i] = calls[i]
      <3> TAKE i \in 1..Len(calls')
      <3>1. i \in 1..Len(calls) \/ i \in {Len(calls) + 1, Len(calls) + 2, Len(calls) + 3}
        BY <1>a, <2>2
      <3> QED BY <2>2, <3>1 DEF Write
    <2>4. \A j \in 1..Len(answers) : answers[j].to # Nobody
      BY <1>0, AnswersHaveWaiters
    <2>5. \A i, j \in 1..Len(calls') :
              calls'[i].waiter = calls'[j].waiter /\ calls'[i].waiter # Nobody => i = j
      BY <1>0, <2>3 DEF Once
    <2>6. \A i, j \in 1..Len(answers') : answers'[i].to = answers'[j].to => i = j
      BY <1>0, <2>1 DEF Once
    <2>7. \A i \in 1..Len(calls'), j \in 1..Len(answers') : calls'[i].waiter # answers'[j].to
      BY <1>0, <2>1, <2>3, <2>4 DEF Once
    <2> QED BY <2>5, <2>6, <2>7 DEF Once
  <1>2. CASE loadIdentity
    <2> DEFINE c == Read(_mnemonicKey, <<"load", load.run + 1>>)
    <2>1. c \in Calls /\ c.waiter = <<"load", load.run + 1>>
      BY <1>a, CallsMade, NamesDiffer DEF Read
    <2>2. calls' = Append(calls, c) /\ answers' = answers
      BY <1>2 DEF loadIdentity
    <2> HIDE DEF c
    <2>3. Grown(calls, calls', c)
      BY <1>0, <2>1, <2>2, AppendGrows DEF StoreTypes
    <2>4. load.run + 1 \in Nat /\ ~ (load.run + 1 <= load.run)
      BY <1>a
    <2>5. /\ \A i \in 1..Len(calls) : calls[i].waiter # c.waiter
          /\ \A i \in 1..Len(answers) : answers[i].to # c.waiter
      BY <1>0, <2>1, <2>4 DEF Waiting
    <2> QED BY <1>0, <2>1, <2>2, <2>3, <2>5, OnceGrown
  <1>3. CASE clearIdentity
    <2> DEFINE c == Delete(_storageKey, <<"clear", clear.run + 1>>)
    <2>1. c \in Calls /\ c.waiter = <<"clear", clear.run + 1>>
      BY <1>a, CallsMade, NamesDiffer DEF Delete
    <2>2. calls' = Append(calls, c) /\ answers' = answers
      BY <1>3 DEF clearIdentity, DeleteOrder
    <2> HIDE DEF c
    <2>3. Grown(calls, calls', c)
      BY <1>0, <2>1, <2>2, AppendGrows DEF StoreTypes
    <2>4. clear.run + 1 \in Nat /\ ~ (clear.run + 1 <= clear.run)
      BY <1>a
    <2>5. /\ \A i \in 1..Len(calls) : calls[i].waiter # c.waiter
          /\ \A i \in 1..Len(answers) : answers[i].to # c.waiter
      BY <1>0, <2>1, <2>4 DEF Waiting
    <2> QED BY <1>0, <2>1, <2>2, <2>3, <2>5, OnceGrown
  <1>4. CASE Carry
    BY <1>4, OnceCarried
  <1>5. CASE Answer
    <2>1. Shifted(answers, answers') /\ answers[1] \in Answers
      BY <1>0, <1>5, AnswerStep
    <2>2. 1 \in 1..Len(answers)
      BY <2>1 DEF Shifted
    <2>3. \A j \in 1..Len(calls) : calls[j].waiter # answers[1].to
      BY <1>0, <2>2 DEF Once
    <2>4. CASE Ends(answers[1])
      <3>1. CASE calls' = calls
        BY <2>1, <3>1, OnceSame
      <3>2. CASE answers[1].value # 0 /\ Grown(calls, calls', Write(_mnemonicKey, answers[1].value))
        <4> DEFINE c == Write(_mnemonicKey, answers[1].value)
        <4>1. c \in Calls /\ c.waiter = Nobody
          BY <2>1, <3>2, CallsMade, NamesDiffer DEF Answers, Write
        <4>2. Grown(calls, calls', c)
          BY <3>2
        <4> HIDE DEF c
        <4> QED BY <1>0, <2>1, <4>1, <4>2, OnceGrown
      <3> QED BY <2>4, <3>1, <3>2 DEF Ends
    <2>5. CASE Asks(answers[1])
      <3> DEFINE c == Read(_storageKey, LoadW)
      <3>1. c \in Calls /\ c.waiter = LoadW
        BY <1>a, CallsMade, NamesDiffer DEF Read, LoadW
      <3>2. Grown(calls, calls', c) /\ answers[1].to = LoadW
        BY <2>5 DEF Asks
      <3> HIDE DEF c
      <3> QED BY <1>0, <2>1, <2>3, <3>1, <3>2, OnceGrown
    <2>6. ASSUME NEW at \in Keys, GoesOn(answers[1], at) PROVE Once'
      <3> DEFINE c == Delete(at, ClearW)
      <3>1. c \in Calls /\ c.waiter = ClearW
        BY <1>a, CallsMade DEF Delete, ClearW
      <3>2. Grown(calls, calls', c) /\ answers[1].to = ClearW
        BY <2>6 DEF GoesOn
      <3> HIDE DEF c
      <3> QED BY <1>0, <2>1, <2>3, <3>1, <3>2, OnceGrown
    <2>7. CASE Stops(answers[1]) \/ Unheard
      <3>1. calls' = calls
        BY <2>7 DEF Stops, Unheard
      <3> QED BY <2>1, <3>1, OnceSame
    <2> QED BY <1>0, <1>5, <2>4, <2>5, <2>6, <2>7, AnswerStep
  <1>6. CASE LoadTimeout \/ ClearTimeout
    <2>1. calls' = calls /\ answers' = answers
      BY <1>6 DEF LoadTimeout, ClearTimeout
    <2> QED BY <2>1, OnceSame
  <1>7. CASE Crash
    <2>1. calls' = <<>> /\ answers' = <<>>
      BY <1>7 DEF Crash
    <2> QED BY <2>1 DEF Once
  <1> QED BY <1>1, <1>2, <1>3, <1>4, <1>5, <1>6, <1>7 DEF Next

\* A step of the service keeps what is said of the queues.
LEMMA BaseStep == StoreBase /\ [Next]_vars => StoreBase'
  <1>1. StoreBase /\ Next => StoreBase'
    BY TypesStep, WaitingStep, OnceStep DEF StoreBase
  <1>2. StoreBase /\ UNCHANGED vars => StoreBase'
    BY DEF StoreBase, StoreTypes, Waiting, Once, LoadW, ClearW, vars
  <1> QED BY <1>1, <1>2

-----------------------------------------------------------------------------
(* Clearing.  The answers come in the order of the calls, so that an answer which *)
(* could start a migration is taken before that of the delete behind it, and the  *)
(* migration's write is carried out before the delete of the mnemonic.            *)

Gone(k) ==
    /\ stored[k] = 0
    /\ \A i \in 1..Len(calls) : calls[i].op = "write" => calls[i].key # k

\* No answer beyond place n makes the running loadIdentity write a mnemonic.
NoMigration(n) ==
    load.at = _storageKey =>
        \A i \in 1..Len(answers) : i > n /\ answers[i].to = LoadW => answers[i].value = 0

\* The call of the running clearIdentity is behind every write to its entry.
DeletesLast(k) ==
    \A p \in 1..Len(calls) : calls[p].waiter = ClearW =>
        \A i \in 1..Len(calls) : i > p /\ calls[i].op = "write" => calls[i].key # k

\* Where the plugin has confirmed the running delete, the entry is gone, and nothing
\* answered later starts a migration.
Confirmed(k) == \A q \in 1..Len(answers) : answers[q].to = ClearW /\ answers[q].ok => Gone(k)
Ordered == \A q \in 1..Len(answers) :
    answers[q].to = ClearW /\ answers[q].ok => NoMigration(q)

ClearInv ==
    /\ since = "clear" /\ clear.at = _storageKey =>
           DeletesLast(_storageKey) /\ Confirmed(_storageKey) /\ Ordered
    /\ since = "clear" /\ clear.at \in {_mnemonicKey, _initializedKey} =>
           Gone(_storageKey) /\ NoMigration(0)
    /\ since = "clear" /\ clear.at = _mnemonicKey =>
           DeletesLast(_mnemonicKey) /\ Confirmed(_mnemonicKey)
    /\ since = "clear" /\ clear.at = _initializedKey => Gone(_mnemonicKey)
    /\ cleared => /\ since = "clear" /\ NoMigration(0)
                  /\ Gone(_storageKey) /\ Gone(_mnemonicKey)

LEMMA ClearFirst == Init => ClearInv
  BY NamesDiffer DEF Init, ClearInv

\* A call that writes no entry k may come behind the delete of k.
LEMMA GrownKeeps ==
    ASSUME StoreBase, NEW c \in Calls, NEW k, Grown(calls, calls', c),
           c.op = "write" => c.key # k, stored' = stored, clear'.run = clear.run
    PROVE  (Gone(k) => Gone(k)') /\ (DeletesLast(k) => DeletesLast(k)')
  <1> DEFINE n == Len(calls)
  <1>1. n \in Nat /\ Len(calls') = n + 1
        /\ \A i \in 1..Len(calls') : \/ i \in 1..n /\ calls'[i] = calls[i]
                                     \/ i = n + 1 /\ calls'[i] = c
    BY CallsAfter DEF StoreBase, Grown
  <1>2. Gone(k) => Gone(k)'
    BY <1>1 DEF Gone
  <1>3. ASSUME DeletesLast(k) PROVE DeletesLast(k)'
    <2> SUFFICES ASSUME NEW p \in 1..Len(calls'), calls'[p].waiter = ClearW,
                        NEW i \in 1..Len(calls'), i > p, calls'[i].op = "write"
                 PROVE  calls'[i].key # k
      BY DEF DeletesLast, ClearW
    <2>1. CASE calls'[i] = c
      BY <2>1
    <2>2. CASE i \in 1..n /\ calls'[i] = calls[i]
      <3>1. p \in 1..n /\ calls'[p] = calls[p]
        BY <1>1, <2>2
      <3> QED BY <1>3, <2>2, <3>1 DEF DeletesLast
    <2> QED BY <1>1, <2>1, <2>2
  <1> QED BY <1>2, <1>3

\* What the plugin does keeps an entry away; the delete behind all writes removes it.
LEMMA CarriedKeeps ==
    ASSUME StoreBase, Carry, NEW k \in Keys
    PROVE  /\ Gone(k) => Gone(k)'
           /\ DeletesLast(k) => DeletesLast(k)'
           /\ \A ok \in BOOLEAN :
                  (Carried(calls[1], ok) /\ ok /\ calls[1].waiter = ClearW /\ calls[1].key = k
                      /\ DeletesLast(k)) => Gone(k)'
  <1>1. /\ calls[1] \in Calls /\ Shifted(calls, calls') /\ clear' = clear
        /\ stored \in [Keys -> Nat]
    BY CarryStep DEF StoreBase, StoreTypes
  <1>2. /\ 1 \in 1..Len(calls)
        /\ \A i \in 1..Len(calls') : /\ i + 1 \in 1..Len(calls) /\ calls'[i] = calls[i + 1]
                                     /\ i + 1 > 1
    BY <1>1 DEF Shifted
  <1>3. ASSUME Gone(k) PROVE Gone(k)'
    <2>1. PICK ok \in BOOLEAN : Carried(calls[1], ok)
      BY CarryStep DEF StoreBase
    <2>2. calls[1].op = "delete" => calls[1].value = 0
      BY <1>1, CallFacts
    <2>3. calls[1].op \in {"write", "read", "delete"} /\ calls[1].key \in Keys
      BY <1>1, CallFacts
    <2>4. calls[1].op = "write" => calls[1].key # k
      BY <1>2, <1>3 DEF Gone
    <2>5. stored'[k] = 0
      BY <1>1, <1>3, <2>1, <2>2, <2>3, <2>4 DEF Gone, Carried
    <2> QED BY <1>2, <1>3, <2>5 DEF Gone
  <1>4. ASSUME DeletesLast(k) PROVE DeletesLast(k)'
    <2> SUFFICES ASSUME NEW p \in 1..Len(calls'), calls'[p].waiter = ClearW,
                        NEW i \in 1..Len(calls'), i > p, calls'[i].op = "write"
                 PROVE  calls'[i].key # k
      BY <1>1 DEF DeletesLast, ClearW
    <2>1. p + 1 \in 1..Len(calls) /\ i + 1 \in 1..Len(calls) /\ i + 1 > p + 1
          /\ calls'[p] = calls[p + 1] /\ calls'[i] = calls[i + 1]
      BY <1>2
    <2> QED BY <1>4, <2>1 DEF DeletesLast
  <1>5. \A ok \in BOOLEAN :
            (Carried(calls[1], ok) /\ ok /\ calls[1].waiter = ClearW /\ calls[1].key = k
                /\ DeletesLast(k)) => Gone(k)'
    <2> TAKE ok \in BOOLEAN
    <2> HAVE Carried(calls[1], ok) /\ ok /\ calls[1].waiter = ClearW /\ calls[1].key = k
                 /\ DeletesLast(k)
    <2>1. calls[1].op = "delete" /\ calls[1].value = 0
      BY <1>1, CallFacts DEF ClearW
    <2>2. stored'[k] = 0
      BY <1>1, <2>1 DEF Carried
    <2>3. \A i \in 1..Len(calls') : calls'[i].op = "write" => calls'[i].key # k
      BY <1>2 DEF DeletesLast
    <2> QED BY <2>2, <2>3 DEF Gone
  <1> QED BY <1>3, <1>4, <1>5

\* An entry that is away stays away from the answers as well.
LEMMA NoMigrationCarried ==
    ASSUME StoreBase, Carry, Gone(_storageKey), NEW n \in Nat, NoMigration(n)
    PROVE  NoMigration(n)'
  <1>1. /\ load' = load /\ Shifted(calls, calls') /\ calls[1] \in Calls
        /\ \E ok \in BOOLEAN : Carried(calls[1], ok)
    BY CarryStep DEF StoreBase
  <1>2. PICK ok \in BOOLEAN : Carried(calls[1], ok)
    BY <1>1
  <1>3. 1 \in 1..Len(calls)
    BY <1>1 DEF Shifted
  <1> DEFINE a == [to |-> calls[1].waiter, ok |-> ok, value |-> stored[calls[1].key]]
  <1>4. a.to = calls[1].waiter /\ a.value = stored[calls[1].key]
    OBVIOUS
  <1> HIDE DEF a
  <1> SUFFICES ASSUME load.at = _storageKey, NEW i \in 1..Len(answers'), i > n,
                      answers'[i].to = LoadW
               PROVE  answers'[i].value = 0
    BY <1>1 DEF NoMigration, LoadW
  <1>5. \A j \in 1..Len(answers) : j > n /\ answers[j].to = LoadW => answers[j].value = 0
    BY DEF NoMigration
  <1>6. CASE answers' = answers
    BY <1>5, <1>6
  <1>7. CASE Grown(answers, answers', a)
    <2>1. \/ i \in 1..Len(answers) /\ answers'[i] = answers[i]
          \/ answers'[i] = a
      BY <1>7, CallsAfter DEF StoreBase
    <2>2. CASE answers'[i] = a
      <3>1. load.at # "idle" /\ calls[1].waiter = LoadW
        BY <1>4, <2>2, NamesDiffer
      <3>2. calls[1].key = _storageKey
        BY <1>3, <3>1 DEF StoreBase, Waiting
      <3> QED BY <1>4, <2>2, <3>2 DEF Gone
    <2> QED BY <1>5, <2>1, <2>2
  <1> QED BY <1>2, <1>6, <1>7 DEF Carried, a

\* When an answer has been taken, the others are one place nearer.
LEMMA NoMigrationTaken ==
    ASSUME StoreBase, Shifted(answers, answers'), load' = load \/ load'.at = "idle",
           NEW n \in Nat, NoMigration(n + 1) \/ NoMigration(n)
    PROVE  NoMigration(n)'
  <1> SUFFICES ASSUME load'.at = _storageKey, NEW i \in 1..Len(answers'), i > n,
                      answers'[i].to = LoadW'
               PROVE  answers'[i].value = 0
    BY DEF NoMigration
  <1>1. load' = load /\ LoadW' = LoadW
    BY NamesDiffer DEF LoadW
  <1>2. i + 1 \in 1..Len(answers) /\ answers'[i] = answers[i + 1] /\ i + 1 > n /\ i + 1 > n + 1
    BY DEF Shifted
  <1> QED BY <1>1, <1>2 DEF NoMigration

LEMMA ClearStep == StoreBase /\ ClearInv /\ Next => ClearInv'
  <1> SUFFICES ASSUME StoreBase, ClearInv, Next PROVE ClearInv'
    OBVIOUS
  <1>0. StoreTypes /\ Waiting /\ Once /\ answers \in Seq(Answers) /\ calls \in Seq(Calls)
    BY DEF StoreBase, StoreTypes
  <1>a. /\ load.run \in Nat /\ clear.run \in Nat
        /\ load.at \in {"idle", _mnemonicKey, _storageKey}
        /\ clear.at \in {"idle", _mnemonicKey, _storageKey, _initializedKey}
        /\ load = [at |-> load.at, run |-> load.run, from |-> load.from]
        /\ clear = [at |-> clear.at, run |-> clear.run]
    BY <1>0 DEF StoreTypes
  <1>b. _storageKey \in Keys /\ _mnemonicKey \in Keys
    BY NamesDiffer
  <1>1. CASE createIdentity
    <2>1. since' # "clear" /\ ~ cleared'
      BY <1>1 DEF createIdentity
    <2> QED BY <2>1 DEF ClearInv
  <1>2. CASE loadIdentity
    <2> DEFINE c == Read(_mnemonicKey, <<"load", load.run + 1>>)
    <2>1. c \in Calls /\ c.op = "read"
      BY <1>a, <1>b, CallsMade DEF Read
    <2>2. /\ calls' = Append(calls, c) /\ answers' = answers /\ stored' = stored
          /\ clear' = clear /\ since' = since /\ cleared' = cleared /\ load'.at = _mnemonicKey
      BY <1>2 DEF loadIdentity, history
    <2> HIDE DEF c
    <2>3. Grown(calls, calls', c)
      BY <1>0, <2>1, <2>2, AppendGrows
    <2>4. \A k \in Keys : (Gone(k) => Gone(k)') /\ (DeletesLast(k) => DeletesLast(k)')
      BY <2>1, <2>2, <2>3, GrownKeeps
    <2>5. \A n : NoMigration(n)'
      BY <2>2, NamesDiffer DEF NoMigration
    <2>6. \A k \in Keys : Confirmed(k) => Confirmed(k)'
      BY <2>2, <2>4 DEF Confirmed, ClearW
    <2>7. Ordered'
      BY <2>5 DEF Ordered
    <2> QED BY <1>b, <2>2, <2>4, <2>5, <2>6, <2>7 DEF ClearInv
  <1>3. CASE clearIdentity
    <2> DEFINE c == Delete(_storageKey, <<"clear", clear.run + 1>>)
    <2>1. c \in Calls /\ c.waiter = <<"clear", clear.run + 1>>
      BY <1>a, <1>b, CallsMade DEF Delete
    <2>2. /\ calls' = Append(calls, c) /\ answers' = answers /\ ~ cleared'
          /\ clear'.at = _storageKey /\ ClearW' = <<"clear", clear.run + 1>>
      BY <1>3 DEF clearIdentity, DeleteOrder, ClearW
    <2> HIDE DEF c
    <2>3. Grown(calls, calls', c) /\ Len(calls) \in Nat
      BY <1>0, <2>1, <2>2, AppendGrows
    <2>4. clear.run + 1 \in Nat /\ ~ (clear.run + 1 <= clear.run)
      BY <1>a
    <2>5. /\ \A i \in 1..Len(calls) : calls[i].waiter # ClearW'
          /\ \A i \in 1..Len(answers) : answers[i].to # ClearW'
      BY <1>0, <2>2, <2>4 DEF Waiting
    <2>6. DeletesLast(_storageKey)'
      <3> SUFFICES ASSUME NEW p \in 1..Len(calls'), calls'[p].waiter = ClearW',
                          NEW i \in 1..Len(calls'), i > p
                   PROVE  FALSE
        BY DEF DeletesLast
      <3>1. p \in 1..Len(calls) /\ calls'[p] = calls[p]
        BY <2>3 DEF Grown
      <3> QED BY <2>5, <3>1
    <2>7. Confirmed(_storageKey)' /\ Ordered'
      BY <2>2, <2>5 DEF Confirmed, Ordered
    <2> QED BY <2>2, <2>6, <2>7, NamesDiffer DEF ClearInv
  <1>4. CASE Carry
    <2>1. /\ clear' = clear /\ load' = load /\ since' = since /\ cleared' = cleared
          /\ Shifted(calls, calls') /\ calls[1] \in Calls
      BY <1>0, <1>4, CarryStep DEF history
    <2>2. PICK ok \in BOOLEAN : Carried(calls[1], ok)
      BY <1>0, <1>4, CarryStep
    <2>3. \A k \in Keys : (Gone(k) => Gone(k)') /\ (DeletesLast(k) => DeletesLast(k)')
      BY <1>4, CarriedKeeps
    <2>4. \A k \in Keys : (ok /\ calls[1].waiter = ClearW /\ calls[1].key = k /\ DeletesLast(k))
                              => Gone(k)'
      BY <1>4, <2>2, CarriedKeeps
    <2>5. Gone(_storageKey) => \A n \in Nat : NoMigration(n) => NoMigration(n)'
      BY <1>4, NoMigrationCarried
    <2>6. ClearW' = ClearW /\ Len(answers) \in Nat /\ 1 \in 1..Len(calls)
      BY <1>0, <2>1, CallsAfter DEF ClearW, Shifted
    <2> DEFINE a == [to |-> calls[1].waiter, ok |-> ok, value |-> stored[calls[1].key]]
    <2>7. a.to = calls[1].waiter /\ a.ok = ok
      OBVIOUS
    <2>8. answers' = answers \/ Grown(answers, answers', a)
      BY <2>2 DEF Carried
    <2> HIDE DEF a
    <2>9. \A q \in 1..Len(answers') : \/ q \in 1..Len(answers) /\ answers'[q] = answers[q]
                                      \/ /\ q = Len(answers) + 1 /\ answers'[q] = a
                                         /\ Len(answers') = Len(answers) + 1
      BY <1>0, <2>8, CallsAfter DEF Grown
    <2>10. ASSUME NEW k \in Keys, clear.at = k, DeletesLast(k), Confirmed(k)
           PROVE  Confirmed(k)'
      <3> SUFFICES ASSUME NEW q \in 1..Len(answers'), answers'[q].to = ClearW, answers'[q].ok
                   PROVE  Gone(k)'
        BY <2>6 DEF Confirmed
      <3>1. CASE q \in 1..Len(answers) /\ answers'[q] = answers[q]
        BY <2>3, <2>10, <3>1 DEF Confirmed
      <3>2. CASE answers'[q] = a
        <4>1. ok /\ calls[1].waiter = ClearW
          BY <2>7, <3>2
        <4>2. calls[1].key = k
          BY <1>0, <2>6, <2>10, <4>1, NamesDiffer DEF Waiting
        <4> QED BY <2>4, <2>10, <4>1, <4>2
      <3> QED BY <2>9, <3>1, <3>2
    <2>11. ASSUME Confirmed(_storageKey), Ordered PROVE Ordered'
      <3> SUFFICES ASSUME NEW q \in 1..Len(answers'), answers'[q].to = ClearW, answers'[q].ok
                   PROVE  NoMigration(q)'
        BY <2>6 DEF Ordered
      <3>1. CASE q \in 1..Len(answers) /\ answers'[q] = answers[q]
        BY <2>5, <2>11, <3>1 DEF Confirmed, Ordered
      <3>2. CASE q = Len(answers) + 1 /\ Len(answers') = Len(answers) + 1
        <4>1. \A i \in 1..Len(answers') : ~ (i > q)
          BY <2>6, <3>2
        <4> QED BY <4>1 DEF NoMigration
      <3> QED BY <2>9, <3>1, <3>2
    <2>12. 0 \in Nat
      OBVIOUS
    <2> QED BY <1>b, <2>1, <2>3, <2>5, <2>10, <2>11, <2>12, NamesDiffer DEF ClearInv
  <1>5. CASE Answer
    <2> DEFINE a == answers[1]
    <2>1. /\ Shifted(answers, answers') /\ a \in Answers /\ stored' = stored /\ since' = since
      BY <1>0, <1>5, AnswerStep
    <2>2. /\ 1 \in 1..Len(answers)
          /\ \A q \in 1..Len(answers') : /\ q + 1 \in 1..Len(answers) /\ q + 1 # 1
                                         /\ answers'[q] = answers[q + 1]
      BY <2>1 DEF Shifted
    <2>3. /\ \A j \in 1..Len(calls) : calls[j].waiter # a.to
          /\ \A q \in 1..Len(answers') : answers'[q].to # a.to
      BY <1>0, <2>2 DEF Once
    <2>4. load' = load \/ load'.at = "idle" => \A n \in Nat :
              (NoMigration(n) => NoMigration(n)') /\ (NoMigration(n + 1) => NoMigration(n)')
      BY <2>1, NoMigrationTaken
    \* Whatever keeps the two queues' entries away keeps what was confirmed.
    <2>5. ASSUME NEW k \in Keys, Gone(k) => Gone(k)', Confirmed(k), ClearW' = ClearW
          PROVE  Confirmed(k)'
      BY <2>2, <2>5 DEF Confirmed
    <2>6. ASSUME Ordered, ClearW' = ClearW, \A n \in Nat : NoMigration(n + 1) => NoMigration(n)'
          PROVE  Ordered'
      <3> SUFFICES ASSUME NEW q \in 1..Len(answers'), answers'[q].to = ClearW, answers'[q].ok
                   PROVE  NoMigration(q)'
        BY <2>6 DEF Ordered
      <3>1. NoMigration(q + 1) /\ q \in Nat
        BY <2>2, <2>6 DEF Ordered
      <3> QED BY <2>6, <3>1
    <2>7. CASE Ends(a) \/ Asks(a) \/ Unheard
      <3>1. clear' = clear /\ cleared' = cleared /\ ClearW' = ClearW
        BY <2>7 DEF Ends, Asks, Unheard, ClearW
      <3>2. \A n \in Nat : (NoMigration(n + 1) => NoMigration(n)')
                           /\ (NoMigration(n) => NoMigration(n)')
        <4>1. CASE Ends(a) \/ Unheard
          <5>1. load' = load \/ load'.at = "idle"
            BY <1>a, <4>1 DEF Ends, Unheard
          <5> QED BY <2>4, <5>1
        <4>2. CASE Asks(a)
          <5>1. LoadW' = LoadW /\ a.to = LoadW
            BY <1>a, <4>2 DEF Asks, LoadW
          <5> QED BY <2>3, <5>1 DEF NoMigration
        <4> QED BY <2>7, <4>1, <4>2
      <3>3. CASE /\ load.at = _storageKey /\ a.to = LoadW /\ a.ok /\ a.value # 0
                 /\ Grown(calls, calls', Write(_mnemonicKey, a.value))
        <4>1. ~ NoMigration(0)
          <5>1. 1 > 0
            OBVIOUS
          <5> QED BY <2>2, <3>3, <5>1 DEF NoMigration
        <4> DEFINE c == Write(_mnemonicKey, a.value)
        <4>2. c \in Calls /\ c.key # _storageKey
          BY <1>b, <2>1, <3>3, CallsMade, NamesDiffer DEF Write, Answers
        <4>3. Grown(calls, calls', c)
          BY <3>3
        <4> HIDE DEF c
        <4>4. /\ Gone(_storageKey) => Gone(_storageKey)'
              /\ DeletesLast(_storageKey) => DeletesLast(_storageKey)'
          BY <2>1, <3>1, <4>2, <4>3, GrownKeeps
        <4> QED
          BY <1>b, <2>1, <2>5, <2>6, <3>1, <3>2, <4>1, <4>4, NamesDiffer DEF ClearInv
      <3>4. CASE calls' = calls \/ Grown(calls, calls', Read(_storageKey, LoadW))
        <4>1. \A k \in Keys : (Gone(k) => Gone(k)') /\ (DeletesLast(k) => DeletesLast(k)')
          <5>1. CASE calls' = calls
            BY <2>1, <3>1, <5>1 DEF Gone, DeletesLast
          <5> DEFINE c == Read(_storageKey, LoadW)
          <5>2. c \in Calls /\ c.op = "read"
            BY <1>a, <1>b, CallsMade DEF Read, LoadW
          <5>3. CASE Grown(calls, calls', c)
            <6> HIDE DEF c
            <6> QED BY <2>1, <3>1, <5>2, <5>3, GrownKeeps
          <5> QED BY <3>4, <5>1, <5>3
        <4>2. 0 \in Nat
          OBVIOUS
        <4> QED
          BY <1>b, <2>1, <2>5, <2>6, <3>1, <3>2, <4>1, <4>2, NamesDiffer DEF ClearInv
      <3> QED BY <2>7, <3>3, <3>4 DEF Ends, Asks, Unheard
    <2>8. ASSUME NEW at \in Keys, GoesOn(a, at) PROVE ClearInv'
      <3> DEFINE c == Delete(at, ClearW)
      <3>1. /\ a.to = ClearW /\ a.ok /\ clear'.at = at /\ clear'.run = clear.run
            /\ Grown(calls, calls', c) /\ load' = load /\ cleared' = cleared
            /\ \/ clear.at = _storageKey /\ at = _mnemonicKey
               \/ clear.at = _mnemonicKey /\ at = _initializedKey
        BY <1>a, <2>8 DEF GoesOn
      <3>2. c \in Calls /\ c.op = "delete"
        BY <1>a, CallsMade DEF Delete, ClearW
      <3> HIDE DEF c
      <3>3. \A k \in Keys : Gone(k) => Gone(k)'
        BY <2>1, <3>1, <3>2, GrownKeeps
      <3>4. NoMigration(0) \/ NoMigration(1) => NoMigration(0)'
        <4>1. 0 \in Nat /\ 0 + 1 = 1
          OBVIOUS
        <4> QED BY <2>4, <3>1, <4>1
      <3>5. CASE clear.at = _storageKey /\ at = _mnemonicKey /\ since = "clear"
        <4>1. Gone(_storageKey) /\ NoMigration(1)
          BY <2>2, <3>1, <3>5 DEF ClearInv, Confirmed, Ordered
        <4>2. ClearW' = ClearW
          BY <3>1 DEF ClearW
        <4>3. Confirmed(_mnemonicKey)'
          BY <2>3, <3>1, <4>2 DEF Confirmed
        <4>4. DeletesLast(_mnemonicKey)'
          <5> SUFFICES ASSUME NEW p \in 1..Len(calls'), calls'[p].waiter = ClearW,
                              NEW i \in 1..Len(calls'), i > p
                       PROVE  FALSE
            BY <4>2 DEF DeletesLast
          <5>1. Len(calls) \in Nat
            BY <1>0
          <5>2. p \in 1..Len(calls) /\ calls'[p] = calls[p]
            BY <3>1, <5>1 DEF Grown
          <5> QED BY <2>3, <3>1, <5>2
        <4> QED
          BY <1>b, <2>1, <3>1, <3>3, <3>4, <3>5, <4>1, <4>3, <4>4, NamesDiffer DEF ClearInv
      <3>6. CASE clear.at = _mnemonicKey /\ at = _initializedKey /\ since = "clear"
        <4>1. Gone(_storageKey) /\ NoMigration(0) /\ Gone(_mnemonicKey)
          BY <2>2, <3>1, <3>6 DEF ClearInv, Confirmed
        <4> QED BY <1>b, <2>1, <3>1, <3>3, <3>4, <3>6, <4>1, NamesDiffer DEF ClearInv
      <3>7. CASE since # "clear"
        BY <2>1, <3>1, <3>7 DEF ClearInv
      <3> QED BY <3>1, <3>5, <3>6, <3>7
    <2>9. CASE Stops(a)
      <3>1. /\ clear'.at = "idle" /\ calls' = calls /\ load' = load
            /\ cleared' => clear.at = _initializedKey /\ since = "clear"
        BY <1>a, <2>9 DEF Stops
      <3>2. \A k : Gone(k) => Gone(k)'
        BY <2>1, <3>1 DEF Gone
      <3>3. NoMigration(0) => NoMigration(0)'
        <4>1. 0 \in Nat
          OBVIOUS
        <4> QED BY <2>4, <3>1, <4>1
      <3>4. cleared' => Gone(_storageKey) /\ Gone(_mnemonicKey) /\ NoMigration(0)
        BY <3>1 DEF ClearInv
      <3> QED BY <2>1, <3>1, <3>2, <3>3, <3>4, NamesDiffer DEF ClearInv
    <2> QED BY <1>0, <1>5, <2>7, <2>8, <2>9, AnswerStep
  <1>6. CASE LoadTimeout \/ ClearTimeout
    <2>1. /\ calls' = calls /\ answers' = answers /\ stored' = stored /\ since' = since
          /\ cleared' = cleared /\ load'.run = load.run /\ clear'.run = clear.run
          /\ load' = load \/ load'.at = "idle"
          /\ clear' = clear \/ clear'.at = "idle"
      BY <1>a, <1>6 DEF LoadTimeout, LoadReturns, ClearTimeout, history
    <2>2. LoadW' = LoadW /\ ClearW' = ClearW
      BY <2>1 DEF LoadW, ClearW
    <2>3. \A k : (Gone(k) => Gone(k)') /\ (DeletesLast(k) => DeletesLast(k)')
      BY <2>1, <2>2 DEF Gone, DeletesLast
    <2>4. \A n : NoMigration(n) => NoMigration(n)'
      BY <2>1, <2>2, NamesDiffer DEF NoMigration
    <2>5. (\A k : Confirmed(k) => Confirmed(k)') /\ (Ordered => Ordered')
      BY <2>1, <2>2, <2>3, <2>4 DEF Confirmed, Ordered
    <2> QED BY <2>1, <2>3, <2>4, <2>5, NamesDiffer DEF ClearInv
  <1>7. CASE Crash
    <2>1. /\ calls' = <<>> /\ answers' = <<>> /\ stored' = stored /\ since' = since
          /\ cleared' = cleared /\ load'.at = "idle" /\ clear'.at = "idle"
      BY <1>a, <1>7 DEF Crash, history
    <2>2. \A k : Gone(k) => Gone(k)'
      BY <2>1 DEF Gone
    <2>3. \A n : NoMigration(n)'
      BY <2>1 DEF NoMigration
    <2> QED BY <2>1, <2>2, <2>3, NamesDiffer DEF ClearInv
  <1> QED BY <1>1, <1>2, <1>3, <1>4, <1>5, <1>6, <1>7 DEF Next

-----------------------------------------------------------------------------
(* Loading.  An entry the plugin will have once the first n calls are carried out *)
(* is what the last of them puts there, or what is stored.                        *)

Changes(call, k) == call.op # "read" /\ call.key = k
Unchanged(q, k, m, n) == \A i \in m..n : ~ Changes(q[i], k)
ValueAt(q, st, k, n, v) ==
    \/ \E j \in 1..n : Changes(q[j], k) /\ q[j].value = v /\ Unchanged(q, k, j + 1, n)
    \/ st[k] = v /\ Unchanged(q, k, 1, n)

LEMMA ValueAppended ==
    ASSUME NEW n \in Nat, NEW s, NEW t, NEW c, NEW st, NEW k, NEW v, t[n + 1] = c,
           \A i \in 1..n : t[i] = s[i]
    PROVE  /\ \A m \in 0..n : ValueAt(t, st, k, m, v) <=> ValueAt(s, st, k, m, v)
           /\ ValueAt(t, st, k, n + 1, v) =>
                  IF Changes(c, k) THEN c.value = v ELSE ValueAt(s, st, k, n, v)
  <1>1. ASSUME NEW m \in 0..n
        PROVE  ValueAt(t, st, k, m, v) <=> ValueAt(s, st, k, m, v)
    <2>1. \A i \in 1..m : t[i] = s[i]
      OBVIOUS
    <2>2. \A j \in 1..m + 1 : Unchanged(t, k, j, m) <=> Unchanged(s, k, j, m)
      BY <2>1 DEF Unchanged
    <2>3. \A j \in 1..m : j + 1 \in 1..m + 1 /\ 1 \in 1..m + 1
      OBVIOUS
    <2>4. 1 \in 1..m + 1
      OBVIOUS
    <2> QED BY <2>1, <2>2, <2>3, <2>4 DEF ValueAt
  <1>2. ASSUME ValueAt(t, st, k, n + 1, v), Changes(c, k) PROVE c.value = v
    <2>1. ~ Unchanged(t, k, 1, n + 1)
      <3>1. n + 1 \in 1..n + 1
        OBVIOUS
      <3> QED BY <1>2, <3>1 DEF Unchanged
    <2>2. PICK j \in 1..n + 1 : Changes(t[j], k) /\ t[j].value = v /\ Unchanged(t, k, j + 1, n + 1)
      BY <1>2, <2>1 DEF ValueAt
    <2>3. j = n + 1
      <3>1. j # n + 1 => n + 1 \in j + 1..n + 1
        OBVIOUS
      <3> QED BY <1>2, <2>2, <3>1 DEF Unchanged
    <2> QED BY <2>2, <2>3
  <1>3. ASSUME ValueAt(t, st, k, n + 1, v), ~ Changes(c, k) PROVE ValueAt(s, st, k, n, v)
    <2>1. CASE st[k] = v /\ Unchanged(t, k, 1, n + 1)
      <3>1. Unchanged(s, k, 1, n)
        BY <2>1 DEF Unchanged
      <3> QED BY <2>1, <3>1 DEF ValueAt
    <2>2. CASE \E j \in 1..n + 1 : /\ Changes(t[j], k) /\ t[j].value = v
                                   /\ Unchanged(t, k, j + 1, n + 1)
      <3>1. PICK j \in 1..n + 1 : /\ Changes(t[j], k) /\ t[j].value = v
                                  /\ Unchanged(t, k, j + 1, n + 1)
        BY <2>2
      <3>2. j \in 1..n
        BY <1>3, <3>1
      <3>3. Unchanged(s, k, j + 1, n)
        BY <3>1, <3>2 DEF Unchanged
      <3> QED BY <3>1, <3>2, <3>3 DEF ValueAt
    <2> QED BY <1>3, <2>1, <2>2 DEF ValueAt
  <1> QED BY <1>1, <1>2, <1>3

\* What the last of n + 1 calls leaves.
LEMMA ValueLast ==
    ASSUME NEW n \in Nat, NEW s, NEW st, NEW k, NEW v, ValueAt(s, st, k, n + 1, v)
    PROVE  IF Changes(s[n + 1], k) THEN s[n + 1].value = v ELSE ValueAt(s, st, k, n, v)
  <1> DEFINE c == s[n + 1]
  <1>1. c = s[n + 1] /\ \A i \in 1..n : s[i] = s[i]
    OBVIOUS
  <1> HIDE DEF c
  <1> QED BY <1>1, ValueAppended

\* The value that was to come after n + 1 calls comes after n when the first has been
\* carried out.
LEMMA ValueCarried ==
    ASSUME NEW n \in Nat, NEW s, NEW t, NEW st, NEW new, NEW k, NEW v,
           \A i \in 1..n : t[i] = s[i + 1],
           new[k] = IF Changes(s[1], k) THEN s[1].value ELSE st[k],
           ValueAt(t, new, k, n, v)
    PROVE  ValueAt(s, st, k, n + 1, v)
  <1>1. \A i \in 2..n + 1 : i - 1 \in 1..n /\ (i - 1) + 1 = i
    OBVIOUS
  <1>2. \A i \in 2..n + 1 : s[i] = t[i - 1]
    BY <1>1
  <1>3. CASE \E j \in 1..n : Changes(t[j], k) /\ t[j].value = v /\ Unchanged(t, k, j + 1, n)
    <2>1. PICK j \in 1..n : Changes(t[j], k) /\ t[j].value = v /\ Unchanged(t, k, j + 1, n)
      BY <1>3
    <2>2. j + 1 \in 1..n + 1 /\ s[j + 1] = t[j]
      OBVIOUS
    <2>3. Unchanged(s, k, (j + 1) + 1, n + 1)
      <3> SUFFICES ASSUME NEW i \in (j + 1) + 1..n + 1 PROVE ~ Changes(s[i], k)
        BY DEF Unchanged
      <3>1. i \in 2..n + 1 /\ i - 1 \in j + 1..n
        OBVIOUS
      <3> QED BY <1>2, <2>1, <3>1 DEF Unchanged
    <2> QED BY <2>1, <2>2, <2>3 DEF ValueAt
  <1>4. CASE new[k] = v /\ Unchanged(t, k, 1, n)
    <2>1. Unchanged(s, k, 2, n + 1)
      <3> SUFFICES ASSUME NEW i \in 2..n + 1 PROVE ~ Changes(s[i], k)
        BY DEF Unchanged
      <3> QED BY <1>1, <1>2, <1>4 DEF Unchanged
    <2>2. CASE Changes(s[1], k)
      <3>1. 1 \in 1..n + 1 /\ 1 + 1 = 2
        OBVIOUS
      <3> QED BY <1>4, <2>1, <2>2, <3>1 DEF ValueAt
    <2>3. CASE ~ Changes(s[1], k)
      <3>1. Unchanged(s, k, 1, n + 1)
        <4> SUFFICES ASSUME NEW i \in 1..n + 1 PROVE ~ Changes(s[i], k)
          BY DEF Unchanged
        <4>1. i = 1 \/ i \in 2..n + 1
          OBVIOUS
        <4> QED BY <2>1, <2>3, <4>1 DEF Unchanged
      <3> QED BY <1>4, <2>3, <3>1 DEF ValueAt
    <2> QED BY <2>2, <2>3
  <1> QED BY <1>3, <1>4 DEF ValueAt

LoadKeys == {_mnemonicKey, _storageKey}

\* Each entry a loadIdentity reads will be absent or of the last identity; what the
\* running one asks for or has been answered is absent or of the last identity too.
\* This takes that nothing was refused or killed and that no identity was created
\* while one was being loaded.
Quiet == crashes = 0 /\ refusals = 0 /\ ~ raced
FreshInv ==
    /\ load.at # "idle" => load.from = created
    /\ \A k \in LoadKeys, v \in Nat :
           ValueAt(calls, stored, k, Len(calls), v) => v \in {0, created}
    /\ load.at # "idle" => \A i \in 1..Len(calls), v \in Nat :
           calls[i].waiter = LoadW /\ ValueAt(calls, stored, calls[i].key, i - 1, v)
               => v \in {0, created}
    /\ load.at # "idle" => \A i \in 1..Len(answers) :
           answers[i].to = LoadW => answers[i].value \in {0, created}
    /\ loaded.id # 0 => loaded.id >= loaded.from

LEMMA QuietBefore == StoreBase /\ Next /\ Quiet' => Quiet
  <1> SUFFICES ASSUME StoreBase, Next, Quiet' PROVE Quiet
    OBVIOUS
  <1>1. refusals \in Nat /\ crashes \in Nat
    BY DEF StoreBase, StoreTypes
  <1>2. CASE Carry
    <2>1. PICK ok \in BOOLEAN : Carried(calls[1], ok)
      BY <1>2, CarryStep DEF StoreBase
    <2>2. refusals = 0
      BY <1>1, <2>1 DEF Quiet, Carried
    <2>3. crashes' = crashes /\ raced' = raced
      BY <1>2, CarryStep DEF StoreBase, history
    <2> QED BY <2>2, <2>3 DEF Quiet
  <1>3. CASE Answer
    BY <1>3 DEF Answer, Quiet
  <1>4. CASE Crash
    BY <1>1, <1>4 DEF Crash, Quiet
  <1>5. CASE createIdentity
    <2>1. crashes' = crashes /\ refusals' = refusals /\ (raced => raced')
      BY <1>5 DEF createIdentity
    <2> QED BY <2>1 DEF Quiet
  <1>6. CASE loadIdentity \/ clearIdentity \/ LoadTimeout \/ ClearTimeout
    <2>1. crashes' = crashes /\ refusals' = refusals /\ raced' = raced
      BY <1>6 DEF loadIdentity, clearIdentity, LoadTimeout, ClearTimeout, history
    <2> QED BY <2>1 DEF Quiet
  <1> QED BY <1>2, <1>3, <1>4, <1>5, <1>6 DEF Next

LEMMA FreshFirst == Init => FreshInv
  <1> SUFFICES ASSUME Init PROVE FreshInv
    OBVIOUS
  <1>1. /\ load.at = "idle" /\ loaded.id = 0 /\ calls = <<>>
        /\ \A k \in LoadKeys : stored[k] \in {0, created}
    BY NamesDiffer DEF Init, LoadKeys
  <1>2. Len(calls) = 0
    BY <1>1
  <1>3. \A k \in LoadKeys, v \in Nat : ValueAt(calls, stored, k, Len(calls), v) => v \in {0, created}
    BY <1>1, <1>2 DEF ValueAt
  <1> QED BY <1>1, <1>3 DEF FreshInv

\* A call c behind the others changes what is to come as it says, and nothing before it.
LEMMA FreshGrown ==
    ASSUME StoreBase, FreshInv, NEW c \in Calls, Grown(calls, calls', c),
           stored' = stored, created' = created,
           c.op = "write" => c.value = created
    PROVE  /\ \A k \in LoadKeys, v \in Nat :
                  ValueAt(calls', stored', k, Len(calls'), v) => v \in {0, created'}
           /\ \A m \in 0..Len(calls) : \A k, v : ValueAt(calls', stored', k, m, v)
                                               <=> ValueAt(calls, stored, k, m, v)
  <1> DEFINE n == Len(calls)
  <1>1. n \in Nat /\ Len(calls') = n + 1 /\ calls'[n + 1] = c
        /\ \A i \in 1..n : calls'[i] = calls[i]
    BY CallsAfter DEF StoreBase, Grown
  <1>2. \A m \in 0..n : \A k, v : ValueAt(calls', stored, k, m, v) <=> ValueAt(calls, stored, k, m, v)
    <2> TAKE m \in 0..n
    <2> TAKE k, v
    <2> HIDE DEF n
    <2> QED BY <1>1, ValueAppended
  <1>3. \A k, v : ValueAt(calls', stored, k, n + 1, v) =>
            IF Changes(c, k) THEN c.value = v ELSE ValueAt(calls, stored, k, n, v)
    BY <1>1, ValueAppended
  <1>4. \A k \in LoadKeys, v \in Nat : ValueAt(calls, stored, k, n, v) => v \in {0, created}
    BY DEF FreshInv
  <1>5. \A k : Changes(c, k) => c.value \in {0, created}
    BY CallFacts DEF Changes
  <1> HIDE DEF n
  <1>6. \A k \in LoadKeys, v \in Nat :
            ValueAt(calls', stored, k, n + 1, v) => v \in {0, created}
    BY <1>3, <1>4, <1>5
  <1> QED BY <1>1, <1>2, <1>6 DEF n

\* A delete behind the others changes nothing for the running loadIdentity.
LEMMA FreshBehind ==
    ASSUME StoreBase, FreshInv, NEW c \in Calls, c.op = "delete", Grown(calls, calls', c),
           stored' = stored, created' = created, load' = load, loaded' = loaded,
           \A q \in 1..Len(answers') : \E p \in 1..Len(answers) : answers'[q] = answers[p]
    PROVE  FreshInv'
  <1>1. /\ \A k \in LoadKeys, v \in Nat :
                ValueAt(calls', stored', k, Len(calls'), v) => v \in {0, created'}
        /\ \A m \in 0..Len(calls) : \A k, v : ValueAt(calls', stored', k, m, v)
                                             <=> ValueAt(calls, stored, k, m, v)
    BY FreshGrown
  <1>2. LoadW' = LoadW /\ c.waiter # LoadW
    BY CallFacts DEF LoadW
  <1>3. ASSUME load.at # "idle", NEW i \in 1..Len(calls'), NEW v \in Nat,
               calls'[i].waiter = LoadW, ValueAt(calls', stored', calls'[i].key, i - 1, v)
        PROVE  v \in {0, created}
    <2>1. i \in 1..Len(calls) /\ calls'[i] = calls[i]
      BY <1>2, <1>3, CallsAfter DEF StoreBase
    <2>2. i - 1 \in 0..Len(calls)
      BY <2>1
    <2>3. ValueAt(calls, stored, calls[i].key, i - 1, v)
      BY <1>1, <1>3, <2>1, <2>2
    <2> QED BY <1>3, <2>1, <2>3 DEF FreshInv
  <1>4. load.at # "idle" => \A i \in 1..Len(answers') :
            answers'[i].to = LoadW => answers'[i].value \in {0, created}
    BY DEF FreshInv
  <1> QED BY <1>1, <1>2, <1>3, <1>4 DEF FreshInv

LEMMA FreshStep ==
    ASSUME StoreBase, Quiet', FreshInv, Next
    PROVE  FreshInv'
  <1>0. StoreTypes /\ Waiting /\ Once /\ Quiet /\ answers \in Seq(Answers) /\ calls \in Seq(Calls)
    BY QuietBefore DEF StoreBase, StoreTypes
  <1>a. /\ load.run \in Nat /\ clear.run \in Nat /\ created \in Nat /\ load.from \in Nat
        /\ Len(calls) \in Nat
        /\ load.at \in {"idle", _mnemonicKey, _storageKey}
        /\ clear.at \in {"idle", _mnemonicKey, _storageKey, _initializedKey}
        /\ load = [at |-> load.at, run |-> load.run, from |-> load.from]
        /\ clear = [at |-> clear.at, run |-> clear.run]
    BY <1>0 DEF StoreTypes
  <1>b. _storageKey \in Keys /\ _mnemonicKey \in Keys /\ _storageKey \in LoadKeys
        /\ _mnemonicKey \in LoadKeys
    BY NamesDiffer DEF LoadKeys
  <1>1. CASE createIdentity
    <2>1. /\ load' = load /\ loaded' = loaded /\ stored' = stored /\ created' = created + 1
          /\ calls' = calls \o _persist(created + 1) /\ raced' = (raced \/ load.at # "idle")
      BY <1>1 DEF createIdentity
    <2>2. load.at = "idle"
      BY <2>1 DEF Quiet
    <2> DEFINE n == Len(calls)
    <2>3. /\ n \in Nat /\ Len(calls') = n + 3
          /\ calls'[n + 1] = Write(_mnemonicKey, created + 1)
          /\ calls'[n + 2] = Write(_storageKey, created + 1)
          /\ calls'[n + 3] = Write(_initializedKey, 1)
      BY <1>0, <2>1, CreateWrites
    <2> HIDE DEF n
    <2>4. ASSUME NEW k \in LoadKeys, NEW v \in Nat, ValueAt(calls', stored, k, n + 3, v)
          PROVE  v = created + 1
      <3>1. \A m \in Nat : ValueAt(calls', stored, k, m + 1, v) =>
                IF Changes(calls'[m + 1], k) THEN calls'[m + 1].value = v
                ELSE ValueAt(calls', stored, k, m, v)
        BY ValueLast
      <3>2. /\ ~ Changes(calls'[n + 3], k)
            /\ Changes(calls'[n + 2], k) <=> k = _storageKey
            /\ Changes(calls'[n + 1], k) <=> k = _mnemonicKey
            /\ calls'[n + 1].value = created + 1 /\ calls'[n + 2].value = created + 1
        BY <2>3, NamesDiffer DEF LoadKeys, Changes, Write
      <3>3. (n + 2) + 1 = n + 3 /\ (n + 1) + 1 = n + 2 /\ n + 2 \in Nat /\ n + 1 \in Nat
        BY <2>3
      <3>4. ValueAt(calls', stored, k, n + 2, v)
        BY <2>4, <3>1, <3>2, <3>3
      <3>5. k = _storageKey \/ ValueAt(calls', stored, k, n + 1, v)
        BY <3>1, <3>2, <3>3, <3>4
      <3>6. k = _storageKey => v = created + 1
        BY <3>1, <3>2, <3>3, <3>4
      <3>7. k # _storageKey => v = created + 1
        BY <2>3, <3>1, <3>2, <3>5 DEF LoadKeys
      <3> QED BY <3>6, <3>7
    <2> QED BY <2>1, <2>2, <2>3, <2>4 DEF FreshInv
  <1>2. CASE loadIdentity
    <2> DEFINE c == Read(_mnemonicKey, <<"load", load.run + 1>>)
    <2>1. /\ c \in Calls /\ c.op = "read" /\ c.waiter = <<"load", load.run + 1>>
          /\ c.key = _mnemonicKey
      BY <1>a, <1>b, CallsMade DEF Read
    <2>2. /\ calls' = Append(calls, c) /\ answers' = answers /\ stored' = stored
          /\ load' = [at |-> _mnemonicKey, run |-> load.run + 1, from |-> created]
          /\ created' = created /\ loaded' = loaded
      BY <1>2 DEF loadIdentity
    <2> HIDE DEF c
    <2>3. Grown(calls, calls', c)
      BY <1>0, <2>1, <2>2, AppendGrows
    <2>4. load.run + 1 \in Nat /\ ~ (load.run + 1 <= load.run)
      BY <1>a
    <2>5. LoadW' = <<"load", load.run + 1>> /\ load'.from = created
      BY <2>2 DEF LoadW
    <2>6. /\ \A i \in 1..Len(calls) : calls[i].waiter # LoadW'
          /\ \A i \in 1..Len(answers) : answers[i].to # LoadW'
      BY <1>0, <2>4, <2>5 DEF Waiting
    <2>7. /\ \A k \in LoadKeys, v \in Nat :
                  ValueAt(calls', stored', k, Len(calls'), v) => v \in {0, created'}
          /\ \A m \in 0..Len(calls) : \A k, v : ValueAt(calls', stored', k, m, v)
                                               <=> ValueAt(calls, stored, k, m, v)
      BY <2>1, <2>2, <2>3, FreshGrown
    <2>8. ASSUME NEW i \in 1..Len(calls'), NEW v \in Nat, calls'[i].waiter = LoadW',
                 ValueAt(calls', stored', calls'[i].key, i - 1, v)
          PROVE  v \in {0, created'}
      <3>1. i = Len(calls) + 1 /\ calls'[i] = c
        BY <1>0, <2>3, <2>6, <2>8, CallsAfter
      <3>2. i - 1 = Len(calls) /\ Len(calls) \in 0..Len(calls)
        BY <1>a, <3>1
      <3>3. ValueAt(calls, stored, _mnemonicKey, Len(calls), v)
        BY <2>1, <2>7, <2>8, <3>1, <3>2
      <3> QED BY <1>b, <2>2, <3>3 DEF FreshInv
    <2> QED BY <2>2, <2>5, <2>6, <2>7, <2>8 DEF FreshInv
  <1>3. CASE clearIdentity
    <2> DEFINE c == Delete(_storageKey, <<"clear", clear.run + 1>>)
    <2>1. c \in Calls /\ c.op = "delete"
      BY <1>a, <1>b, CallsMade DEF Delete
    <2>2. /\ calls' = Append(calls, c) /\ answers' = answers /\ stored' = stored
          /\ load' = load /\ created' = created /\ loaded' = loaded
      BY <1>3 DEF clearIdentity, DeleteOrder
    <2> HIDE DEF c
    <2>3. Grown(calls, calls', c)
      BY <1>0, <2>1, <2>2, AppendGrows
    <2>4. \A q \in 1..Len(answers') : \E p \in 1..Len(answers) : answers'[q] = answers[p]
      BY <2>2
    <2> QED BY <2>1, <2>2, <2>3, <2>4, FreshBehind
  <1>4. CASE Carry
    <2> DEFINE c == calls[1]
               n == Len(calls')
    <2>1. /\ load' = load /\ loaded' = loaded /\ created' = created
          /\ Shifted(calls, calls') /\ calls' \in Seq(Calls) /\ c \in Calls
      BY <1>0, <1>4, CarryStep
    <2>2. PICK ok \in BOOLEAN : Carried(c, ok)
      BY <1>0, <1>4, CarryStep
    <2>3. ok
      BY <1>0, <2>2 DEF Carried, Quiet
    <2>4. \A k \in Keys : stored'[k] = IF Changes(c, k) THEN c.value ELSE stored[k]
      <3>1. stored' = IF c.op # "read" THEN [stored EXCEPT ![c.key] = c.value] ELSE stored
        BY <2>2, <2>3 DEF Carried
      <3>2. stored \in [Keys -> Nat]
        BY <1>0 DEF StoreTypes
      <3> HIDE DEF c
      <3> QED BY <3>1, <3>2 DEF Changes
    <2>5. /\ n \in Nat /\ Len(calls) = n + 1
          /\ \A i \in 1..n : calls'[i] = calls[i + 1] /\ i + 1 \in 1..Len(calls)
      BY <2>1 DEF Shifted
    <2>6. ASSUME NEW m \in 0..n, NEW k \in Keys, NEW v, ValueAt(calls', stored', k, m, v)
          PROVE  ValueAt(calls, stored, k, m + 1, v)
      <3>1. m \in Nat /\ \A i \in 1..m : calls'[i] = calls[i + 1]
        BY <2>5
      <3>2. stored'[k] = IF Changes(calls[1], k) THEN calls[1].value ELSE stored[k]
        BY <2>4
      <3> QED BY <2>6, <3>1, <3>2, ValueCarried
    <2> HIDE DEF n, c
    <2>7. \A k \in LoadKeys : k \in Keys
      BY <1>b DEF LoadKeys
    <2>8. ASSUME NEW k \in LoadKeys, NEW v \in Nat, ValueAt(calls', stored', k, Len(calls'), v)
          PROVE  v \in {0, created}
      <3>1. ValueAt(calls, stored, k, Len(calls), v)
        BY <2>5, <2>6, <2>7, <2>8 DEF n
      <3> QED BY <3>1 DEF FreshInv
    <2>9. ASSUME load.at # "idle", NEW i \in 1..Len(calls'), NEW v \in Nat,
                 calls'[i].waiter = LoadW, ValueAt(calls', stored', calls'[i].key, i - 1, v)
          PROVE  v \in {0, created}
      <3>1. /\ i + 1 \in 1..Len(calls) /\ calls'[i] = calls[i + 1] /\ i - 1 \in 0..n
            /\ (i - 1) + 1 = (i + 1) - 1
        BY <2>5 DEF n
      <3>2. calls[i + 1].waiter = LoadW /\ calls[i + 1].key \in Keys
        BY <1>0, <1>a, <1>b, <2>9, <3>1 DEF Waiting
      <3>3. ValueAt(calls, stored, calls[i + 1].key, (i + 1) - 1, v)
        BY <2>6, <2>9, <3>1, <3>2
      <3> QED BY <2>9, <3>1, <3>2, <3>3 DEF FreshInv
    <2> DEFINE a == [to |-> c.waiter, ok |-> ok, value |-> stored[c.key]]
    <2>10. a.to = c.waiter /\ a.value = stored[c.key]
      OBVIOUS
    <2>11. answers' = answers \/ Grown(answers, answers', a)
      BY <2>2 DEF Carried
    <2> HIDE DEF a
    <2>12. ASSUME load.at # "idle", NEW i \in 1..Len(answers'), answers'[i].to = LoadW
           PROVE  answers'[i].value \in {0, created}
      <3>1. \/ i \in 1..Len(answers) /\ answers'[i] = answers[i]
            \/ answers'[i] = a
        BY <1>0, <2>11, CallsAfter
      <3>2. CASE answers'[i] = a
        <4>1. 1 \in 1..Len(calls) /\ calls[1].waiter = LoadW /\ 1 - 1 = 0
          BY <2>5, <2>10, <2>12, <3>2 DEF c
        <4>2. c.key \in Keys /\ stored[c.key] \in Nat
          BY <1>0, <2>1, CallFacts DEF StoreTypes
        <4>3. ValueAt(calls, stored, c.key, 0, stored[c.key])
          BY DEF ValueAt, Unchanged
        <4> QED BY <2>10, <2>12, <3>2, <4>1, <4>2, <4>3 DEF FreshInv, c
      <3> QED BY <2>12, <3>1, <3>2 DEF FreshInv
    <2>13. LoadW' = LoadW
      BY <2>1 DEF LoadW
    <2> QED BY <2>1, <2>8, <2>9, <2>12, <2>13 DEF FreshInv
  <1>5. CASE Answer
    <2> DEFINE a == answers[1]
    <2>1. /\ Shifted(answers, answers') /\ a \in Answers /\ stored' = stored /\ created' = created
      BY <1>0, <1>5, AnswerStep
    <2>2. /\ 1 \in 1..Len(answers)
          /\ \A q \in 1..Len(answers') : /\ q + 1 \in 1..Len(answers) /\ q + 1 # 1
                                         /\ answers'[q] = answers[q + 1]
      BY <2>1 DEF Shifted
    <2>3. /\ \A j \in 1..Len(calls) : calls[j].waiter # a.to
          /\ \A q \in 1..Len(answers') : answers'[q].to # a.to
      BY <1>0, <2>2 DEF Once
    <2>4. \A q \in 1..Len(answers') : \E p \in 1..Len(answers) : answers'[q] = answers[p]
      BY <2>2
    <2> HIDE DEF a
    <2>5. a.value \in Nat /\ a.ok \in BOOLEAN
      BY <2>1 DEF Answers
    <2>6. CASE Ends(a)
      <3>1. /\ a.to = LoadW /\ load.at # "idle" /\ load'.at = "idle" /\ loaded'.from = load.from
            /\ loaded'.id = IF a.ok THEN a.value ELSE 0
        BY <1>a, <2>6 DEF Ends
      <3>2. a.value \in {0, created} /\ load.from = created
        BY <2>2, <3>1 DEF FreshInv, a
      <3>3. loaded'.id # 0 => loaded'.id >= loaded'.from
        BY <1>a, <3>1, <3>2
      <3>4. CASE calls' = calls
        BY <2>1, <3>1, <3>3, <3>4 DEF FreshInv
      <3> DEFINE c == Write(_mnemonicKey, a.value)
      <3>5. CASE a.value # 0 /\ Grown(calls, calls', c)
        <4>1. c \in Calls /\ c.value = created
          BY <1>b, <2>5, <3>2, <3>5, CallsMade DEF Write
        <4> HIDE DEF c
        <4>2. \A k \in LoadKeys, v \in Nat :
                  ValueAt(calls', stored', k, Len(calls'), v) => v \in {0, created'}
          BY <2>1, <3>5, <4>1, FreshGrown
        <4> QED BY <3>1, <3>3, <4>2 DEF FreshInv
      <3> QED BY <2>6, <3>4, <3>5 DEF Ends
    <2>7. CASE Asks(a)
      <3> DEFINE c == Read(_storageKey, LoadW)
      <3>1. /\ a.to = LoadW /\ load.at # "idle" /\ load'.run = load.run /\ load'.from = load.from
            /\ Grown(calls, calls', c) /\ loaded' = loaded
        BY <1>a, <2>7, NamesDiffer DEF Asks
      <3>2. c \in Calls /\ c.op = "read" /\ c.key = _storageKey
        BY <1>a, <1>b, CallsMade DEF Read, LoadW
      <3> HIDE DEF c
      <3>3. /\ \A k \in LoadKeys, v \in Nat :
                    ValueAt(calls', stored', k, Len(calls'), v) => v \in {0, created'}
            /\ \A m \in 0..Len(calls) : \A k, v : ValueAt(calls', stored', k, m, v)
                                                 <=> ValueAt(calls, stored, k, m, v)
        BY <2>1, <3>1, <3>2, FreshGrown
      <3>4. LoadW' = LoadW
        BY <3>1 DEF LoadW
      <3>5. ASSUME NEW i \in 1..Len(calls'), NEW v \in Nat, calls'[i].waiter = LoadW',
                   ValueAt(calls', stored', calls'[i].key, i - 1, v)
            PROVE  v \in {0, created'}
        <4>1. i = Len(calls) + 1 /\ calls'[i] = c
          BY <1>0, <2>3, <3>1, <3>4, <3>5, CallsAfter
        <4>2. i - 1 = Len(calls) /\ Len(calls) \in 0..Len(calls)
          BY <1>a, <4>1
        <4>3. ValueAt(calls, stored, _storageKey, Len(calls), v)
          BY <3>2, <3>3, <3>5, <4>1, <4>2
        <4> QED BY <1>b, <2>1, <4>3 DEF FreshInv
      <3>6. load'.from = created'
        BY <2>1, <3>1 DEF FreshInv
      <3> QED BY <2>1, <2>3, <3>1, <3>3, <3>4, <3>5, <3>6 DEF FreshInv
    <2>8. ASSUME NEW at \in Keys, GoesOn(a, at) PROVE FreshInv'
      <3> DEFINE c == Delete(at, ClearW)
      <3>1. Grown(calls, calls', c) /\ load' = load /\ loaded' = loaded
        BY <2>8 DEF GoesOn
      <3>2. c \in Calls /\ c.op = "delete"
        BY <1>a, CallsMade DEF Delete, ClearW
      <3> HIDE DEF c
      <3> QED BY <2>1, <2>4, <3>1, <3>2, FreshBehind
    <2>9. CASE Stops(a) \/ Unheard
      <3>1. calls' = calls /\ load' = load /\ loaded' = loaded /\ LoadW' = LoadW
        BY <2>9 DEF Stops, Unheard, LoadW
      <3>2. load.at # "idle" => \A i \in 1..Len(answers') :
                answers'[i].to = LoadW => answers'[i].value \in {0, created}
        BY <2>4 DEF FreshInv
      <3> QED BY <2>1, <3>1, <3>2 DEF FreshInv
    <2> QED BY <1>0, <1>5, <2>6, <2>7, <2>8, <2>9, AnswerStep DEF a
  <1>6. CASE LoadTimeout
    BY <1>a, <1>6 DEF LoadTimeout, LoadReturns, FreshInv
  <1>7. CASE ClearTimeout
    <2>1. /\ calls' = calls /\ load' = load /\ loaded' = loaded /\ answers' = answers
          /\ stored' = stored /\ created' = created /\ LoadW' = LoadW
      BY <1>7 DEF ClearTimeout, LoadW
    <2> QED BY <2>1 DEF FreshInv
  <1>8. CASE Crash
    <2>1. crashes' = 0 /\ crashes' = crashes + 1 /\ crashes = 0
      BY <1>0, <1>8 DEF Crash, Quiet
    <2> QED BY <2>1
  <1> QED BY <1>1, <1>2, <1>3, <1>4, <1>5, <1>6, <1>7, <1>8 DEF Next

-----------------------------------------------------------------------------
(* The flag.  Where this version has filled the storage and nothing was cleared or *)
(* refused, the write of the flag is behind one of the mnemonic.                    *)

Filled == since = "none" /\ ~ old /\ refusals = 0
Writes(call, k) == call.op = "write" /\ call.key = k
FlagInv ==
    /\ since = "none" =>
           clear.at = "idle" /\ \A i \in 1..Len(calls) : calls[i].op # "delete"
    /\ Filled => (stored[_initializedKey] # 0 => stored[_mnemonicKey] # 0)
    /\ Filled => \A i \in 1..Len(calls) : Writes(calls[i], _initializedKey) =>
           \/ stored[_mnemonicKey] # 0
           \/ \E j \in 1..Len(calls) : j < i /\ Writes(calls[j], _mnemonicKey)

LEMMA FlagFirst == Init => FlagInv
  <1> SUFFICES ASSUME Init PROVE FlagInv
    OBVIOUS
  <1>1. Len(calls) = 0 /\ clear.at = "idle" /\ (~ old => stored[_initializedKey] = 0)
    BY NamesDiffer DEF Init
  <1> QED BY <1>1 DEF FlagInv, Filled

\* A read, or a write of another entry, may come behind the others.
LEMMA FlagGrown ==
    ASSUME StoreBase, FlagInv, NEW c \in Calls, c.op # "delete", ~ Writes(c, _initializedKey),
           Grown(calls, calls', c), stored' = stored,
           UNCHANGED <<clear, since, old, refusals>>
    PROVE  FlagInv'
  <1>1. \A i \in 1..Len(calls') : \/ i \in 1..Len(calls) /\ calls'[i] = calls[i]
                                  \/ i = Len(calls) + 1 /\ calls'[i] = c
    BY CallsAfter DEF StoreBase
  <1>2. \A i \in 1..Len(calls) : i \in 1..Len(calls') /\ calls'[i] = calls[i]
    BY CallsAfter DEF StoreBase, Grown
  <1>3. Filled' <=> Filled
    BY DEF Filled
  <1>4. ASSUME Filled, NEW i \in 1..Len(calls'), Writes(calls'[i], _initializedKey),
               stored[_mnemonicKey] = 0
        PROVE  \E j \in 1..Len(calls') : j < i /\ Writes(calls'[j], _mnemonicKey)
    <2>1. i \in 1..Len(calls) /\ calls'[i] = calls[i]
      BY <1>1, <1>4
    <2>2. PICK j \in 1..Len(calls) : j < i /\ Writes(calls[j], _mnemonicKey)
      BY <1>4, <2>1 DEF FlagInv
    <2> QED BY <1>2, <2>2
  <1>5. since = "none" => \A i \in 1..Len(calls') : calls'[i].op # "delete"
    BY <1>1 DEF FlagInv
  <1> QED BY <1>3, <1>4, <1>5 DEF FlagInv

LEMMA FlagStep == StoreBase /\ FlagInv /\ Next => FlagInv'
  <1> SUFFICES ASSUME StoreBase, FlagInv, Next PROVE FlagInv'
    OBVIOUS
  <1>0. StoreTypes /\ answers \in Seq(Answers) /\ calls \in Seq(Calls) /\ Len(calls) \in Nat
    BY DEF StoreBase, StoreTypes
  <1>a. /\ load.run \in Nat /\ created \in Nat /\ refusals \in Nat
        /\ clear = [at |-> clear.at, run |-> clear.run]
    BY <1>0 DEF StoreTypes
  <1>b. _storageKey \in Keys /\ _mnemonicKey \in Keys /\ _initializedKey \in Keys
    BY NamesDiffer
  <1>1. CASE createIdentity
    <2> DEFINE n == Len(calls)
    <2>1. /\ clear' = clear /\ stored' = stored /\ old' = old /\ refusals' = refusals
          /\ since' = IF since = "none" THEN "none" ELSE "both"
          /\ calls' = calls \o _persist(created + 1)
      BY <1>1 DEF createIdentity
    <2>2. /\ Len(calls') = n + 3
          /\ \A i \in 1..n : calls'[i] = calls[i]
          /\ calls'[n + 1] = Write(_mnemonicKey, created + 1)
          /\ calls'[n + 2] = Write(_storageKey, created + 1)
          /\ calls'[n + 3] = Write(_initializedKey, 1)
      BY <1>0, <2>1, CreateWrites
    <2>3. n \in Nat /\ n + 1 \in 1..Len(calls') /\ n + 1 < n + 3
      BY <1>0, <2>2
    <2>4. (since' = "none" <=> since = "none") /\ (Filled' <=> Filled)
      BY <2>1 DEF Filled
    <2>5. \A i \in 1..Len(calls') : i \in 1..n \/ i = n + 1 \/ i = n + 2 \/ i = n + 3
      BY <2>2, <2>3
    <2>6. \A i \in 1..n : i \in 1..Len(calls')
      BY <2>2, <2>3
    <2> HIDE DEF n
    <2>7. /\ Writes(calls'[n + 1], _mnemonicKey)
          /\ ~ Writes(calls'[n + 1], _initializedKey) /\ ~ Writes(calls'[n + 2], _initializedKey)
          /\ \A k \in 1..3 : calls'[n + k].op # "delete"
      BY <2>2, NamesDiffer DEF Writes, Write
    <2>8. since = "none" => \A i \in 1..Len(calls') : calls'[i].op # "delete"
      BY <2>2, <2>5, <2>7 DEF FlagInv, n
    <2>9. ASSUME Filled, NEW i \in 1..Len(calls'), Writes(calls'[i], _initializedKey),
                 stored[_mnemonicKey] = 0
          PROVE  \E j \in 1..Len(calls') : j < i /\ Writes(calls'[j], _mnemonicKey)
      <3>1. CASE i \in 1..n
        <4>1. PICK j \in 1..n : j < i /\ Writes(calls[j], _mnemonicKey)
          BY <2>2, <2>9, <3>1 DEF FlagInv, n
        <4> QED BY <2>2, <2>6, <4>1
      <3>2. CASE i = n + 3
        BY <2>3, <2>7, <3>2
      <3> QED BY <2>5, <2>7, <2>9, <3>1, <3>2
    <2> QED BY <2>1, <2>4, <2>8, <2>9 DEF FlagInv
  <1>2. CASE loadIdentity
    <2> DEFINE c == Read(_mnemonicKey, <<"load", load.run + 1>>)
    <2>1. c \in Calls /\ c.op = "read"
      BY <1>a, <1>b, CallsMade DEF Read
    <2>2. /\ calls' = Append(calls, c) /\ stored' = stored
          /\ UNCHANGED <<clear, since, old, refusals>>
      BY <1>2 DEF loadIdentity, history
    <2> HIDE DEF c
    <2>3. Grown(calls, calls', c)
      BY <1>0, <2>1, <2>2, AppendGrows
    <2> QED BY <2>1, <2>2, <2>3, FlagGrown DEF Writes
  <1>3. CASE clearIdentity
    <2>1. since' = "clear"
      BY <1>3 DEF clearIdentity
    <2> QED BY <2>1 DEF FlagInv, Filled
  <1>4. CASE Carry
    <2> DEFINE c == calls[1]
               n == Len(calls')
    <2>1. /\ UNCHANGED <<clear, since, old>>
          /\ Shifted(calls, calls') /\ c \in Calls
      BY <1>0, <1>4, CarryStep DEF history
    <2>2. PICK ok \in BOOLEAN : Carried(c, ok)
      BY <1>0, <1>4, CarryStep
    <2>3. /\ n \in Nat /\ Len(calls) = n + 1 /\ 1 \in 1..Len(calls)
          /\ \A i \in 1..n : calls'[i] = calls[i + 1] /\ i + 1 \in 1..Len(calls)
      BY <2>1 DEF Shifted
    <2> HIDE DEF n
    <2>4. since = "none" => \A i \in 1..Len(calls') : calls'[i].op # "delete"
      BY <2>3 DEF FlagInv, n
    <2>5. ASSUME Filled'
          PROVE  /\ Filled /\ c.op # "delete"
                 /\ \A k \in Keys : Writes(c, k) => stored'[k] # 0
                 /\ \A k \in Keys : ~ Writes(c, k) => stored'[k] = stored[k]
      <3>1. ok /\ Filled
        BY <1>a, <2>1, <2>2, <2>5 DEF Filled, Carried
      <3>2. stored' = IF c.op # "read" THEN [stored EXCEPT ![c.key] = c.value] ELSE stored
        BY <2>2, <3>1 DEF Carried
      <3>3. stored \in [Keys -> Nat]
        BY <1>0 DEF StoreTypes
      <3>4. c.op # "delete"
        BY <2>3, <3>1 DEF FlagInv, Filled
      <3>5. /\ c.op \in {"read", "write"} /\ (c.op = "write" => c.value # 0)
        BY <2>1, <3>4, CallFacts
      <3> HIDE DEF c
      <3> QED BY <3>1, <3>2, <3>3, <3>5 DEF Writes
    <2>6. ASSUME Filled', stored'[_initializedKey] # 0 PROVE stored'[_mnemonicKey] # 0
      <3>1. CASE Writes(c, _initializedKey)
        <4>1. ~ Writes(c, _mnemonicKey) /\ stored[_mnemonicKey] # 0
          BY <2>3, <2>5, <2>6, <3>1, NamesDiffer DEF FlagInv, Writes
        <4> QED BY <1>b, <2>5, <2>6, <4>1
      <3>2. CASE ~ Writes(c, _initializedKey)
        BY <1>b, <2>5, <2>6, <3>2 DEF FlagInv
      <3> QED BY <3>1, <3>2
    <2>7. ASSUME Filled', NEW i \in 1..n, Writes(calls'[i], _initializedKey),
                 stored'[_mnemonicKey] = 0
          PROVE  \E j \in 1..n : j < i /\ Writes(calls'[j], _mnemonicKey)
      <3>1. stored[_mnemonicKey] = 0 /\ ~ Writes(c, _mnemonicKey)
        BY <1>b, <2>5, <2>7
      <3>2. PICK j \in 1..Len(calls) : j < i + 1 /\ Writes(calls[j], _mnemonicKey)
        BY <2>3, <2>5, <2>7, <3>1 DEF FlagInv
      <3>3. j # 1
        BY <3>1, <3>2
      <3>4. j - 1 \in 1..n /\ (j - 1) + 1 = j /\ j - 1 < i
        BY <2>3, <3>2, <3>3
      <3> QED BY <2>3, <3>2, <3>4
    <2> QED BY <2>1, <2>4, <2>6, <2>7 DEF FlagInv, n
  <1>5. CASE Answer
    <2> DEFINE a == answers[1]
    <2>1. /\ a \in Answers /\ stored' = stored /\ UNCHANGED <<since, old, refusals>>
          /\ Ends(a) \/ Asks(a) \/ Stops(a) \/ Unheard \/ \E at \in Keys : GoesOn(a, at)
      BY <1>0, <1>5, AnswerStep
    <2> HIDE DEF a
    <2>2. ASSUME NEW c \in Calls, c.op # "delete", ~ Writes(c, _initializedKey),
                 Grown(calls, calls', c), clear' = clear
          PROVE  FlagInv'
      BY <2>1, <2>2, FlagGrown
    <2>3. ASSUME calls' = calls, clear' = clear PROVE FlagInv'
      BY <2>1, <2>3 DEF FlagInv, Filled
    <2>4. CASE Ends(a)
      <3> DEFINE c == Write(_mnemonicKey, a.value)
      <3>1. CASE a.value # 0 /\ Grown(calls, calls', c)
        <4>1. c \in Calls /\ c.op # "delete" /\ ~ Writes(c, _initializedKey)
          BY <1>b, <2>1, <3>1, CallsMade, NamesDiffer DEF Write, Writes, Answers
        <4> HIDE DEF c
        <4> QED BY <2>2, <2>4, <3>1, <4>1 DEF Ends
      <3> QED BY <2>3, <2>4, <3>1 DEF Ends
    <2>5. CASE Asks(a)
      <3> DEFINE c == Read(_storageKey, LoadW)
      <3>1. c \in Calls /\ c.op # "delete" /\ ~ Writes(c, _initializedKey)
        BY <1>a, <1>b, CallsMade DEF Read, LoadW, Writes
      <3>2. Grown(calls, calls', c) /\ clear' = clear
        BY <2>5 DEF Asks
      <3> HIDE DEF c
      <3> QED BY <2>2, <3>1, <3>2
    <2>6. CASE Unheard
      BY <2>3, <2>6 DEF Unheard
    <2>7. CASE Stops(a) \/ \E at \in Keys : GoesOn(a, at)
      <3>1. clear.at # "idle"
        BY <2>7, NamesDiffer DEF Stops, GoesOn
      <3>2. since' # "none"
        BY <2>1, <3>1 DEF FlagInv
      <3> QED BY <3>2 DEF FlagInv, Filled
    <2> QED BY <2>1, <2>4, <2>5, <2>6, <2>7
  <1>6. CASE LoadTimeout \/ ClearTimeout
    <2>1. /\ calls' = calls /\ stored' = stored /\ UNCHANGED <<since, old, refusals>>
          /\ clear' = clear \/ clear'.at = "idle"
      BY <1>a, <1>6 DEF LoadTimeout, LoadReturns, ClearTimeout, history
    <2> QED BY <2>1 DEF FlagInv, Filled
  <1>7. CASE Crash
    <2>1. /\ Len(calls') = 0 /\ stored' = stored /\ UNCHANGED <<since, old, refusals>>
          /\ clear'.at = "idle"
      BY <1>a, <1>7 DEF Crash, history
    <2> QED BY <2>1 DEF FlagInv, Filled
  <1> QED BY <1>1, <1>2, <1>3, <1>4, <1>5, <1>6, <1>7 DEF Next

-----------------------------------------------------------------------------
\* The step of a service that is not the identity's changes nothing of the store.
LEMMA StoreSteps == [MCNext]_all_vars => [Next]_vars
  BY DEF MCNext, all_vars

\* No identity comes back on its own once clearIdentity has deleted all three entries:
\* neither a write still on its way nor the migration of an identity that was being
\* loaded restores one, whatever is refused, timed out or killed meanwhile
\* (identity_service.dart:39-62).
THEOREM ClearedStaysCleared == MCSpec => []ClearIsFinal
  <1>1. MCInit => StoreBase /\ ClearInv
    BY BaseFirst, ClearFirst DEF MCInit
  <1>2. ClearInv /\ UNCHANGED vars => ClearInv'
    BY DEF ClearInv, Gone, NoMigration, DeletesLast, Confirmed, Ordered, LoadW, ClearW,
           vars, history
  <1>3. StoreBase /\ ClearInv /\ [MCNext]_all_vars => (StoreBase /\ ClearInv)'
    BY <1>2, StoreSteps, BaseStep, ClearStep
  <1>4. StoreBase /\ ClearInv => ClearIsFinal
    BY DEF ClearInv, Gone, ClearIsFinal
  <1> QED BY <1>1, <1>3, <1>4, PTL DEF MCSpec

\* A restarted app that finds the flag of this version finds the mnemonic, and what
\* loadIdentity gives is the last identity created before it was called, or a later
\* one, as long as nothing was refused, killed or created meanwhile: the writes
\* nobody waits for overtake nothing (identity_service.dart:27-54, 64-68).
THEOREM RestartsKeepTheIdentity == MCSpec => []RestartKeepsTheIdentity
  <1> DEFINE IInv == StoreBase /\ FlagInv /\ (Quiet => FreshInv)
  <1>1. MCInit => IInv
    BY BaseFirst, FlagFirst, FreshFirst DEF MCInit
  <1>2. IInv /\ Next => IInv'
    BY BaseStep, FlagStep, QuietBefore, FreshStep
  <1>3. IInv /\ UNCHANGED vars => IInv'
    <2> SUFFICES ASSUME IInv, UNCHANGED vars PROVE IInv'
      OBVIOUS
    <2>1. StoreBase'
      BY BaseStep
    <2>2. FlagInv'
      BY DEF FlagInv, Filled, vars, history
    <2>3. (Quiet' <=> Quiet) /\ (FreshInv => FreshInv')
      BY DEF Quiet, FreshInv, LoadW, vars, history
    <2> QED BY <2>1, <2>2, <2>3
  <1>4. IInv /\ [MCNext]_all_vars => IInv'
    BY <1>2, <1>3, StoreSteps
  <1>5. IInv => RestartKeepsTheIdentity
    BY DEF FlagInv, Filled, Quiet, FreshInv, RestartKeepsTheIdentity, InitializedIsLoadable,
           LoadIsFresh
  <1> QED BY <1>1, <1>4, <1>5, PTL DEF MCSpec

-----------------------------------------------------------------------------
(* The circuits.  First what removeWhere leaves of a list, by induction over its   *)
(* length.                                                                          *)

LEMMA SetInduction ==
    ASSUME NEW P \in SUBSET Nat, 0 \in P, \A n \in P : n + 1 \in P
    PROVE  P = Nat
  <1> DEFINE R == OpToRel(<, Nat)
             rest == Nat \ P
  <1> SUFFICES ASSUME rest # {} PROVE FALSE
    OBVIOUS
  <1>1. IsWellFoundedOn(R, Nat)
    BY NatLessThanWellFounded
  <1>2. \A x, y \in Nat : y < x => <<y, x>> \in R
    BY DEF OpToRel
  <1> HIDE DEF R
  <1>3. PICK n \in rest : \A m \in rest : ~ (<<m, n>> \in R)
    BY <1>1, WFMin
  <1>4. n - 1 \in Nat /\ n - 1 < n
    BY <1>3
  <1>5. n - 1 \in P
    BY <1>2, <1>3, <1>4
  <1> QED BY <1>3, <1>4, <1>5

\* u has, for every i up to n, what is left of the first i members of s.
Leaves(s, K, n, u) ==
    u = [i \in 0..n |-> IF i = 0 THEN <<>>
                        ELSE IF s[i] \in K THEN Append(u[i - 1], s[i]) ELSE u[i - 1]]
Left(s, K, n) == CHOOSE u : Leaves(s, K, n, u)

LEMMA KeptIsLeft ==
    ASSUME NEW s, NEW K PROVE Onion!Kept(s, K) = Left(s, K, Len(s))[Len(s)]
  BY DEF Onion!Kept, Left, Leaves

LEMMA LeftExists == ASSUME NEW s, NEW K, NEW n \in Nat PROVE Leaves(s, K, n, Left(s, K, n))
  <1> DEFINE P == {k \in Nat : \E u : Leaves(s, K, k, u)}
  <1>1. 0 \in P
    <2> DEFINE u == [i \in 0..0 |-> <<>>]
    <2>1. Leaves(s, K, 0, u)
      BY DEF Leaves
    <2> QED BY <2>1
  <1>2. ASSUME NEW k \in P PROVE k + 1 \in P
    <2>1. PICK u : Leaves(s, K, k, u)
      OBVIOUS
    <2> DEFINE top == IF s[k + 1] \in K THEN Append(u[k], s[k + 1]) ELSE u[k]
               v == [i \in 0..k + 1 |-> IF i = k + 1 THEN top ELSE u[i]]
    <2>2. ASSUME NEW i \in 0..k + 1
          PROVE  v[i] = IF i = 0 THEN <<>>
                        ELSE IF s[i] \in K THEN Append(v[i - 1], s[i]) ELSE v[i - 1]
      <3>1. CASE i = k + 1
        <4>1. i # 0 /\ i - 1 = k /\ k \in 0..k + 1 /\ k # k + 1
          BY <3>1
        <4>2. v[i] = top /\ v[k] = u[k]
          BY <3>1, <4>1
        <4> QED BY <3>1, <4>1, <4>2
      <3>2. CASE i # k + 1
        <4>1. i \in 0..k /\ (i # 0 => i - 1 \in 0..k)
          BY <3>2
        <4>2. u[i] = IF i = 0 THEN <<>>
                     ELSE IF s[i] \in K THEN Append(u[i - 1], s[i]) ELSE u[i - 1]
          BY <2>1, <4>1 DEF Leaves
        <4>3. v[i] = u[i] /\ (i # 0 => v[i - 1] = u[i - 1])
          BY <3>2, <4>1
        <4> HIDE DEF v
        <4> QED BY <4>2, <4>3
      <3> QED BY <3>1, <3>2
    <2>3. v = [i \in 0..k + 1 |-> v[i]]
      OBVIOUS
    <2> HIDE DEF v
    <2>4. Leaves(s, K, k + 1, v)
      BY <2>2, <2>3 DEF Leaves
    <2> QED BY <2>4
  <1> HIDE DEF P
  <1>3. P = Nat
    BY <1>1, <1>2, SetInduction DEF P
  <1>4. \E u : Leaves(s, K, n, u)
    BY <1>3 DEF P
  <1> QED BY <1>4 DEF Left

\* t has the members of K among the first n of s, and no place of t more than once
\* what s has only once.
Picks(s, K, n, t) ==
    /\ \A p \in 1..Len(t) : t[p] \in K /\ \E q \in 1..n : t[p] = s[q]
    /\ \A q \in 1..n : s[q] \in K => \E p \in 1..Len(t) : t[p] = s[q]
    /\ (\A a, b \in 1..n : s[a] = s[b] => a = b) =>
           \A a, b \in 1..Len(t) : t[a] = t[b] => a = b

LEMMA PicksOneMore ==
    ASSUME NEW S, NEW s \in Seq(S), NEW K, NEW n \in Nat, n + 1 <= Len(s),
           NEW t \in Seq(S), Picks(s, K, n, t)
    PROVE  LET u == IF s[n + 1] \in K THEN Append(t, s[n + 1]) ELSE t IN
           u \in Seq(S) /\ Picks(s, K, n + 1, u)
  <1> DEFINE x == s[n + 1]
  <1>1. /\ x \in S /\ n + 1 \in 1..n + 1 /\ Len(t) \in Nat
        /\ \A q \in 1..n : q \in 1..n + 1
        /\ \A q \in 1..n + 1 : q \in 1..n \/ q = n + 1
    OBVIOUS
  <1>2. CASE x \notin K
    BY <1>1, <1>2 DEF Picks
  <1>3. CASE x \in K
    <2> DEFINE u == Append(t, x)
    <2>1. u \in Seq(S) /\ Grown(t, u, x)
      <3> HIDE DEF x
      <3> QED BY <1>1, AppendGrows
    <2> HIDE DEF x, u
    <2>2. /\ \A p \in 1..Len(u) : \/ p \in 1..Len(t) /\ u[p] = t[p]
                                  \/ p = Len(t) + 1 /\ u[p] = x
          /\ \A p \in 1..Len(t) : p \in 1..Len(u) /\ u[p] = t[p]
          /\ Len(t) + 1 \in 1..Len(u) /\ u[Len(t) + 1] = x
      BY <1>1, <2>1 DEF Grown
    <2>3. \A p \in 1..Len(u) : u[p] \in K /\ \E q \in 1..n + 1 : u[p] = s[q]
      BY <1>1, <1>3, <2>2 DEF Picks, x
    <2>4. \A q \in 1..n + 1 : s[q] \in K => \E p \in 1..Len(u) : u[p] = s[q]
      BY <1>1, <2>2 DEF Picks, x
    <2>5. ASSUME \A a, b \in 1..n + 1 : s[a] = s[b] => a = b,
                 NEW a \in 1..Len(u), NEW b \in 1..Len(u), u[a] = u[b]
          PROVE  a = b
      <3>1. \A p \in 1..Len(t) : t[p] # x
        <4> SUFFICES ASSUME NEW p \in 1..Len(t), t[p] = x PROVE FALSE
          OBVIOUS
        <4>1. PICK q \in 1..n : t[p] = s[q]
          BY DEF Picks
        <4>2. q = n + 1
          BY <1>1, <2>5, <4>1 DEF x
        <4> QED BY <4>1, <4>2
      <3>2. \A c, d \in 1..Len(t) : t[c] = t[d] => c = d
        BY <1>1, <2>5 DEF Picks
      <3> QED BY <2>2, <2>5, <3>1, <3>2
    <2>6. Picks(s, K, n + 1, u)
      BY <2>3, <2>4, <2>5 DEF Picks
    <2> QED BY <1>3, <2>1, <2>6 DEF u, x
  <1> QED BY <1>2, <1>3

LEMMA KeptPicks ==
    ASSUME NEW S, NEW s \in Seq(S), NEW K
    PROVE  Onion!Kept(s, K) \in Seq(S) /\ Picks(s, K, Len(s), Onion!Kept(s, K))
  <1> DEFINE n == Len(s)
             u == Left(s, K, n)
             P == {k \in Nat : k <= n => u[k] \in Seq(S) /\ Picks(s, K, k, u[k])}
  <1>1. n \in Nat /\ Leaves(s, K, n, u)
    BY LeftExists
  <1> HIDE DEF u
  <1>2. 0 \in P
    <2>1. u[0] = <<>>
      BY <1>1 DEF Leaves
    <2>2. Picks(s, K, 0, <<>>)
      BY DEF Picks
    <2>3. u[0] \in Seq(S) /\ Picks(s, K, 0, u[0])
      BY <2>1, <2>2
    <2> QED BY <2>3
  <1>3. ASSUME NEW k \in P PROVE k + 1 \in P
    <2> SUFFICES ASSUME k + 1 <= n
                 PROVE  u[k + 1] \in Seq(S) /\ Picks(s, K, k + 1, u[k + 1])
      OBVIOUS
    <2>1. k \in Nat /\ k <= n /\ k + 1 \in 0..n /\ k + 1 # 0 /\ (k + 1) - 1 = k
      BY <1>1
    <2>2. u[k] \in Seq(S) /\ Picks(s, K, k, u[k])
      BY <2>1
    <2>3. u[k + 1] = IF s[k + 1] \in K THEN Append(u[k], s[k + 1]) ELSE u[k]
      BY <1>1, <2>1 DEF Leaves
    <2> QED BY <2>1, <2>2, <2>3, PicksOneMore
  <1>4. P = Nat
    <2>1. P \in SUBSET Nat
      OBVIOUS
    <2> HIDE DEF P
    <2> QED BY <1>2, <1>3, <2>1, SetInduction
  <1>5. u[n] \in Seq(S) /\ Picks(s, K, n, u[n])
    <2>1. n \in P
      BY <1>1, <1>4
    <2> QED BY <1>1, <2>1
  <1> QED BY <1>5, KeptIsLeft DEF u

\* The circuit objects h: every id was given by a build, and the hops of a circuit are
\* nodes of different regions.  A list of them has no id twice.
Objects == [circuitId : Nat, hops : SUBSET Nat, expiresAt : Nat, isAlive : BOOLEAN]
Apart(hops) ==
    hops \subseteq DOMAIN _nodes /\ \A a, b \in hops : a # b => _nodes[a] # _nodes[b]
Made(h) ==
    /\ h \in Seq(Objects)
    /\ \A c \in 1..Len(h) : h[c].circuitId \in 1..Len(h) /\ Apart(h[c].hops)
Listing(h, l) ==
    /\ l \in Seq(1..Len(h))
    /\ \A i, j \in 1..Len(l) : h[l[i]].circuitId = h[l[j]].circuitId => i = j
Held(h, l, c) ==
    c # 0 /\ (c # 0 => h[c].isAlive) => \E i \in 1..Len(l) : l[i] = c

CircuitsInv ==
    /\ _nodes \in Seq(Regions) /\ now \in Nat
    /\ Made(heap) /\ Listing(heap, _circuits) /\ _activeCircuit \in 0..Len(heap)
    /\ ~ refreshed => Held(heap, _circuits, _activeCircuit)

\* g is h with some objects marked dead.
Marked(h, g) ==
    /\ g \in Seq(Objects) /\ Len(g) = Len(h)
    /\ \A c \in 1..Len(h) : /\ g[c].circuitId = h[c].circuitId /\ g[c].hops = h[c].hops
                            /\ g[c].isAlive => h[c].isAlive

LEMMA MarkedKeeps ==
    ASSUME NEW h, NEW g, NEW l, Made(h), Listing(h, l), Marked(h, g)
    PROVE  /\ Made(g) /\ Listing(g, l)
           /\ \A c \in 0..Len(h) : Held(h, l, c) => Held(g, l, c)
  <1>1. Len(h) \in Nat
    BY DEF Made
  <1>2. \A i \in 1..Len(l) : l[i] \in 1..Len(h)
    BY DEF Listing
  <1>3. Made(g)
    BY DEF Made, Marked
  <1>4. Listing(g, l)
    BY <1>2 DEF Listing, Marked
  <1>5. \A c \in 0..Len(h) : Held(h, l, c) => Held(g, l, c)
    BY <1>1 DEF Held, Marked
  <1> QED BY <1>3, <1>4, <1>5

LEMMA DeadIsMarked ==
    ASSUME NEW h, Made(h), NEW D
    PROVE  LET g == [c \in DOMAIN h |-> IF c \in D THEN [h[c] EXCEPT !.isAlive = FALSE]
                                        ELSE h[c]]
           IN  Marked(h, g) /\ \A c \in 1..Len(h) : c \in D => ~ g[c].isAlive
  <1> DEFINE g == [c \in DOMAIN h |-> IF c \in D THEN [h[c] EXCEPT !.isAlive = FALSE]
                                      ELSE h[c]]
  <1>1. h \in Seq(Objects) /\ DOMAIN h = 1..Len(h) /\ Len(h) \in Nat
    BY DEF Made
  <1>2. \A c \in 1..Len(h) :
            /\ g[c] \in Objects /\ g[c].circuitId = h[c].circuitId /\ g[c].hops = h[c].hops
            /\ g[c].isAlive => h[c].isAlive
            /\ c \in D => ~ g[c].isAlive
    <2> TAKE c \in 1..Len(h)
    <2>1. h[c] \in Objects
      BY <1>1
    <2>2. g[c] = IF c \in D THEN [h[c] EXCEPT !.isAlive = FALSE] ELSE h[c]
      BY <1>1
    <2> HIDE DEF g
    <2> QED BY <2>1, <2>2 DEF Objects
  <1>3. DOMAIN g = 1..Len(h) /\ g = [c \in 1..Len(h) |-> g[c]]
    BY <1>1
  <1> HIDE DEF g
  <1>4. g \in Seq(Objects) /\ Len(g) = Len(h)
    BY <1>1, <1>2, <1>3
  <1> QED BY <1>2, <1>4 DEF Marked, g

LEMMA ExpiredMarks ==
    ASSUME NEW h, NEW l, Made(h) PROVE Marked(h, Onion!Expired(h, l))
  <1> DEFINE D == {c \in DOMAIN h : c \in {l[i] : i \in DOMAIN l} /\ now > h[c].expiresAt}
             g == [c \in DOMAIN h |-> IF c \in D THEN [h[c] EXCEPT !.isAlive = FALSE] ELSE h[c]]
  <1>1. Onion!Expired(h, l) = g
    BY DEF Onion!Expired
  <1>2. Marked(h, g)
    <2> HIDE DEF D
    <2> QED BY DeadIsMarked
  <1> QED BY <1>1, <1>2

\* What destroyCircuit takes off the list is dead.
LEMMA DestroyedMarks ==
    ASSUME NEW h, NEW l, NEW id, Made(h), Listing(h, l)
    PROVE  /\ Marked(h, Onion!Destroyed(h, l, id))
           /\ \A i \in 1..Len(l) : h[l[i]].circuitId = id =>
                  ~ Onion!Destroyed(h, l, id)[l[i]].isAlive
  <1> DEFINE D == {c \in DOMAIN h : h[c].circuitId = id /\ c \in {l[i] : i \in DOMAIN l}}
             g == [c \in DOMAIN h |-> IF c \in D THEN [h[c] EXCEPT !.isAlive = FALSE] ELSE h[c]]
  <1>1. Onion!Destroyed(h, l, id) = g
    BY DEF Onion!Destroyed
  <1>2. \A i \in 1..Len(l) : l[i] \in 1..Len(h) /\ (h[l[i]].circuitId = id => l[i] \in D)
    <2>1. DOMAIN h = 1..Len(h) /\ DOMAIN l = 1..Len(l) /\ \A i \in 1..Len(l) : l[i] \in 1..Len(h)
      BY DEF Made, Listing
    <2> QED BY <2>1
  <1>3. Marked(h, g) /\ \A c \in 1..Len(h) : c \in D => ~ g[c].isAlive
    <2> HIDE DEF D
    <2> QED BY DeadIsMarked
  <1> HIDE DEF D, g
  <1> QED BY <1>1, <1>2, <1>3

\* A list from which removeWhere has taken some objects.
LEMMA KeptKeeps ==
    ASSUME NEW h, NEW l, NEW K, Listing(h, l)
    PROVE  LET k == Onion!Kept(l, K) IN
           /\ Listing(h, k)
           /\ \A i \in 1..Len(k) : k[i] \in K /\ \E j \in 1..Len(l) : k[i] = l[j]
           /\ \A c : (c # 0 /\ (c # 0 => h[c].isAlive) => c \in K) /\ Held(h, l, c) => Held(h, k, c)
  <1> DEFINE k == Onion!Kept(l, K)
  <1>1. l \in Seq(1..Len(h))
    BY DEF Listing
  <1>2. k \in Seq(1..Len(h)) /\ Picks(l, K, Len(l), k)
    BY <1>1, KeptPicks
  <1> HIDE DEF k
  <1>3. \A i \in 1..Len(k) : k[i] \in K /\ \E j \in 1..Len(l) : k[i] = l[j]
    BY <1>2 DEF Picks
  <1>4. ASSUME NEW i \in 1..Len(k), NEW j \in 1..Len(k),
               h[k[i]].circuitId = h[k[j]].circuitId
        PROVE  i = j
    <2>1. \A a, b \in 1..Len(l) : l[a] = l[b] => a = b
      BY DEF Listing
    <2>2. PICK a \in 1..Len(l), b \in 1..Len(l) : k[i] = l[a] /\ k[j] = l[b]
      BY <1>3
    <2>3. k[i] = k[j]
      BY <1>4, <2>2 DEF Listing
    <2> QED BY <1>2, <2>1, <2>3 DEF Picks
  <1>5. ASSUME NEW c, c # 0 /\ (c # 0 => h[c].isAlive) => c \in K, Held(h, l, c)
        PROVE  Held(h, k, c)
    <2> SUFFICES ASSUME c # 0 /\ (c # 0 => h[c].isAlive) PROVE \E i \in 1..Len(k) : k[i] = c
      BY DEF Held
    <2>1. PICK q \in 1..Len(l) : l[q] = c
      BY <1>5 DEF Held
    <2> QED BY <1>2, <1>5, <2>1 DEF Picks
  <1>6. Listing(h, k)
    BY <1>2, <1>4 DEF Listing
  <1> QED BY <1>3, <1>5, <1>6 DEF k

\* A new object, of an id the list does not have, at the end of both.
LEMMA MadeAndListed ==
    ASSUME NEW h, NEW l, Made(h), Listing(h, l),
           NEW o \in Objects, Apart(o.hops), o.circuitId \in 1..Len(h) + 1,
           \A i \in 1..Len(l) : h[l[i]].circuitId # o.circuitId
    PROVE  LET g == Append(h, o)
               m == Append(l, Len(h) + 1) IN
           /\ Made(g) /\ Listing(g, m) /\ Len(g) = Len(h) + 1 /\ Len(h) \in Nat
           /\ g[Len(h) + 1] = o /\ \A c \in 1..Len(h) : g[c] = h[c]
           /\ \A i \in 1..Len(m) : m[i] = Len(h) + 1 \/ \E j \in 1..Len(l) : m[i] = l[j]
           /\ Held(g, m, Len(h) + 1)
           /\ \A c \in 0..Len(h) : Held(h, l, c) => Held(g, m, c)
  <1> DEFINE g == Append(h, o)
             m == Append(l, Len(h) + 1)
             n == Len(h)
  <1>1. n \in Nat /\ h \in Seq(Objects) /\ l \in Seq(1..n)
    BY DEF Made, Listing
  <1>2. g \in Seq(Objects) /\ Grown(h, g, o)
    BY <1>1, AppendGrows
  <1>3. m \in Seq(1..n + 1) /\ Len(l) \in Nat /\ Grown(l, m, n + 1)
    <2>1. l \in Seq(1..n + 1) /\ n + 1 \in 1..n + 1
      <3>1. 1..n \subseteq 1..n + 1 /\ n + 1 \in 1..n + 1
        BY <1>1
      <3> HIDE DEF n
      <3> QED BY <1>1, <3>1
    <2> HIDE DEF n
    <2> QED BY <2>1, AppendGrows DEF n
  <1> HIDE DEF g, m, n
  <1>4. /\ Len(g) = n + 1 /\ g[n + 1] = o /\ \A c \in 1..n : g[c] = h[c]
        /\ \A i \in 1..Len(l) : l[i] \in 1..n /\ m[i] = l[i] /\ i \in 1..Len(m)
        /\ Len(l) + 1 \in 1..Len(m) /\ m[Len(l) + 1] = n + 1
        /\ \A i \in 1..Len(m) : i \in 1..Len(l) \/ i = Len(l) + 1
    <2>1. Len(g) = n + 1 /\ g[n + 1] = o /\ \A c \in 1..n : g[c] = h[c]
      BY <1>2 DEF Grown, n
    <2>2. /\ Len(l) \in Nat /\ Len(m) = Len(l) + 1 /\ m[Len(l) + 1] = n + 1
          /\ \A i \in 1..Len(l) : m[i] = l[i]
      BY <1>3 DEF Grown
    <2>3. \A i \in 1..Len(l) : l[i] \in 1..n
      BY <1>1
    <2>4. /\ \A i \in 1..Len(l) : i \in 1..Len(m)
          /\ Len(l) + 1 \in 1..Len(m)
          /\ \A i \in 1..Len(m) : i \in 1..Len(l) \/ i = Len(l) + 1
      BY <2>2
    <2> QED BY <2>1, <2>2, <2>3, <2>4
  <1>5. Made(g)
    <2>1. ASSUME NEW c \in 1..n + 1 PROVE g[c].circuitId \in 1..n + 1 /\ Apart(g[c].hops)
      <3>1. CASE c = n + 1
        BY <1>4, <3>1 DEF n
      <3>2. CASE c \in 1..n
        <4>1. h[c].circuitId \in 1..n /\ Apart(h[c].hops) /\ g[c] = h[c]
          BY <1>4, <3>2 DEF Made, n
        <4> QED BY <1>1, <4>1
      <3> QED BY <1>1, <3>1, <3>2
    <2> QED BY <1>2, <1>4, <2>1 DEF Made
  <1>6. Listing(g, m)
    <2>1. ASSUME NEW i \in 1..Len(m), NEW j \in 1..Len(m),
                 g[m[i]].circuitId = g[m[j]].circuitId
          PROVE  i = j
      <3>1. \A a \in 1..Len(l) : g[m[a]] = h[l[a]] /\ h[l[a]].circuitId # o.circuitId
        BY <1>4
      <3>2. g[m[Len(l) + 1]].circuitId = o.circuitId
        BY <1>4
      <3>3. \A a, b \in 1..Len(l) : h[l[a]].circuitId = h[l[b]].circuitId => a = b
        BY DEF Listing
      <3>4. CASE i = Len(l) + 1
        <4>1. j \notin 1..Len(l)
          BY <2>1, <3>1, <3>2, <3>4
        <4> QED BY <1>4, <3>4, <4>1
      <3>5. CASE i \in 1..Len(l) /\ j \in 1..Len(l)
        <4>1. h[l[i]].circuitId = h[l[j]].circuitId
          BY <2>1, <3>1, <3>5
        <4> QED BY <3>3, <3>5, <4>1
      <3>6. CASE i \in 1..Len(l) /\ j = Len(l) + 1
        BY <2>1, <3>1, <3>2, <3>6
      <3> QED BY <1>4, <3>4, <3>5, <3>6
    <2> QED BY <1>3, <1>4, <2>1 DEF Listing
  <1>7. \A i \in 1..Len(m) : m[i] = n + 1 \/ \E j \in 1..Len(l) : m[i] = l[j]
    BY <1>4
  <1>8. Held(g, m, n + 1)
    BY <1>4 DEF Held
  <1>9. ASSUME NEW c \in 0..n, Held(h, l, c) PROVE Held(g, m, c)
    <2>1. c # 0 => c \in 1..n
      BY <1>1
    <2> QED BY <1>4, <1>9, <2>1 DEF Held
  <1> QED BY <1>1, <1>4, <1>5, <1>6, <1>7, <1>8, <1>9 DEF g, m, n

LEMMA CircuitTyped ==
    ASSUME NEW id \in Nat, NEW hops \in SUBSET Nat, now \in Nat, Lifetime \in Nat
    PROVE  LET o == Onion!Circuit(id, hops) IN
           o \in Objects /\ o.circuitId = id /\ o.hops = hops
  BY DEF Onion!Circuit, Objects

\* A build: nothing, or a new object with an id of its own.
Built(h, l, b) ==
    /\ Made(b.heap) /\ Listing(b.heap, b.listed) /\ b.circuit \in 0..Len(b.heap)
    /\ \A c \in 0..Len(h) : Held(h, l, c) => Held(b.heap, b.listed, c)
    /\ Held(b.heap, b.listed, b.circuit)
    /\ Len(h) \in Nat /\ Len(h) <= Len(b.heap)
    /\ \A c \in 1..Len(h) : b.heap[c] = h[c]
    /\ b.circuit # 0 => /\ b.circuit = Len(h) + 1 /\ Len(b.heap) = Len(h) + 1
                        /\ b.heap[Len(h) + 1].circuitId = Len(h) + 1
                        /\ \A i \in 1..Len(b.listed) :
                              \/ b.listed[i] = Len(h) + 1
                              \/ \E j \in 1..Len(l) : b.listed[i] = l[j]

LEMMA BuildKeeps ==
    ASSUME NEW h, NEW l, Made(h), Listing(h, l), now \in Nat, Lifetime \in Nat,
           _nodes \in Seq(Regions), NEW b \in Onion!Builds(h, l)
    PROVE  Built(h, l, b)
  <1>1. Len(h) \in Nat /\ \A i \in 1..Len(l) : l[i] \in 1..Len(h)
    BY DEF Made, Listing
  <1>2. CASE b.circuit = 0 /\ b.heap = h /\ b.listed = l
    BY <1>1, <1>2 DEF Held, Built
  <1>3. CASE \E s \in Onion!Selections :
                b = [heap |-> Append(h, Onion!Circuit(Len(h) + 1, s)),
                     listed |-> Append(l, Len(h) + 1), circuit |-> Len(h) + 1]
    <2>1. PICK s \in Onion!Selections :
                b = [heap |-> Append(h, Onion!Circuit(Len(h) + 1, s)),
                     listed |-> Append(l, Len(h) + 1), circuit |-> Len(h) + 1]
      BY <1>3
    <2> DEFINE o == Onion!Circuit(Len(h) + 1, s)
    <2>2. DOMAIN _nodes \subseteq Nat
      BY DEF Made
    <2>3. s \subseteq DOMAIN _nodes /\ \A x, y \in s : _nodes[x] = _nodes[y] => x = y
      BY DEF Onion!Selections
    <2>4. o \in Objects /\ o.circuitId = Len(h) + 1 /\ Apart(o.hops)
      BY <1>1, <2>2, <2>3 DEF Onion!Circuit, Objects, Apart
    <2>5. b.heap = Append(h, o) /\ b.listed = Append(l, Len(h) + 1) /\ b.circuit = Len(h) + 1
      BY <2>1
    <2> HIDE DEF o
    <2>6. \A i \in 1..Len(l) : h[l[i]].circuitId # o.circuitId
      <3>1. \A i \in 1..Len(l) : h[l[i]].circuitId \in 1..Len(h)
        BY <1>1 DEF Made
      <3> QED BY <1>1, <2>4, <3>1
    <2>7. o.circuitId \in 1..Len(h) + 1
      BY <1>1, <2>4
    <2>8. /\ Made(b.heap) /\ Listing(b.heap, b.listed) /\ Len(b.heap) = Len(h) + 1
          /\ b.heap[Len(h) + 1] = o /\ \A c \in 1..Len(h) : b.heap[c] = h[c]
          /\ \A i \in 1..Len(b.listed) :
                b.listed[i] = Len(h) + 1 \/ \E j \in 1..Len(l) : b.listed[i] = l[j]
          /\ Held(b.heap, b.listed, Len(h) + 1)
          /\ \A c \in 0..Len(h) : Held(h, l, c) => Held(b.heap, b.listed, c)
      BY <2>4, <2>5, <2>6, <2>7, MadeAndListed
    <2>9. b.circuit \in 0..Len(b.heap) /\ Len(h) <= Len(b.heap)
      BY <1>1, <2>5, <2>8
    <2>10. b.heap[Len(h) + 1].circuitId = Len(h) + 1
      BY <2>4, <2>8
    <2> QED BY <1>1, <2>5, <2>8, <2>9, <2>10 DEF Built
  <1> QED BY <1>2, <1>3 DEF Onion!Builds, Onion!NullObject

\* destroyCircuit on the objects h: an alive object the chat holds is still listed.
LEMMA OthersKeep ==
    ASSUME NEW h, NEW l, Made(h), Listing(h, l), NEW id
    PROVE  LET g == Onion!Destroyed(h, l, id)
               k == Onion!Others(h, l, id) IN
           /\ Made(g) /\ Listing(g, k) /\ Len(g) = Len(h)
           /\ \A c \in 0..Len(h) : Held(h, l, c) => Held(g, k, c)
  <1> DEFINE g == Onion!Destroyed(h, l, id)
             K == {c \in DOMAIN h : h[c].circuitId # id}
             k == Onion!Others(h, l, id)
  <1>1. Marked(h, g) /\ \A i \in 1..Len(l) : h[l[i]].circuitId = id => ~ g[l[i]].isAlive
    BY DestroyedMarks
  <1> HIDE DEF g
  <1>2. /\ Made(g) /\ Listing(g, l) /\ Len(g) = Len(h)
        /\ \A c \in 0..Len(h) : Held(h, l, c) => Held(g, l, c)
    BY <1>1, MarkedKeeps DEF Marked
  <1>3. k = Onion!Kept(l, K)
    BY DEF Onion!Others
  <1>4. ASSUME NEW c \in 0..Len(h), Held(h, l, c) PROVE Held(g, k, c)
    <2>1. Held(g, l, c)
      BY <1>2, <1>4
    <2>2. c # 0 /\ (c # 0 => g[c].isAlive) => c \in K
      <3> SUFFICES ASSUME c # 0, g[c].isAlive PROVE c \in K
        OBVIOUS
      <3>1. PICK i \in 1..Len(l) : l[i] = c
        BY <2>1 DEF Held
      <3>2. c \in DOMAIN h
        BY DEF Made
      <3> QED BY <1>1, <3>1, <3>2
    <2> HIDE DEF K, k
    <2> QED BY <1>2, <1>3, <2>1, <2>2, KeptKeeps
  <1>5. Listing(g, k)
    <2> HIDE DEF K, k
    <2> QED BY <1>2, <1>3, KeptKeeps
  <1> QED BY <1>2, <1>4, <1>5 DEF g

LEMMA CircuitsFirst == Onion!Init => CircuitsInv
  <1> SUFFICES ASSUME Onion!Init PROVE CircuitsInv
    OBVIOUS
  <1>1. /\ _nodes = <<>> /\ heap = <<>> /\ _circuits = <<>> /\ _activeCircuit = 0
        /\ now = 0
    BY DEF Onion!Init, Onion!NullObject
  <1>2. _nodes \in Seq(Regions) /\ Made(heap)
    BY <1>1 DEF Made
  <1>3. Listing(heap, _circuits)
    BY <1>1 DEF Listing
  <1> QED BY <1>1, <1>2, <1>3 DEF CircuitsInv, Held

\* A step that changes neither the nodes nor the time, and leaves these objects.
LEMMA CircuitsAre ==
    ASSUME CircuitsInv, UNCHANGED <<_nodes, now>>, Made(heap'), Listing(heap', _circuits'),
           _activeCircuit' \in 0..Len(heap'),
           ~ refreshed' => Held(heap', _circuits', _activeCircuit')
    PROVE  CircuitsInv'
  <1>1. _nodes' \in Seq(Regions) /\ now' \in Nat
    BY DEF CircuitsInv
  <1>2. \A hops : Apart(hops) => Apart(hops)'
    BY DEF Apart
  <1>3. Made(heap)'
    BY <1>2 DEF Made
  <1>4. Listing(heap, _circuits)'
    BY DEF Listing
  <1>5. (~ refreshed => Held(heap, _circuits, _activeCircuit))'
    BY DEF Held
  <1> QED BY <1>1, <1>3, <1>4, <1>5 DEF CircuitsInv

LEMMA CircuitsStep == CircuitsInv /\ [Onion!Next]_onion_vars => CircuitsInv'
  <1> SUFFICES ASSUME CircuitsInv, [Onion!Next]_onion_vars PROVE CircuitsInv'
    OBVIOUS
  <1>0. Lifetime \in Nat
    BY CircuitsAssumption DEF Onion!OnionCircuitsAssumption
  <1>a. /\ _nodes \in Seq(Regions) /\ now \in Nat /\ Made(heap) /\ Listing(heap, _circuits)
        /\ _activeCircuit \in 0..Len(heap) /\ Len(heap) \in Nat
        /\ ~ refreshed => Held(heap, _circuits, _activeCircuit)
    BY DEF CircuitsInv, Made
  <1> DEFINE h == Onion!Expired(heap, _circuits)
             alive == Onion!Alive(h, _circuits)
  <1>b. /\ Made(h) /\ Listing(h, alive) /\ Len(h) = Len(heap)
        /\ \A c \in 0..Len(heap) : Held(heap, _circuits, c) => Held(h, alive, c)
        /\ \A i \in 1..Len(alive) : alive[i] \in 1..Len(heap)
    <2>1. Marked(heap, h)
      BY <1>a, ExpiredMarks
    <2> HIDE DEF h
    <2>2. /\ Made(h) /\ Listing(h, _circuits) /\ Len(h) = Len(heap)
          /\ \A c \in 0..Len(heap) : Held(heap, _circuits, c) => Held(h, _circuits, c)
      BY <1>a, <2>1, MarkedKeeps DEF Marked
    <2> DEFINE K == {c \in DOMAIN h : h[c].isAlive}
    <2>3. alive = Onion!Kept(_circuits, K)
      BY DEF Onion!Alive
    <2>4. \A c \in 0..Len(heap) : c # 0 /\ (c # 0 => h[c].isAlive) => c \in K
      <3>1. DOMAIN h = 1..Len(heap)
        BY <2>2 DEF Made
      <3> QED BY <1>a, <3>1
    <2> HIDE DEF K, alive
    <2>5. /\ Listing(h, alive)
          /\ \A c \in 0..Len(heap) : Held(h, _circuits, c) => Held(h, alive, c)
      BY <2>2, <2>3, <2>4, KeptKeeps
    <2>6. \A i \in 1..Len(alive) : alive[i] \in 1..Len(heap)
      BY <2>2, <2>5 DEF Listing
    <2> QED BY <2>2, <2>5, <2>6
  <1> HIDE DEF h, alive
  <1>1. CASE Onion!addCustomNode
    <2>1. PICK r \in Regions : _nodes' = Append(_nodes, r)
      BY <1>1 DEF Onion!addCustomNode
    <2>2. UNCHANGED <<heap, _circuits, _activeCircuit, now, refreshed>>
      BY <1>1 DEF Onion!addCustomNode
    <2>3. /\ _nodes' \in Seq(Regions)
          /\ \A c \in DOMAIN _nodes : c \in DOMAIN _nodes' /\ _nodes'[c] = _nodes[c]
      BY <1>a, <2>1
    <2>4. \A hops : Apart(hops) => Apart(hops)'
      BY <2>3 DEF Apart
    <2>5. Made(heap)'
      BY <1>a, <2>2, <2>4 DEF Made
    <2> QED BY <1>a, <2>2, <2>3, <2>5 DEF CircuitsInv, Listing, Held
  <1>2. CASE Onion!buildCircuit
    <2>1. PICK b \in Onion!Builds(heap, _circuits) : heap' = b.heap /\ _circuits' = b.listed
      BY <1>2 DEF Onion!buildCircuit
    <2>2. UNCHANGED <<_nodes, _activeCircuit, now, refreshed>>
      BY <1>2 DEF Onion!buildCircuit
    <2>3. /\ Made(b.heap) /\ Listing(b.heap, b.listed) /\ Len(heap) <= Len(b.heap)
          /\ \A c \in 0..Len(heap) : Held(heap, _circuits, c) => Held(b.heap, b.listed, c)
      <3>1. Built(heap, _circuits, b)
        BY <1>0, <1>a, BuildKeeps
      <3> QED BY <3>1, Zenon DEF Built
    <2>4. _activeCircuit \in 0..Len(b.heap)
      BY <1>a, <2>3 DEF Made
    <2> QED BY <1>a, <2>1, <2>2, <2>3, <2>4, CircuitsAre
  <1>3. CASE Onion!destroyCircuit
    <2>1. PICK c \in DOMAIN heap :
              /\ heap' = Onion!Destroyed(heap, _circuits, heap[c].circuitId)
              /\ _circuits' = Onion!Others(heap, _circuits, heap[c].circuitId)
      BY <1>3 DEF Onion!destroyCircuit
    <2>2. UNCHANGED <<_nodes, _activeCircuit, now, refreshed>>
      BY <1>3 DEF Onion!destroyCircuit
    <2>3. /\ Made(heap') /\ Listing(heap', _circuits') /\ Len(heap') = Len(heap)
          /\ Held(heap, _circuits, _activeCircuit) => Held(heap', _circuits', _activeCircuit)
      BY <1>a, <2>1, OthersKeep
    <2> QED BY <1>a, <2>2, <2>3, CircuitsAre
  <1>4. CASE Onion!refreshCircuit
    <2>1. UNCHANGED <<_nodes, _activeCircuit, now>> /\ refreshed'
      BY <1>4 DEF Onion!refreshCircuit
    <2>2. PICK i \in DOMAIN _circuits :
              \E b \in Onion!Builds(heap, Onion!Without(_circuits, _circuits[i])) :
              IF b.circuit = 0
              THEN heap' = b.heap /\ _circuits' = b.listed
              ELSE /\ heap' = Append(b.heap, Onion!Circuit(heap[_circuits[i]].circuitId,
                                                           b.heap[b.circuit].hops))
                   /\ _circuits' = Append(b.listed, Len(heap) + 2)
      BY <1>4 DEF Onion!refreshCircuit, Onion!NullObject
    <2>b. PICK b \in Onion!Builds(heap, Onion!Without(_circuits, _circuits[i])) :
              IF b.circuit = 0
              THEN heap' = b.heap /\ _circuits' = b.listed
              ELSE /\ heap' = Append(b.heap, Onion!Circuit(heap[_circuits[i]].circuitId,
                                                           b.heap[b.circuit].hops))
                   /\ _circuits' = Append(b.listed, Len(heap) + 2)
      BY <2>2
    <2> DEFINE worn == _circuits[i]
               K == DOMAIN heap \ {worn}
               rest == Onion!Without(_circuits, worn)
    <2>3. i \in 1..Len(_circuits) /\ worn \in 1..Len(heap)
      BY <1>a DEF Listing
    <2>4. rest = Onion!Kept(_circuits, K)
      BY DEF Onion!Without
    <2> HIDE DEF K, worn, rest
    <2>5. /\ Listing(heap, rest)
          /\ \A j \in 1..Len(rest) : rest[j] \in K /\ \E k \in 1..Len(_circuits) : rest[j] = _circuits[k]
      BY <1>a, <2>4, KeptKeeps
    <2>6. /\ Made(b.heap) /\ Listing(b.heap, b.listed) /\ b.circuit \in 0..Len(b.heap)
          /\ Len(heap) <= Len(b.heap) /\ \A c \in 1..Len(heap) : b.heap[c] = heap[c]
          /\ b.circuit # 0 => /\ b.circuit = Len(heap) + 1 /\ Len(b.heap) = Len(heap) + 1
                              /\ b.heap[Len(heap) + 1].circuitId = Len(heap) + 1
                              /\ \A j \in 1..Len(b.listed) :
                                    \/ b.listed[j] = Len(heap) + 1
                                    \/ \E k \in 1..Len(rest) : b.listed[j] = rest[k]
      <3>1. b \in Onion!Builds(heap, rest)
        BY <2>b DEF rest, worn
      <3>2. Built(heap, rest, b)
        BY <1>0, <1>a, <2>5, <3>1, BuildKeeps
      <3> QED BY <3>2, Zenon DEF Built
    <2>7. CASE b.circuit = 0
      <3>1. heap' = b.heap /\ _circuits' = b.listed
        BY <2>b, <2>7
      <3>2. _activeCircuit \in 0..Len(b.heap)
        BY <1>a, <2>6 DEF Made
      <3> QED BY <2>1, <2>6, <3>1, <3>2, CircuitsAre
    <2>8. CASE b.circuit # 0
      <3> DEFINE o == Onion!Circuit(heap[worn].circuitId, b.heap[b.circuit].hops)
      <3>1. heap' = Append(b.heap, o) /\ _circuits' = Append(b.listed, Len(b.heap) + 1)
        <4>0. Len(b.heap) = Len(heap) + 1
          BY <2>6, <2>8
        <4>1. Len(heap) + 2 = Len(b.heap) + 1
          BY <1>a, <4>0
        <4> QED BY <2>b, <2>8, <4>1 DEF worn
      <3>2. /\ heap[worn].circuitId \in 1..Len(heap) /\ b.circuit \in 1..Len(b.heap)
            /\ heap[worn].circuitId \in 1..Len(b.heap) + 1
        BY <1>a, <2>3, <2>6, <2>8 DEF Made
      <3>3. Apart(b.heap[b.circuit].hops) /\ b.heap[b.circuit] \in Objects
        BY <2>6, <3>2 DEF Made
      <3>4. o \in Objects /\ o.circuitId = heap[worn].circuitId /\ Apart(o.hops)
        <4> DEFINE id == heap[worn].circuitId
                   hops == b.heap[b.circuit].hops
        <4>1. id \in Nat
          BY <1>0, <3>2
        <4>2. hops \in SUBSET Nat
          BY <3>3 DEF Objects
        <4>3. Apart(hops)
          BY <3>3
        <4> HIDE DEF id, hops
        <4>4. LET c == Onion!Circuit(id, hops) IN
              c \in Objects /\ c.circuitId = id /\ c.hops = hops
          BY <1>0, <1>a, <4>1, <4>2, CircuitTyped
        <4> QED BY <4>3, <4>4 DEF id, hops
      <3> HIDE DEF o
      <3>5. ASSUME NEW j \in 1..Len(b.listed)
            PROVE  b.heap[b.listed[j]].circuitId # o.circuitId
        <4>1. CASE b.listed[j] = Len(heap) + 1
          BY <1>a, <2>6, <2>8, <3>2, <3>4, <4>1
        <4>2. CASE \E k \in 1..Len(rest) : b.listed[j] = rest[k]
          <5>1. PICK k \in 1..Len(_circuits) : b.listed[j] = _circuits[k] /\ _circuits[k] # worn
            BY <2>5, <4>2 DEF K
          <5>2. heap[_circuits[k]].circuitId # heap[_circuits[i]].circuitId
            BY <1>a, <2>3, <5>1 DEF Listing, worn
          <5>3. _circuits[k] \in 1..Len(heap)
            <6>1. _circuits \in Seq(1..Len(heap))
              BY <1>a DEF Listing
            <6> QED BY <5>1, <6>1
          <5>4. b.heap[_circuits[k]] = heap[_circuits[k]]
            BY <2>6, <5>3
          <5> QED BY <3>4, <5>1, <5>2, <5>4 DEF worn
        <4> QED BY <2>6, <2>8, <4>1, <4>2
      <3>6. /\ Made(heap') /\ Listing(heap', _circuits') /\ Len(heap') = Len(b.heap) + 1
        <4>1. Made(b.heap) /\ Listing(b.heap, b.listed)
          BY <2>6
        <4>2. o \in Objects /\ Apart(o.hops) /\ o.circuitId \in 1..Len(b.heap) + 1
          BY <3>2, <3>4
        <4> DEFINE g == Append(b.heap, o)
                   m == Append(b.listed, Len(b.heap) + 1)
        <4>3. Made(g) /\ Listing(g, m) /\ Len(g) = Len(b.heap) + 1
          BY <3>5, <4>1, <4>2, MadeAndListed
        <4> HIDE DEF g, m
        <4>4. heap' = g /\ _circuits' = m
          BY <3>1 DEF g, m
        <4> QED BY <4>3, <4>4
      <3>7. _activeCircuit \in 0..Len(heap')
        BY <1>a, <2>6, <2>8, <3>6
      <3> QED BY <2>1, <3>6, <3>7, CircuitsAre
    <2> QED BY <2>7, <2>8
  <1>5. CASE Onion!chat_refreshCircuit
    <2> DEFINE destroys == _activeCircuit # 0 /\ (_activeCircuit # 0 => h[_activeCircuit].isAlive)
               id == h[_activeCircuit].circuitId
               g == IF destroys THEN Onion!Destroyed(h, alive, id) ELSE h
               left == IF destroys THEN Onion!Others(h, alive, id) ELSE alive
    <2>1. UNCHANGED <<_nodes, now, refreshed>>
      BY <1>5 DEF Onion!chat_refreshCircuit
    <2>2. PICK b \in Onion!Builds(g, left) :
              /\ heap' = b.heap /\ _circuits' = b.listed
              /\ _activeCircuit' = IF b.circuit = 0 THEN _activeCircuit ELSE b.circuit
      BY <1>5 DEF Onion!chat_refreshCircuit, Onion!NullObject, Onion!Becomes, h, alive
    <2>3. /\ Made(g) /\ Listing(g, left) /\ Len(g) = Len(heap)
          /\ ~ refreshed => Held(g, left, _activeCircuit)
      <3>1. CASE destroys
        <4> HIDE DEF destroys
        <4> QED BY <1>a, <1>b, <3>1, OthersKeep
      <3>2. CASE ~ destroys
        BY <1>a, <1>b, <3>2
      <3> QED BY <3>1, <3>2
    <2> HIDE DEF g, left
    <2>4. /\ Made(b.heap) /\ Listing(b.heap, b.listed) /\ b.circuit \in 0..Len(b.heap)
          /\ Len(g) <= Len(b.heap) /\ Held(b.heap, b.listed, b.circuit)
          /\ \A c \in 0..Len(g) : Held(g, left, c) => Held(b.heap, b.listed, c)
      <3>1. Built(g, left, b)
        BY <1>0, <1>a, <2>3, BuildKeeps
      <3> QED BY <3>1, Zenon DEF Built
    <2>5. _activeCircuit' \in 0..Len(b.heap)
      BY <1>a, <2>2, <2>3, <2>4 DEF Made
    <2>6. ~ refreshed => Held(b.heap, b.listed, _activeCircuit')
      BY <1>a, <2>2, <2>3, <2>4
    <2> QED BY <2>1, <2>2, <2>4, <2>5, <2>6, CircuitsAre
  <1>6. CASE Onion!sendMessage
    <2>1. UNCHANGED <<_nodes, now, refreshed>>
      BY <1>6 DEF Onion!sendMessage
    <2>2. PICK b : /\ heap' = b.heap /\ _circuits' = b.listed /\ _activeCircuit' = b.circuit
                   /\ \/ b = [heap |-> heap, listed |-> _circuits, circuit |-> _activeCircuit]
                      \/ b \in Onion!Ensured
      BY <1>6 DEF Onion!sendMessage, Onion!Becomes
    <2>3. CASE b = [heap |-> heap, listed |-> _circuits, circuit |-> _activeCircuit]
      <3>1. heap' = heap /\ _circuits' = _circuits /\ _activeCircuit' = _activeCircuit
        BY <2>2, <2>3
      <3>2. /\ Made(heap') /\ Listing(heap', _circuits') /\ _activeCircuit' \in 0..Len(heap')
            /\ ~ refreshed => Held(heap', _circuits', _activeCircuit')
        BY <1>a, <3>1
      <3> QED BY <2>1, <3>2, CircuitsAre
    <2>4. CASE b = [heap |-> h, listed |-> alive, circuit |-> alive[1]] /\ alive # <<>>
      <3>1. 1 \in 1..Len(alive) /\ alive[1] \in 0..Len(h)
        <4>1. alive \in Seq(1..Len(h))
          BY <1>b DEF Listing
        <4> QED BY <2>4, <4>1
      <3>2. Held(h, alive, alive[1])
        BY <3>1 DEF Held
      <3>3. heap' = h /\ _circuits' = alive /\ _activeCircuit' = alive[1]
        BY <2>2, <2>4
      <3> QED BY <1>b, <2>1, <3>1, <3>2, <3>3, CircuitsAre
    <2>5. CASE \E d \in Onion!Builds(h, alive) :
                  b = [d EXCEPT !.circuit = IF @ = 0 THEN _activeCircuit ELSE @]
      <3>1. PICK d \in Onion!Builds(h, alive) :
                  b = [d EXCEPT !.circuit = IF @ = 0 THEN _activeCircuit ELSE @]
        BY <2>5
      <3>2. /\ Made(d.heap) /\ Listing(d.heap, d.listed) /\ d.circuit \in 0..Len(d.heap)
            /\ Len(h) <= Len(d.heap) /\ Held(d.heap, d.listed, d.circuit)
            /\ \A c \in 0..Len(h) : Held(h, alive, c) => Held(d.heap, d.listed, c)
        <4>1. Built(h, alive, d)
          BY <1>0, <1>a, <1>b, BuildKeeps
        <4> QED BY <4>1, Zenon DEF Built
      <3>3. /\ b.heap = d.heap /\ b.listed = d.listed
            /\ b.circuit = IF d.circuit = 0 THEN _activeCircuit ELSE d.circuit
        BY <3>1 DEF Onion!Builds
      <3>4. b.circuit \in 0..Len(d.heap)
        BY <1>a, <1>b, <3>2, <3>3 DEF Made
      <3>5. ~ refreshed => Held(d.heap, d.listed, b.circuit)
        BY <1>a, <1>b, <3>2, <3>3
      <3> QED BY <2>1, <2>2, <3>2, <3>3, <3>4, <3>5, CircuitsAre
    <2> QED BY <2>2, <2>3, <2>4, <2>5 DEF Onion!Ensured, Onion!NullObject, h, alive
  <1>7. CASE Onion!Tick
    <2>1. now' \in Nat /\ UNCHANGED <<_nodes, heap, _circuits, _activeCircuit, refreshed>>
      BY <1>a, <1>7 DEF Onion!Tick
    <2> QED BY <1>a, <2>1 DEF CircuitsInv, Made, Apart, Listing, Held
  <1>8. CASE UNCHANGED onion_vars
    <2>1. UNCHANGED <<_nodes, now, heap, _circuits, _activeCircuit, refreshed>>
      BY <1>8 DEF onion_vars
    <2>2. /\ Made(heap') /\ Listing(heap', _circuits') /\ _activeCircuit' \in 0..Len(heap')
          /\ ~ refreshed' => Held(heap', _circuits', _activeCircuit')
      BY <1>a, <2>1
    <2> QED BY <2>1, <2>2, CircuitsAre
  <1> QED BY <1>1, <1>2, <1>3, <1>4, <1>5, <1>6, <1>7, <1>8 DEF Onion!Next

\* No listed circuit crosses a region twice, no id is listed twice, and the circuit the
\* chat takes for alive can still be expired and destroyed unless the service has
\* refreshed a circuit in place, for every number of nodes, regions, hops and circuits
\* (onion_routing_service.dart:178-275, 398-438;
\* onion_chat_service.dart:40-62).
THEOREM CircuitsListedOnce == MCSpec => []CircuitsStayListedOnce
  <1>1. MCInit => CircuitsInv
    BY CircuitsFirst DEF MCInit
  <1>2. [MCNext]_all_vars => [Onion!Next]_onion_vars
    BY DEF MCNext, all_vars
  <1>3. CircuitsInv /\ [MCNext]_all_vars => CircuitsInv'
    BY <1>2, CircuitsStep
  <1>4. CircuitsInv => CircuitsStayListedOnce
    <2> SUFFICES ASSUME CircuitsInv PROVE CircuitsStayListedOnce
      OBVIOUS
    <2>1. /\ Made(heap) /\ Listing(heap, _circuits)
          /\ ~ refreshed => Held(heap, _circuits, _activeCircuit)
          /\ DOMAIN _circuits = 1..Len(_circuits)
          /\ \A i \in 1..Len(_circuits) : _circuits[i] \in 1..Len(heap)
      BY DEF CircuitsInv, Listing
    <2>2. Onion!RegionsDiffer
      BY <2>1 DEF Onion!RegionsDiffer, Made, Apart
    <2>3. Onion!IdsListedOnce
      BY <2>1 DEF Onion!IdsListedOnce, Listing
    <2>4. Onion!ActiveIsListed
      BY <2>1 DEF Onion!ActiveIsListed, Onion!NullObject, Held
    <2> QED BY <2>2, <2>3, <2>4 DEF CircuitsStayListedOnce
  <1> QED BY <1>1, <1>3, <1>4, PTL DEF MCSpec

=============================================================================
