----------------------------- MODULE Governance -----------------------------
(***************************************************************************)
(* Proposals and votes (lib/services/dao/zero_dao_service.dart) and the    *)
(* screen that casts them (lib/features/dao/zero_dao_screen.dart): a vote  *)
(* comes from the detail sheet of one proposal, which offers the buttons   *)
(* if the proposal was active when the sheet was built, and closes.        *)
(*                                                                         *)
(* Nothing adds members, so that a vote changes no member.  A proposal's   *)
(* id is the millisecond it was made in; a person makes no two in one.     *)
(***************************************************************************)
EXTENDS Naturals, FiniteSets

CONSTANTS
    Voters,     \* who may vote (the app has one)
    Power,      \* votingPower, in ZERO
    Quorum,     \* votes at which turnout reaches quorum (15% of 1250000)
    NoSheet,    \* no detail sheet is open
    MaxProposals,  \* bound: proposals made
    MaxVotes    \* bound: votes cast on a proposal

\* Proposals are numbered from 1; no sheet is none of them.
PowerAssumption ==
    /\ {Power, Quorum} \subseteq Nat \ {0}
    /\ NoSheet \notin Nat

VARIABLES
    made,       \* _proposals, by id: status, counters, whether endTime has passed
    votes,      \* _votes
    sheet       \* the proposal whose sheet offers the vote buttons, or NoSheet

vars == <<made, votes, sheet>>

Choices == {"for", "against", "abstain"}

totalVotes(p) == p.count["for"] + p.count["against"] + p.count["abstain"]

quorumReached(p) == totalVotes(p) >= Quorum

isActive(p) == p.status = "Active" /\ ~p.ended

Init ==
    /\ made = <<>>
    /\ votes = {}
    /\ sheet = NoSheet

createProposal ==
    /\ Cardinality(DOMAIN made) < MaxProposals
    /\ made' = [id \in DOMAIN made \cup {Cardinality(DOMAIN made) + 1} |->
                  IF id \in DOMAIN made THEN made[id]
                  ELSE [status |-> "Active", count |-> [c \in Choices |-> 0], ended |-> FALSE]]
    /\ UNCHANGED <<votes, sheet>>

End(id) ==
    /\ made' = [made EXCEPT ![id].ended = TRUE]
    /\ UNCHANGED <<votes, sheet>>

OpenSheet(id) ==
    /\ sheet = NoSheet
    /\ isActive(made[id])
    /\ sheet' = id
    /\ UNCHANGED <<made, votes>>

CloseSheet ==
    /\ sheet' = NoSheet
    /\ UNCHANGED <<made, votes>>

\* _votes.removeWhere, then add.
Recorded(id, voter, choice) ==
    {v \in votes : ~(v.proposalId = id /\ v.voterDid = voter)}
        \cup {[proposalId |-> id, voterDid |-> voter, choice |-> choice]}

\* Every vote counts one, also one that replaces another.
Counted(id, voter, choice) == [made[id] EXCEPT !.count[choice] = @ + 1]

Decided(p) ==
    IF quorumReached(p) /\ p.status = "Active"
    THEN [p EXCEPT !.status = IF 2 * p.count["for"] > totalVotes(p) THEN "Passed" ELSE "Rejected"]
    ELSE p

\* Slip: the sheet stays open.
SheetAfterVote_open == sheet

SheetAfterVote == NoSheet

\* vote looks the proposal up; it tests neither its status nor its end.
vote(id, voter, choice) ==
    /\ sheet = id
    /\ totalVotes(made[id]) < MaxVotes
    /\ votes' = Recorded(id, voter, choice)
    /\ made' = [made EXCEPT ![id] = Decided(Counted(id, voter, choice))]
    /\ sheet' = SheetAfterVote

Next ==
    \/ createProposal
    \/ CloseSheet
    \/ \E id \in DOMAIN made :
        \/ End(id)
        \/ OpenSheet(id)
        \/ \E voter \in Voters, choice \in Choices : vote(id, voter, choice)

Spec == Init /\ [][Next]_vars

-----------------------------------------------------------------------------
VotesFor(id, choice) == {v \in votes : v.proposalId = id /\ v.choice = choice}

\* Every vote that stands was counted under its choice, and each voter has one
\* (the service removes a voter's earlier vote but never what it counted:
\* zero_dao_service.dart:177).
StandingVotesCount ==
    /\ \A id \in DOMAIN made, c \in Choices :
           Cardinality(VotesFor(id, c)) <= made[id].count[c]
    /\ \A v, w \in votes : v.proposalId = w.proposalId /\ v.voterDid = w.voterDid => v = w

\* A proposal is undecided below its quorum, and the counters it shows are those it
\* was decided on: none changes afterwards, although vote does not refuse a vote
\* on a decided proposal (zero_dao_service.dart:172).
OutcomeFitsCounts ==
    \A id \in DOMAIN made : LET p == made[id] IN
        p.status = IF ~quorumReached(p) THEN "Active"
                   ELSE IF 2 * p.count["for"] > totalVotes(p) THEN "Passed" ELSE "Rejected"

\* docs/ZERO_ECOSYSTEM.md:232 gives one vote per ZERO: what is counted for a choice
\* is the voting power of the votes that stand for it.
OneVotePerZero ==
    \A id \in DOMAIN made, c \in Choices :
        made[id].count[c] = Power * Cardinality(VotesFor(id, c))
=============================================================================
