-------------------------------- MODULE MCApp --------------------------------
(***************************************************************************)
(* Three services of the app, for TLC: the stored identity, the onion      *)
(* circuits and the proposals.  None of them calls another and they share  *)
(* no variable: a behaviour takes the steps of one of them, chosen at the  *)
(* start, and leaves the others as they began.                             *)
(***************************************************************************)
EXTENDS IdentityStore

CONSTANTS
    Regions, HopCount, Lifetime, MaxNodes, MaxCircuits, MaxTime,
    Voters, Power, Quorum, NoSheet, MaxProposals, MaxVotes

VARIABLES
    part,
    _nodes, heap, _circuits, _activeCircuit, sent, now, refreshed,
    made, votes, sheet

onion_vars == <<_nodes, heap, _circuits, _activeCircuit, sent, now, refreshed>>
dao_vars == <<made, votes, sheet>>
all_vars == <<part, vars, onion_vars, dao_vars>>

Onion == INSTANCE OnionCircuits
DAO == INSTANCE Governance

ASSUME CircuitsAssumption == Onion!OnionCircuitsAssumption
ASSUME ProposalsAssumption == DAO!PowerAssumption

\* Where the identity is not looked at, it begins as in a fresh installation.
MCInit ==
    /\ part \in {"identity", "circuits", "proposals"}
    /\ Init
    /\ part # "identity" => ~old
    /\ Onion!Init
    /\ DAO!Init

MCNext ==
    \/ part = "identity" /\ Next /\ UNCHANGED <<part, onion_vars, dao_vars>>
    \/ part = "circuits" /\ Onion!Next /\ UNCHANGED <<part, vars, dao_vars>>
    \/ part = "proposals" /\ DAO!Next /\ UNCHANGED <<part, vars, onion_vars>>

MCSpec == MCInit /\ [][MCNext]_all_vars

-----------------------------------------------------------------------------
\* A restarted app finds the identity whose flag it finds, and the last one that had
\* been created.
RestartKeepsTheIdentity == InitializedIsLoadable /\ LoadIsFresh

\* A listed circuit crosses no region twice and is listed under an id of its own, and
\* the service can still destroy the circuit that the chat uses.
CircuitsStayListedOnce ==
    Onion!RegionsDiffer /\ Onion!IdsListedOnce /\ Onion!ActiveIsListed

\* The outcome of a proposal fits the counters it shows, and these count every vote
\* that stands.
OutcomeFitsVotes == DAO!OutcomeFitsCounts /\ DAO!StandingVotesCount

=============================================================================
