SPECIFICATION MCSpec
CONSTANTS
    MaxIdentities = 2
    MaxLoads = 2
    MaxClears = 1
    MaxRefusals = 1
    MaxCrashes = 1
    Regions = {r1, r2}
    HopCount = 2
    Lifetime = 1
    MaxNodes = 3
    MaxCircuits = 4
    MaxTime = 2
    Voters = {you, other}
    Power = 1
    Quorum = 3
    NoSheet = NoSheet
    MaxProposals = 2
    MaxVotes = 4
INVARIANTS
    RestartKeepsTheIdentity
    ClearIsFinal
    CircuitsStayListedOnce
    OutcomeFitsVotes
CHECK_DEADLOCK FALSE
