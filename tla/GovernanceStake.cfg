SPECIFICATION Spec
CONSTANTS
    Voters = {you, other}
    Power = 1
    Quorum = 3
    NoSheet = NoSheet
    MaxProposals = 2
    MaxVotes = 4
INVARIANT OneVotePerZero
CHECK_DEADLOCK FALSE
