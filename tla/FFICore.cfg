SPECIFICATION FairSpec
CONSTANTS
    Free = Free
    None = None
    Threads = {t1, t2}
    Identities = {i1, i2}
    MaxCalls = 2
INVARIANTS
    TypeOK
    InitializedIsSeen
    OwnError
PROPERTY
    CallsReturn
CHECK_DEADLOCK FALSE
