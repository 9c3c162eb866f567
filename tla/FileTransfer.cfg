SPECIFICATION FairSpec
CONSTANTS
    Bytes = {1, 2}
    CHUNK_SIZE = 2
    MaxFileSize = 4
    Unreliable = TRUE
INVARIANTS
    CompletedIsWhole
    AssembleExact
PROPERTIES
    FirstCopyWins
    EventuallyAssembled
CHECK_DEADLOCK FALSE
