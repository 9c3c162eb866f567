SPECIFICATION SpecShared
CONSTANTS
    Bytes = {1, 2}
    CHUNK_SIZE = 2
    MaxFileSize = 4
    Unreliable = FALSE
INVARIANT
    CompletedAssembles
CHECK_DEADLOCK FALSE
