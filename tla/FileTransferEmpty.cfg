SPECIFICATION Spec
CONSTANTS
    Bytes = {1, 2}
    CHUNK_SIZE = 2
    MaxFileSize = 4
    Unreliable = TRUE
INVARIANT
    AllAddedMeansCompleted
CHECK_DEADLOCK FALSE
