SPECIFICATION Spec
CONSTANTS
    N = 3
    SendChainLimit = 2
    MaxKeys = 18
    MaxInits = 2
    MaxMessages = 3
    MaxRecv = 2
INVARIANT
    OneTimeKeysServeOnce
CHECK_DEADLOCK FALSE
