SPECIFICATION SpecInTurn
CONSTANTS
    SendChainLimit = 2
    MaxKeys = 6
    MaxMessages = 4
    MaxRecv = 3
INVARIANT
    TriedMeansOpened
CHECK_DEADLOCK FALSE
