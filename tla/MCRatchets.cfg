SPECIFICATION MCSpec
CONSTANTS
    SendChainLimit = 2
    MaxKeys = 8
    MaxMessages = 5
    MaxRecv = 4
    N = 3
    MaxInits = 2
    ManagerMaxKeys = 18
    ManagerMaxMessages = 3
    ManagerMaxRecv = 2
INVARIANTS
    NoKeyReuse
    NumbersInStep
    SessionKeysDiffer
    KeysHaveTheRightOwner
PROPERTY
    ForwardOnly
CHECK_DEADLOCK FALSE
