SPECIFICATION MCSpec
CONSTANTS
    o0 = o0
    o1 = o1
    o2 = o2
    o3 = o3
    big = big
    Objects = {o0, o1, o2, o3, big}
    Size <- MCSize
    Peers = {p1}
    max_capacity = 2
    MAX_OBJECT_SIZE = 2
    EVICT_BATCH = 2
    MaxAccess = 2
    MaxReplicas = 1
    MAX_QUEUE_SIZE = 3
    SequenceMod = 3
    Devices = {d1, d2}
    ZeroIds = {z1}
    None = None
    OtherNumbers = {0}
    MaxMessages = 4
    max_history = 4
    Titles = {"relay"}
    MaxTurns = 3
    PayloadLengths = {0, 1, 14, 255, 256, 65535, 65536, 65540}
    IdLengths = {0, 10, 29, 32}
    Slack = 4
    Words = {w1, w2}
    Spellings = {"typed"}
    Passphrases = {"", "secret"}
    NoPassphrase = ""
    Half = 502
    Numbers = {0, 1, 44, 60, 195, 501, 502, 546, 1003, 1004}
    MaxParts = 2
    Counts = {0, 1}
INVARIANTS
    IndexAndUsageMatchStore
    QueueIsUnbrokenAndEntriesAreUnique
    QuestionsAreAnswered
    FramesAreNotMistaken
    KeysFollowTheirPaths
    WalletAddressesAreAccepted
PROPERTIES
    EvictOnlyIdle
    EvictedForANewcomer
    OverfullOnlyAfterEviction
    BothAreBoundedQueues
SYMMETRY MCSymmetry
CHECK_DEADLOCK FALSE
