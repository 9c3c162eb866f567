SPECIFICATION MCSpec
CONSTANTS
    Devices = {d1, d2}
    Members = {a, b}
    NoGroup = NoGroup
    MaxEpoch = 2
    MaxMessages = 2
    Groups = {"family", "work"}
    AppMaxKeys = 6
    AppMaxChanges = 3
    AppMaxMessages = 1
INVARIANTS
    CoreOpensOnlyInItsEpoch
    SameKeySameView
    AppOpensOnlyTheLatest
    AppKeysArePrivate
CHECK_DEADLOCK FALSE
