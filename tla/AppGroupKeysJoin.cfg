SPECIFICATION Spec
CONSTANTS
    Groups = {g}
    Members = {alice, bob}
    NoGroup = NoGroup
    MaxKeys = 4
    MaxChanges = 2
    MaxMessages = 1
INVARIANT ChangesRotateAll
CHECK_DEADLOCK FALSE
