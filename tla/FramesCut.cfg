SPECIFICATION Spec
CONSTANTS
    PayloadLengths = {0, 1, 14, 255, 256, 65535, 65536, 65540}
    IdLengths = {0, 10, 29, 32}
    Slack = 4
INVARIANT
    NeverPanics
CHECK_DEADLOCK FALSE
