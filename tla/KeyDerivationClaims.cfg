SPECIFICATION Spec
CONSTANTS
    Words = {w1, w2}
    Spellings = {"typed"}
    Passphrases = {"", "secret"}
    NoPassphrase = ""
    Half = 502
    Numbers = {0, 1, 44, 60, 195, 501, 502, 546, 1003, 1004}
    MaxParts = 2
    Counts = {0, 1}
INVARIANTS
    SamePathSameKey
    CidStartsWithB
