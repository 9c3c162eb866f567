SPECIFICATION MCSpec
CONSTANTS
    Nodes = {a, b, c}
    MaxTime = 1
    MaxKeys = 4
    None = None
    CallNames = {c1, c2, c3}
    Screens = {s1, s2}
    MaxSeconds = 2
    MaxHasty = 1
INVARIANTS
    EndsAgree
    LostOnlyToItsTwin
    DurationIsOwn
PROPERTY
    BothAreCallLogs
SYMMETRY MCSymmetry
CHECK_DEADLOCK FALSE
