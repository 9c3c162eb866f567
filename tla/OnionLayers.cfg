SPECIFICATION Spec
CONSTANTS
    Regions = {r1, r2, r3}
    HopCount = 3
    Lifetime = 1
    MaxNodes = 4
    MaxCircuits = 4
    MaxTime = 3
INVARIANT
    LayersCanBeBuilt
CHECK_DEADLOCK FALSE
