SPECIFICATION MCSpec
CONSTANTS
    Peers = {p1, p2}
    Versions = {v1, v2, unknown}
    Unusable = {unknown}
    Addrs = {a1, a2, private}
    Routable = {a1, a2}
    Groups = {g1}
    NatStatus = {"Unknown", "Public"}
    None = None
    MaxConns = 2
    MaxReady = 3
    MaxAddrs = 2
    a = a
    b = b
    c = c
    Nodes = {a, b, c}
    Topologies <- MCTopologies
    Texts = {"text"}
    Sessions <- MCSessions
    MaxTime = 1
    MaxSends = 3
INVARIANTS
    TablesAndNewsAgree
    KeysAreSpent
    EventsAreGenuine
PROPERTIES
    BootstrapIsReported
    OkIsHeard
CHECK_DEADLOCK FALSE
