SPECIFICATION Spec
CONSTANTS
    w1 = w1
    p1 = p1
    Workers = {w1, w2}
    Hashes = {h1}
    PeerIDs = {p1}
    IPs = {i1, i2}
    IDsOf <- AnyWorker
    Loaded = {}
    Expiry = 0
    TrimOn = TRUE
    None = None
    MaxOps = 3
    MaxTicks = 1
CHECK_DEADLOCK FALSE
INVARIANTS TypeOK NoDoubleFree GaugesFollowCounters
PROPERTIES DriftOnlyByDoubleInsert
SYMMETRY Symmetry
