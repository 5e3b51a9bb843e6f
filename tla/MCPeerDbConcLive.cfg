SPECIFICATION FairSpec
CONSTANTS
    w1 = w1
    p1 = p1
    Workers = {w1, w2}
    Hashes = {h1}
    PeerIDs = {p1}
    IPs = {i1}
    IDsOf <- AnyWorker
    Loaded = {}
    Expiry = 1
    TrimOn = TRUE
    None = None
    MaxOps = 3
    MaxTicks = 0
CHECK_DEADLOCK FALSE
PROPERTIES RequestsReturn 
