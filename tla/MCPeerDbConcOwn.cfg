SPECIFICATION Spec
CONSTANTS
    w1 = w1
    p1 = p1
    Workers = {w1, w2}
    Hashes = {h1, h2}
    PeerIDs = {p1, p2}
    IPs = {i1, i2}
    IDsOf <- OwnPeer
    Loaded = {h1, h2}
    Expiry = 1
    TrimOn = FALSE
    None = None
    MaxOps = 3
    MaxTicks = 1
CHECK_DEADLOCK FALSE
PROPERTIES ImplementsAtomic
SYMMETRY OwnSymmetry
