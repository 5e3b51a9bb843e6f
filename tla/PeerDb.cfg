SPECIFICATION FairSpec
CONSTANTS
    Hashes = {h1, h2}
    PeerIDs = {p1, p2}
    IPs = {i1, i2}
    Expiry = 0
    Loaded = {h1}
    NoHash = NoHash
INVARIANTS TypeOK HashStatsExact GaugesExact IPStatsExact
PROPERTIES  SilentPeersLeave EmptySwarmsLeave
