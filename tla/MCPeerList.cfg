SPECIFICATION Spec
CONSTANTS
    Workers = {w1, w2}
    Hashes = {h1}
    PeerIDs = {p1, p2}
    V6 = {p2}
    Protos = {"udp", "http", "list"}
    Default = 1
    Limit = 2
    NumWants = {3}
    MaxBufs = 2
    None = None
SYMMETRY Symmetry
INVARIANTS TypeOK BuffersHaveOneOwner 
