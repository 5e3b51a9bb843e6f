SPECIFICATION Spec
CONSTANTS
    Kinds = {"file", "pg"}
    Hashes = {h1, h2}
    PeerIDs = {p1, p2}
    Savers = {"periodic", "signal"}
    Crashes = TRUE
    MaxChanges = 3
    MaxSaves = 2
    None = None
CHECK_DEADLOCK FALSE
SYMMETRY Symmetry
INVARIANTS TypeOK 
