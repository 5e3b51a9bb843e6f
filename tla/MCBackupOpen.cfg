SPECIFICATION Spec
CONSTANTS
    Kinds = {"file"}
    Hashes = {h1, h2}
    PeerIDs = {p1, p2}
    Savers = {"signal"}
    Crashes = FALSE
    MaxChanges = 3
    MaxSaves = 2
    None = None
CHECK_DEADLOCK FALSE
SYMMETRY Symmetry
INVARIANT OpenLoadsBackups
