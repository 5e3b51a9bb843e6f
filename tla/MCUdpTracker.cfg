SPECIFICATION Spec
CONSTANTS
    Clients = {c1}
    Addrs = {a1, a2}
    IDs = {d1, d2}
    NoID = NoID
    Kinds = {"announce"}
    Validate = TRUE
    Threads = 2
    Expiry = 0
    TrimEvery = 1
    Duplicates = TRUE
    Crashes = FALSE
    Signals = FALSE
    MaxNet = 2
SYMMETRY Symmetry
INVARIANTS TypeOK ServedOnlyAfterConnect
