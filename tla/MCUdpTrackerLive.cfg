SPECIFICATION FairSpec
CONSTANTS
    Clients = {c1}
    Addrs = {a1}
    IDs = {d1}
    NoID = NoID
    Kinds = {"stop", "scrape", "bad port"}
    Validate = TRUE
    Threads = 1
    Expiry = 0
    TrimEvery = 1
    Duplicates = FALSE
    Crashes = TRUE
    Signals = TRUE
    MaxNet = 1
INVARIANTS  IDsExpire WireCarriesMessages
PROPERTIES ConnectsAreAnswered 
