SPECIFICATION FairSpec
CONSTANTS
    Clients = {c1, c2}
    NoDb = NoDb
INVARIANTS TypeOK SavedConnsSurvive
PROPERTIES StopEndsProcess IsTrackerProcess
