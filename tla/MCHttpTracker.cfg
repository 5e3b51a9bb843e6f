SPECIFICATION FairSpec
CONSTANTS
    Workers = {w1, w2}
    Conns = {c1, c2}
    Requests <- SmallRequests
    Dictionaries = {d1, d2, d3}
    MaxParams = 3
    HashLen = 2
    FirstSegment = 3
    HeaderLen = 16
    HeaderCap = 16
    MaxTicks = 1
    None = None
INVARIANTS TypeOK RepliesFitRequests DictionariesHaveOneOwner PublishedHits
PROPERTIES ConnectionsAreClosed
CHECK_DEADLOCK FALSE
