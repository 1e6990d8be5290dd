\* Every recording operation with a fair event loop, or a store that loses tails.
SPECIFICATION FairEitherSpec
CONSTANTS
    w1 = w1   w2 = w2   t1 = t1   t2 = t2   p1 = p1
    Writers = {w1}
    Stamps = {t1}
    Paths = {p1}
    Requests <- RecordRequests
    Genesis = Genesis
    None = None
    MaxLen <- OneOrTwo
    MaxQueue = 1
    MaxManifests = 0
    TailLoss = FALSE
    Losing = {TRUE, FALSE}
INVARIANTS BindingsHold VettedPrefixIntact
PROPERTIES MutexReleased
CHECK_DEADLOCK FALSE
