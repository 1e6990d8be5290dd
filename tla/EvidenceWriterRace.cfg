\* Two writer objects on one file commit turns and interventions.
SPECIFICATION EitherSpec
CONSTANTS
    w1 = w1   w2 = w2   t1 = t1   t2 = t2   p1 = p1
    Writers = {w1, w2}
    Stamps = {t1, t2}
    Paths = {p1}
    Requests <- TurnRequests
    Genesis = Genesis
    None = None
    MaxLen <- One
    MaxQueue = 1
    MaxManifests = 0
    TailLoss = FALSE
    Losing = {FALSE}
SYMMETRY WriterSymmetry
INVARIANTS TypeOK ChainLinked TurnPairs ForkKeepsBoth
PROPERTIES LogSpec
CHECK_DEADLOCK FALSE
