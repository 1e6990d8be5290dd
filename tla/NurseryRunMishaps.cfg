\* A crash among operator calls, or mishaps of every kind around the seal.
SPECIFICATION MishapSpec
CONSTANTS
    Configurations <- AllPlain
    Operations = {"recover"}
    Overlap = FALSE
    MaxCalls = 2
    Mishaps = {"crash", "fault", "lost", "signers", "fork"}
    MaxMishaps = 2
INVARIANTS TypeOK SealedIsFinal SealIsCovered
PROPERTIES StopsHold
CHECK_DEADLOCK FALSE
