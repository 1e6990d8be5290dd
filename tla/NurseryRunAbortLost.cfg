\* The process ends right after the abort event.
SPECIFICATION Spec
CONSTANTS
    Configurations <- OnePlain
    Operations = {"abort"}
    Overlap = FALSE
    MaxCalls = 1
    Mishaps = {"crash"}
    MaxMishaps = 1
INVARIANTS AbortedNeverValid
CHECK_DEADLOCK FALSE
