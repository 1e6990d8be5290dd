\* A run that asks for no evaluation phase.
SPECIFICATION Spec
CONSTANTS
    Configurations <- OneCaptureOnly
    Operations = {}
    Overlap = FALSE
    MaxCalls = 0
    Mishaps = {}
    MaxMishaps = 0
INVARIANTS WithinBudget
CHECK_DEADLOCK FALSE
