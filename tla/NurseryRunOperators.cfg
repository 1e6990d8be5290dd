\* Calls of the operator around a blocked seal, or while a driver call awaits,
\* or one with a crash under fair scheduling.
SPECIFICATION FairOperatorSpec
CONSTANTS
    Configurations <- AnyConfiguration
    Operations = {"pause", "resume", "abort"}
    Overlap = TRUE
    MaxCalls = 4
    Mishaps = {"crash"}
    MaxMishaps = 1
INVARIANTS VerdictOnce TurnsNumbered BudgetsHold
PROPERTIES PauseHolds NoStepBack FairRunRests
CHECK_DEADLOCK FALSE
