SPECIFICATION FairSpec
CONSTANTS
    Parts = {"snapshots", "retention", "probes"}
    Runs = {r1, r2}
    MaxCommits = 3
    MaxTaken = 2
    MaxRestarts = 2
    MaxLostTails = 1
    Bundles = {b1}
    Purgeable <- MCPurgeable
    Jobs = {j1, j2}
    MaxExports = 2
    MaxStarts = 3
    MaxEnds = 1
    Forms = {2, 3}
    Retired = {1}
    Codes = {0, 1}
    Observations <- MCObservations
    Writings <- MCWritings
    Suites <- MCSuites
    FirstEvents <- MCFirstEvents
    MaxTurnsPerRun = 2
    EvaluationTurns = 2
    MaxEvents = 1
    MaxFailures = 1
    MaxCrashes = 1
INVARIANTS SnapshotsSafe ProbesSafe
PROPERTIES RetentionSafe OperationsLive
CHECK_DEADLOCK FALSE
