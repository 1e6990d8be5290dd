SPECIFICATION Spec
CONSTANTS
    Parts = {"treatments", "collection", "dyads", "schedules", "scenarios"}
    Roles = {babyA, babyB}
    Scheduled <- MCScheduled
    Targets = {t1, t2}
    Tokens = {w1, w2}
    Collectors = {c1, c2}
    Primaries = 2
    Reserves = 2
    Branches <- MCBranches
    MaxFaults = 2
    MaxDeaths = 1
    DyadIds = {d1, d2, d3}
    Budgeted = {d1, d2}
    Budget = 1
    Runners = {p1, p2}
    Cases = 1
    MaxAttempts = 2
    MaxCrashes = 1
    MaxBreaches = 1
    FrozenCounts <- MCFrozenCounts
    PlanPartitions <- MCPlanPartitions
    Types = 2
    Versions = {1, 2}
    MaxOffPlan = 2
    ConfigInputs <- MCConfigInputs
    FrozenConfig <- MCFrozenConfig
    Splits = {"train", "validation", "held-out", "evaluation"}
    PartitionCases <- MCPartitionCases
    MaxUtility = 3
    MidReservations = {2, 3}
    MaxSymbols = 2
INVARIANTS CollectionSafe DyadsSafe PlansSafe ScenariosSafe
CONSTRAINT Explored
SYMMETRY Symmetric
CHECK_DEADLOCK FALSE
