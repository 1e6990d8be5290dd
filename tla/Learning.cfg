\* Every track, with and without a channel, a curriculum and a parent.
SPECIFICATION Spec
CONSTANTS
    Marks = {k1, k2}
    NoMark = NoMark
    Types = {t1, t2}
    LastTurn = 2
    TrainingTurns = 2
    Stages <- TwoStages
    Settings <- EveryTrack
    Attempts = 2
    MaxFaults = 1
    MaxCrashes = 1
    Parts = {"learning", "forms", "frozen-llm"}
    FormCount = 2
    Variants = {v1, v2, v3}
    MaxStrokesOf <- MCMaxStrokes
    FormTurns = 2
    Symbols = {1, 2}
    MaxTracked = 1
    MaxRefs = 1
    MaxPending = 2
    LlmAttempts = 2
    LlmTurns = 3
    MaxTries = 2
    MaxSymbolsSaid = 1
INVARIANTS MemorySafe
PROPERTIES LedgerKept PolicyKept
SYMMETRY AnyMark
CHECK_DEADLOCK FALSE
