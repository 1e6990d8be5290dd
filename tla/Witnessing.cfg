\* Checkpoints by the runtime and the scheduler; two publishers with one wallet.
SPECIFICATION FairSpec
CONSTANTS
    Parts = {"checkpointing", "anchoring"}
    Streams = {"turns", "channel"}
    EventInterval = 2
    MaxEvents = 2
    MaxCheckpoints = 1
    MaxFaults = 1
    Checkpoints = {"run-1", "run-2"}
    SendAttempts = 2
    PollAttempts = 1
    RequiredDepth = 2
    MaxBlocks = 3
    MaxLosses = 1
    MaxSubmits <- Submits
    MaxDeaths <- Deaths
INVARIANTS CheckpointingSafe AnchoringSafe
PROPERTIES CutsSpec EventuallyCommitted
CHECK_DEADLOCK FALSE
