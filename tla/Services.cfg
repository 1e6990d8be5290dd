\* A batch of the shuffled control and its like; a relayed and a direct learner.
SPECIFICATION FairSpec
CONSTANTS
    Parts = {"gateway", "isolation", "affect", "frames", "carriers", "glyphs"}
    Conditions = {"normal", "disabled", "oracle", "shuffled"}
    Hostings = {"local", "remote"}
    Ceiling = 2
    BatchSize = 2
    MaxTurns = 3
    MaxLost = 1
    MaxCrashes = 1
    Boundaries <- SomeBoundaries
    Deadline = 1
    RetryBudget = 1
    DirectTurns = 1
    RelayedTurns = 2
    MaxAppends = 1
    AffectModes = {"declared", "derived", "emergent"}
    Period = 2
    WindowHistory = 2
    AffectTurns = 5
    MaxSubmissions = 3
    FrameSize = 2
    MaxChunks = 2
    MaxMessages = 2
    MaxFaults = 2
    CarrierModes = {"token", "glyph", "bitmap", "canvas", "tone"}
    Marks = {m1, m2}
    MaxMarks = 3
    MaxRepeats = 2
    BitCount = 2
    Width = 4
    Height = 4
    InkRows = 2
INVARIANTS GatewaySafe IsolationSafe ChannelsSafe CodecsSafe
PROPERTIES ServicesLive
CHECK_DEADLOCK FALSE
