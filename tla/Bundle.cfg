\* A run of one training and one evaluation turn, and what may happen to it.
SPECIFICATION BundleSpec
CONSTANTS
    Settings <- SomeSettings
    Training = 1
    Evaluation = 1
INVARIANTS AcceptanceIsSound SealedVerifies
CHECK_DEADLOCK FALSE
