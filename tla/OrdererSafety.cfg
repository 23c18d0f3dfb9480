CONSTANTS
    Secrets <- OrdererSecrets
    Specs <- OrdererSpecs
    MaxGen = 3
    MaxFaults = 0
    MayRevert = FALSE
    MayDelete = FALSE
    Lagging <- LaggingGenesis
SPECIFICATION Spec
INVARIANTS QuietMeansApplied
PROPERTIES KeepsPromise
CHECK_DEADLOCK FALSE
