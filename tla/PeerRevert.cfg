CONSTANTS
    Secrets <- OneSecret
    Specs <- ScaleSpecs
    MaxGen = 3
    MaxFaults = 0
    MayRevert = TRUE
    MayDelete = FALSE
    Lagging <- LaggingSts
SPECIFICATION Spec
INVARIANTS QuietMeansApplied
CHECK_DEADLOCK FALSE
