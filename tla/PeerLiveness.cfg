CONSTANTS
    Secrets <- OneSecret
    Specs <- ScaleSpecs
    MaxGen = 2
    MaxFaults = 0
    MayRevert = FALSE
    MayDelete = FALSE
    Lagging <- LaggingSts
SPECIFICATION FairSpec
PROPERTIES Converges
CHECK_DEADLOCK FALSE
