CONSTANTS
    Secrets <- OneSecret
    Specs <- ScaleSpecs
    MaxGen = 2
    MaxFaults = 0
    MayRevert = FALSE
    MayDelete = FALSE
    Lagging <- LaggingSts
SPECIFICATION FairSpec
PROPERTIES ReconcileReturns
CHECK_DEADLOCK FALSE
