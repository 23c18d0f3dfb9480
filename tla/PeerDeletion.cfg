CONSTANTS
    Secrets <- NoSecrets
    Specs <- OneSpec
    MaxGen = 1
    MaxFaults = 0
    MayRevert = FALSE
    MayDelete = TRUE
    Lagging = {"sts"}
SPECIFICATION FairSpec
PROPERTIES DeletedIsCollected KeepsPromise
CHECK_DEADLOCK FALSE
