CONSTANTS
    Secrets <- PeerSecrets
    Specs <- PeerSpecs
    MaxGen = 2
    MaxFaults = 1
    MayRevert = FALSE
    MayDelete = FALSE
    Lagging <- LaggingSome
SPECIFICATION Spec
INVARIANTS TypeOK ReadyMeansComplete QuietMeansApplied SecretsFirst 
PROPERTIES StatusFromCurrentSpec NeverRolledBack
CHECK_DEADLOCK FALSE
