CONSTANTS
    NodeTypes = {"peer", "orderer"}
    MaxFaults = 4
SPECIFICATION FairSpec
INVARIANTS TypeOK KeyMatchesCert CompleteUnlessDisturbed NothingWasted
PROPERTIES IdentityKept KeepsIdentity Starts
CHECK_DEADLOCK FALSE
