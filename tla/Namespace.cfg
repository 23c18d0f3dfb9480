CONSTANTS
    Nodes = {"peer", "orderer"}
    Names = {"x", "y", "z"}
    Fqdns = {"f", "g"}
    Cases <- AllCases
    Lagging <- LaggingAlone
SPECIFICATION HealingSpec
INVARIANTS TypeOK AddressesMatch FirstLifeServed
PROPERTIES Heals
CHECK_DEADLOCK FALSE
