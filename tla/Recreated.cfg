CONSTANTS
    Nodes = {"peer", "orderer"}
    Names = {"x", "y", "z"}
    Fqdns = {"f", "g"}
    Cases <- OneCase
    Lagging = {}
SPECIFICATION Spec
INVARIANTS RunningExists
CHECK_DEADLOCK FALSE
