CONSTANTS
    NodeTypes = {"peer"}
    MaxFaults = 1
SPECIFICATION Spec
INVARIANTS StartedMeansIssued
CHECK_DEADLOCK FALSE
