CONSTANTS
    Specs <- EditedSpecs
    MaxEdits = 4
SPECIFICATION Spec
INVARIANTS ChangesReachPods Settles MountsResolve LoginsAgree TrafficArrives
PROPERTIES NeverWedged
