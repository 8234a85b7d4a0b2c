SPECIFICATION Spec
CONSTANTS
    Process = {p1, p2}
    NoOne = NoOne
    Capacity = 1
    Rate = 1
    MaxTime = 2
    MaxGrants = 4
    MaxCrashes = 1
SYMMETRY ProcessSymmetry
INVARIANT TypeOK
PROPERTY FailOpenIsPermanent
CHECK_DEADLOCK FALSE
