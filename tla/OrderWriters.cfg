SPECIFICATION Spec
CONSTANTS
    o1 = o1
    p1 = p1
    p2 = p2
    NoOne = NoOne
    Order <- OneOrder
    Process <- TwoProcesses
    Writers <- Everybody
    Initial <- Created
    MaxVersion = 2
PROPERTY VersionsGrow
SYMMETRY Symmetric
