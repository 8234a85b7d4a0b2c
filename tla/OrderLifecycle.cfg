SPECIFICATION Spec
CONSTANTS
    o1 = o1
    p1 = p1
    p2 = p2
    NoOne = NoOne
    Order <- OneOrder
    Process <- TwoProcesses
    Writers <- Manager
    Initial <- Created
    MaxVersion = 3
INVARIANT TypeOK
PROPERTIES FinalIsFinal ExpiredReopens
SYMMETRY Symmetric
