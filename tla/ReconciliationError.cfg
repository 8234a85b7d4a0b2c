CONSTANTS
    o1 = o1
    o2 = o2
    s1 = s1
    s2 = s2
    Order <- TwoOrders
    Scope <- TwoScopes
    ScopeOf <- Apart
    SellScope <- TwoScopes
    MaxRun = 1
    Limit = 2
    Scripts = {}
SPECIFICATION Spec
PROPERTY AmbiguousErrorIsStored
CHECK_DEADLOCK FALSE
