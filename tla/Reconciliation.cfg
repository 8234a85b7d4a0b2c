CONSTANTS
    o1 = o1
    o2 = o2
    s1 = s1
    s2 = s2
    Order <- TwoOrders
    Scope <- TwoScopes
    ScopeOf <- Apart
    SellScope <- TwoScopes
    MaxRun = 2
    Limit = 1
    Scripts <- AllScripts
SPECIFICATION FairSpec
INVARIANT TypeOK
INVARIANT LockHasOpenRun
INVARIANT AmbiguousIsLinked
INVARIANT BlockedNeverSent
PROPERTIES LiveLockIsKept LinkedRunIsDecided
CHECK_DEADLOCK FALSE
