CONSTANTS
    c1 = c1
    c2 = c2
    c3 = c3
    k1 = k1
    k2 = k2
    Client = {k1, k2}
    Call = {c1, c2, c3}
    NoCall = NoCall
    Owner <- MCOwner
    Work <- MCWork
    Paper = TRUE
    Capacity <- MCCapacity
    ReserveCapacity = 1
    Threshold = 1
    MaxRetries = 1
    MaxCalls = 2
    MaxPages <- MCMaxPages
    MaxTokens = 2
    MaxRefills <- MCMaxRefills
SPECIFICATION Spec
INVARIANT OrderSentOnce
