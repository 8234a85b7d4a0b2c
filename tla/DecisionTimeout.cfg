SPECIFICATION Spec
CONSTANTS
    c1 = c1
    c2 = c2
    h1 = h1
    h2 = h2
    h3 = h3
    new = new
    two = two
    one = one
    o1 = o1
    o2 = o2
    Core <- MCCore
    Held <- MCHeld
    Universes <- MCTimeoutUniverses
    Symbol <- MCSymbol
    SymbolOf <- MCSymbolOf
    Position <- MCPosition
    Order <- MCOrder
    MaxGeneralBuy = 1
    MaxDisturbances = 1
INVARIANT TimeoutSkipsOneSymbol
SYMMETRY OrdersAndItems
