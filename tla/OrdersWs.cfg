CONSTANTS
    o1 = o1
    o2 = o2
    c1 = c1
    x = x
    y = y
    Orders <- TwoOrders
    Symbols <- BothSymbols
    SymbolOf <- Symbol
    CancelAlls <- OneCancelAll
    MaxVersion = 2
    MaxRequests = 3
    WsApi = TRUE
    Spot = TRUE
SPECIFICATION Spec
CHECK_DEADLOCK FALSE
INVARIANTS
    Accounted
    CancelAllAccounted
