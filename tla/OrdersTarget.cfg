CONSTANTS
    o1 = o1
    o2 = o2
    c1 = c1
    x = x
    y = y
    Orders <- OneOrder
    Symbols <- BothSymbols
    SymbolOf <- Symbol
    CancelAlls <- NoCancelAlls
    MaxVersion = 3
    MaxRequests = 3
    WsApi = FALSE
    Spot = FALSE
SPECIFICATION Spec
CHECK_DEADLOCK FALSE
INVARIANTS
    TargetsOwnOrder
