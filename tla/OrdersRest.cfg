CONSTANTS
    o1 = o1
    o2 = o2
    c1 = c1
    x = x
    y = y
    Orders <- TwoOrders
    Symbols <- BothSymbols
    SymbolOf <- Symbol
    CancelAlls <- NoCancelAlls
    MaxVersion = 2
    MaxRequests = 4
    WsApi = FALSE
    Spot = FALSE
SPECIFICATION FairSpec
CHECK_DEADLOCK FALSE
INVARIANTS
    TypeOK
    TruthfulResponses
PROPERTIES
    RequestsConcluded
    ServiceSpec
