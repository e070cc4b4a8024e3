CONSTANTS
    s1 = s1
    s2 = s2
    Symbols <- BothSymbols
    TradeSymbols <- OneOfTwo
    NoSymbol = NoSymbol
    Spot = TRUE
    WsApi = FALSE
    RetryLogon = FALSE
    MaxSessions <- TwoSessions
SPECIFICATION FairSpec
CHECK_DEADLOCK FALSE
INVARIANTS
    AssertionsHold
    RestReadyIffDownloaded
PROPERTIES
    RestBecomesReady
    ServiceSpec
