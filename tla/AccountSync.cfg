CONSTANTS
    s1 = s1
    s2 = s2
    Symbols <- BothSymbols
    TradeSymbols <- OneOfTwo
    NoSymbol = NoSymbol
    Spot = FALSE
    WsApi = TRUE
    RetryLogon = TRUE
    MaxSessions <- TwoDropCopySessions
SPECIFICATION Spec
CHECK_DEADLOCK FALSE
INVARIANTS
    TypeOK
    Coverage
    QueueOnlyInSession
    NoRedundantDownloads
PROPERTIES
    NothingDropped
