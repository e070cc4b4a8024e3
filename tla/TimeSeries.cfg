CONSTANTS
    Lookback = 2
    Limit = 2
    MaxTime = 3
    MaxTrades = 1
    MaxSessions = 2
    MaxInFlight = 2
SPECIFICATION Spec
CHECK_DEADLOCK FALSE
INVARIANTS
    CandlesFinal
