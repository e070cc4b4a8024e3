CONSTANTS
    TradesLookback = 2
    TradesLookbackOnRestart = 3
    TradesLimit = 2
    Margin = 1
    MaxTime = 2
    MaxEvents = 3
    MaxSessions = 2
    MaxInFlight = 2
SPECIFICATION Spec
CHECK_DEADLOCK FALSE
INVARIANTS
    FillsComplete
    NotOlderThanSubscription
    NewestPublished
