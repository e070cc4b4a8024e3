CONSTANTS
    s1 = s1
    s2 = s2
    s3 = s3
    Symbols <- ThreeSymbols
    Discarded <- LastDiscarded
    SliceSize = 2
    Klines = TRUE
    MaxSessions = 2
    MaxRestSessions = 2
SPECIFICATION Spec
SYMMETRY Interchangeable
CHECK_DEADLOCK FALSE
INVARIANTS
    TypeOK
    SubscribedOnce
    PassedOnOnce
    ListingProcessedOnce
    KlineCoverage
    KlineQueueBounded
