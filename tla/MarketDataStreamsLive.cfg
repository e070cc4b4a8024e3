CONSTANTS
    s1 = s1
    s2 = s2
    s3 = s3
    Symbols <- TwoSymbols
    Discarded <- NoneDiscarded
    SliceSize = 1
    Klines = TRUE
    MaxSessions = 2
    MaxRestSessions = 2
SPECIFICATION FairSpec
CHECK_DEADLOCK FALSE
PROPERTIES
    ServiceSpec
    RestBecomesReady
    KlinesRequested
