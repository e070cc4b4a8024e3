CONSTANTS
    a1 = a1
    a2 = a2
    n1 = n1
    n2 = n2
    Accounts <- BothAccounts
    Names <- BothNames
    Discarded <- SecondName
    NoName = NoName
    MbpDepth = 50
    TimeSeries = TRUE
    AllowUnknownEventTypes = FALSE
    MaxItems = 3
SPECIFICATION Spec
CHECK_DEADLOCK FALSE
SYMMETRY Symmetry
INVARIANTS
    TypeOK
    UnderTheirOwnName
    EveryItemOnce
    OneSourceEach
    ExpectedIsHandled
