CONSTANTS
    CreateOrders <- SomeCreateOrders
    ModifyOrders <- SomeModifyOrders
    ReturnCodes <- SomeReturnCodes
    MaxRequests = 3
SPECIFICATION Spec
CHECK_DEADLOCK FALSE
INVARIANTS
    AgreedTerms
    ShownAsItIs
    
PROPERTIES
    OverIsOver
