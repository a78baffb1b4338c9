CONSTANTS
    PoolSize = 2
    FirstId = 2
    MaxPages = 3
    INVALID <- MC_INVALID
    ZeroPage <- MC_ZeroPage
    Vals = {1}
    SlotsPerPage = 2
SPECIFICATION Spec
PROPERTY InsertReturns
CHECK_DEADLOCK FALSE
