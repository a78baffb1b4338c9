CONSTANTS
    PoolSize = 3
    FirstId = 2
    MaxPages = 3
    INVALID <- MC_INVALID
    ZeroPage <- MC_ZeroPage
    Vals = {1}
    SlotsPerPage = 2
SPECIFICATION Spec
INVARIANT TypeOK
INVARIANT ChainWellFormed
PROPERTY ScanReturnsLiveRows
PROPERTY ScanEnds
PROPERTY RowBagRefined
