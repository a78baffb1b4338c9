CONSTANTS
    PoolSize = 2
    Pages = {0, 1, 2}
    INVALID = INVALID
    MaxPins = 2
    MaxWrites = 1
    Garbage = {}
    N = 2
    MaxExtents = 2
    Word = 256
SPECIFICATION Spec
INVARIANT PageContentsIntact
