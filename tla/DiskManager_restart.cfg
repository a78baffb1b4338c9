CONSTANTS
    N = 2
    MaxExtents = 2
    Word = 256
SPECIFICATION Spec
PROPERTY NeverDoubleAllocated
