CONSTANTS
    Keys = {1, 2, 3, 4}
    PageIds = {1, 2, 3, 4, 5, 6}
    LeafMaxSizes = {2}
    InternalMax = 3
    INVALID = INVALID
    NoKey = NoKey
    RootsPage = 0
    CallerChecksUnique = TRUE
    MaxRestarts = 1
SPECIFICATION Spec
INVARIANT PagesReturned
