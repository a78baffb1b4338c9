CONSTANTS
    Keys = {1, 2, 3, 4, 5, 6}
    PageIds = {1, 2, 3, 4, 5, 6, 7, 8, 9, 10, 11, 12}
    LeafMaxSizes = {2, 4}
    InternalMax = 3
    INVALID = INVALID
    NoKey = NoKey
    RootsPage = 0
    CallerChecksUnique = TRUE
    MaxRestarts = 1
SPECIFICATION Spec
INVARIANT TypeOK
INVARIANT BalancedTree
INVARIANT GetValueCorrect
INVARIANT PageSearchCorrect
INVARIANT LeafChainSorted
INVARIANT RootRegistered
INVARIANT CheckAllUnpinned
PROPERTY IndexSpec
