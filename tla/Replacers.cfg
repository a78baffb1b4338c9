CONSTANTS
    NumFrames = 4
SPECIFICATION Spec
INVARIANT TypeOK
INVARIANT ListMatchesSet
PROPERTY VictimWasUnpinned
