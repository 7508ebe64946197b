SPECIFICATION Spec
CONSTANTS
    MatchNestDepth = 3
    Idioms = {}
    MaxNest = 6
    MaxStack = 5
INVARIANTS
    ScopesAreSound
    StackHeightIsKnown
PROPERTIES
    CapturedLocalsAreClosed
CHECK_DEADLOCK FALSE
