SPECIFICATION Spec
CONSTANTS
    MatchNestDepth = 3
    Idioms = {"capture"}
    MaxNest = 5
    MaxStack = 4
INVARIANTS
    StackHeightIsKnown
CHECK_DEADLOCK FALSE
