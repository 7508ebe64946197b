SPECIFICATION Spec
CONSTANTS
    Value = {0}
    Closure = {f}
    Upvalue = {u1}
    Variable = {x, y}
    Dead = Dead
    Method = 0
    CallbacksCall = TRUE
    OpenAtPanic = FALSE
    OpenBelow = FALSE
    MaxStack = 2
    MaxFrames = 3
    MaxUpvalues = 1
SYMMETRY Symmetry
PROPERTY RunsEndWithTheirFrame
CHECK_DEADLOCK FALSE
