SPECIFICATION Spec
CONSTANTS
    Value = {0, 1}
    Closure = {f, g}
    Upvalue = {u1, u2}
    Variable = {x, y, z}
    Dead = Dead
    Method = 1
    CallbacksCall = FALSE
    OpenAtPanic = FALSE
    OpenBelow = FALSE
    MaxStack = 3
    MaxFrames = 2
    MaxUpvalues = 2
SYMMETRY Symmetry
INVARIANTS
    UpvaluesAreSound
PROPERTIES
    ImplementsVariables
CHECK_DEADLOCK FALSE
