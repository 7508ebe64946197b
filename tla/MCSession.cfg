SPECIFICATION Spec
CONSTANTS
    Main = Main
    File = {a, b}
    Name = {x, y}
    Core = println
    Idioms = {}
    MaxLines = 2
    MaxText = 2
SYMMETRY Symmetry
INVARIANTS
    SessionIsSound
    ImportsAreReady
    ReadsSeeDefinitions
PROPERTIES
    ModulesRunOnce
CHECK_DEADLOCK FALSE
