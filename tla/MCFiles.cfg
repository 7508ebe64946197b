SPECIFICATION Spec
CONSTANTS
    Paths = {p, q}
    Inodes = {i1, i2, i3}
    Handles = {f}
    Modes = {"r", "w+", "a"}
    LF = 10
    CR = 13
    Hole = 0
    EndsInCR = FALSE
    Texts <- MCTexts
    Asked = {0, 2}
    Offsets <- MCOffsets
    LineBuffer = 4
    MaxSize = 3
    MaxStreams = 2
    Full = FALSE
    SameFile = FALSE
    None = None
    Directory = Directory
    Closed = Closed
SYMMETRY Symmetry
INVARIANTS
    FilesAreSound
PROPERTIES
    LinesAreTheText
    AcknowledgedIsDone
