SPECIFICATION CollectionsSpec
CONSTANTS
    Sortables <- MCSortables
    NaN <- NotANumber
    MaxLength = 4
    Elements <- MCElements
    Falsy <- MCFalsy
    Failures = {error}
    Positions <- MCPositions
    Literals <- MCLiterals
    Nil = Nil
    MinCapacity = 1
    MaxCapacity = 2
    SizeBound = 3
    Middle = FALSE
    a = a
    error = error
    Span = 16
    Wide = FALSE
    Remainders = FALSE
    Sizes <- MCSizes
    Base = 2
    Newline = 1
    BufferTexts <- MCTexts
    IntWidths <- MCIntWidths
    FloatWidths <- MCFloatWidths
    IntSize = 3
    BytesAsked <- MCAsked
    Word = 8
    InitialCapacity = 2
    MinGrowth = 2
    Junk = Junk
    Huge = FALSE
VIEW Read
INVARIANTS
    ArraysAreSound
    BufferIsSound
    RangesAreTheirElements
    SortSorts
PROPERTIES
    RefinesList
    BuffersAreQueues
CHECK_DEADLOCK FALSE
