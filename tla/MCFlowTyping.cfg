SPECIFICATION FlowSpec
CONSTANTS
    TypeRecords <- MCTypeRecords
    Values <- MCValues
    Locals = {"x"}
    Globals = {"y"}
    Outer = {}
    Texts = {"Int", "Nil", "Float"}
    Rank <- MCRank
    Annotations <- MCAnnotations
    Literals <- MCLiterals
    Idioms = {}
    MaxNest = 2
INVARIANTS
    FlowIsSound
    ValuesHaveTheirTypes
    OperandsAreWhatOpcodesRead
CHECK_DEADLOCK FALSE
