SPECIFICATION TypesSpec
CONSTANTS
    Parts = {"syntax", "match", "number", "matrix"}
    TypeRecords <- MCTypeRecords
    Values <- MCValues
    Names <- MCNames
    Sources <- MCSources
    Written <- MCWritten
    Matrices = FALSE
    Tails = FALSE
    MaxTokens = 4
    Rank <- MCRank
    Targets <- MCTargets
    Given <- MCGiven
    MatchIdioms = {}
    Width = 4
    WrittenInts <- MCWrittenInts
    Fractions <- MCFractions
    Magnitude = 14
    MaxExponent = 3
    Promotions = FALSE
    MatrixIdioms = {}
    Misdeclared = {"copy", "equals", "row", "col"}
VIEW Read
INVARIANTS
    AnnotationsAreRead
    PartsAreProtected
    SomeArmIsTaken
    ResultHasItsType
    IntegerLaws
PROPERTIES
    ResultsAreExact
    MatricesAnswerRight
CHECK_DEADLOCK FALSE
