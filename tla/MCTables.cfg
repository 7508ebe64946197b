SPECIFICATION TablesSpec
CONSTANTS
    k1 = k1
    k2 = k2
    k3 = k3
    k4 = k4
    nil = nil
    true = true
    false = false
    null = null
    one = one
    oneFloat = oneFloat
    two = two
    abc = abc
    xyz = xyz
    Keys <- MCKeys
    Texts <- MCTexts
    TextOf <- MCTextOf
    HashOf <- MCHashOf
    Values <- MCValues
    Nil = nil
    True = true
    NULL = null
    MaxCapacity = 8
    Truncated = FALSE
    KeyValues <- MCKeyValues
    Names <- MCNames
    NameOf <- MCNameOf
    HashValue <- MCHashValue
    ObjectValues <- MCObjectValues
    NilValue = nil
    FalseValue = false
    Absent = null
    InitialCapacity = 4
    CapacityBits <- MCCapacityBits
    MaxObjectCapacity = 8
INVARIANTS
    TypeOK
    ProbingEnds
    EveryEntryIsFound
    OnlyTombstonesHang
PROPERTIES
    RefinesDictionary
    GrowthReturns
    RefinesMap
CHECK_DEADLOCK FALSE
