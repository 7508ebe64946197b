SPECIFICATION FairMemorySpec
CONSTANTS
    Parts = {"heap", "native"}
    Procedures <- MCProcedures
    NULL = NULL
    SlabCapacity = 2
    MaxSlots = 4
    MaxStack = 2
    Kinds = {"array"}
    Texts = {"len", "x"}
    LibraryNames <- MCLibraryNames
INVARIANTS
    HeapIsSound
    NativesAreSound
PROPERTIES
    CollectionIsExact
    CollectionEnds
CHECK_DEADLOCK FALSE
