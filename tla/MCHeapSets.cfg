SPECIFICATION MemorySpec
CONSTANTS
    Parts = {"heap"}
    Procedures <- MCProcedures
    NULL = NULL
    SlabCapacity = 2
    MaxSlots = 4
    MaxStack = 2
    Kinds = {"set"}
    Texts = {"len", "x"}
    LibraryNames <- MCLibraryNames
INVARIANTS
    ReachableIsAllocated
CHECK_DEADLOCK FALSE
