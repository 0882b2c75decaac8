SPECIFICATION Spec
CONSTANTS
    Pages <- MCPages
    FixedTables = 6
    BssPages = 1
    GopModes <- MCModes
    MaxNeed = 4
    MaxEvents = 3
INVARIANTS
    BufferIsAllocated
CHECK_DEADLOCK FALSE
