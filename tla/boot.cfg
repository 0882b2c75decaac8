SPECIFICATION FairSpec
CONSTANTS
    Pages <- MCPages
    FixedTables = 6
    BssPages = 1
    GopModes <- MCModes
    MaxNeed = 4
    MaxEvents = 3
INVARIANTS
    TypeOK
    ExitIsFinal
    MapFitsBuffer
    NoMapLeaked
    BuffersApart
PROPERTIES
    BootEnds
CHECK_DEADLOCK FALSE
