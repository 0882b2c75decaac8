SPECIFICATION FairSpec
CONSTANTS
    Rates      <- MCRates
    WallClocks <- MCWallClocks
    MaxUpdates <- OneUpdate
    Versions   = 4
    MaxTsc     = 4
    EarlyTsc   = 1
    Secs       = 1
    NsecPerSec = 2
    Unit       = 2
    Word       = 1024
INVARIANTS
    TypeOK
    ReadIsCurrent
    WallClockWhole
    WaitIsLongEnough
PROPERTIES
    WaitReturns
