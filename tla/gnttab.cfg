SPECIFICATION FairSpec
CONSTANTS
    d1 = d1
    d2 = d2
    f1 = f1
    m1 = m1
    m2 = m2
    NrEntries  = 4
    NrReserved = 2
    Doms   = {d1, d2}
    Frames = {f1}
    Moved  = {m1, m2}
    MaxGrants = 2
INVARIANTS
    TypeOK
    FreeListExact
    MapsAsGranted
PROPERTIES
    GrantsSpec
    AccessCallsReturn
