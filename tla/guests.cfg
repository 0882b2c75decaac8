SPECIFICATION Spec
CONSTANTS
    Machines <- MCMachines
    Leaves     = 3
    Word       = 8
    NrEntries  = 4
    NrReserved = 2
INVARIANTS
    MessageWhole
    AstrayOnlyWithoutPage
PROPERTIES
    LateReaderMaps
