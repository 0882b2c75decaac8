SPECIFICATION Spec
CONSTANTS
    Radix       = 6
    Giga        = 2
    BinaryPages = {1, 2, 3}
    MaxFaults   = 2
INVARIANTS
    TypeOK
    KernelStaysMapped
    NoStrayTranslation
    AddressSpaceExact
    StoresInsideTables
