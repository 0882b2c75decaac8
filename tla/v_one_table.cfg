SPECIFICATION Spec
CONSTANTS
    Radix       = 6
    Giga        = 2
    BinaryPages = {4}
    MaxFaults   = 1
INVARIANTS
    OneTableIsEnough
