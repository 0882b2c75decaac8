SPECIFICATION Spec
CONSTANTS
    Formats <- MCFormats
    Args <- MCArgs
    Strings <- MCStrings
    Bits <- MCBits
INVARIANTS
    PointersInUpperCase
CHECK_DEADLOCK FALSE
