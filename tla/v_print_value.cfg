SPECIFICATION Spec
CONSTANTS
    Formats <- MCFormats
    Args <- MCArgs
    Strings <- MCStrings
    Bits <- MCBits
INVARIANTS
    ValuePrintedAsIs
CHECK_DEADLOCK FALSE
