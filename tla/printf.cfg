SPECIFICATION Spec
CONSTANTS
    Formats <- MCFormats
    Args <- MCArgs
    Strings <- MCStrings
    Bits <- MCBits
INVARIANTS
    ConvertsAsListed
    OverrunsAfterFlags
    SnprintfFits
CHECK_DEADLOCK FALSE
