SPECIFICATION Spec
CONSTANTS
    Width = 5
    Height = 10
    FontW = 2
    FontH = 3
    Printable = {"a", "b", "?"}
    Behind = 6
INVARIANTS
    TypeOK
    ScreenClean
PROPERTIES
    TerminalSpec
