SPECIFICATION Spec
CONSTANTS
    Programs   <- UserPrograms
    UserSps    = {"u0", "u1"}
    InitUserSp = "u0"
    Vectors    = {32}
    XmmUsers   = {"pf"}
PROPERTIES
    VolatileRegistersRestored
