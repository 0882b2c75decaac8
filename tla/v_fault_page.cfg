SPECIFICATION Spec
CONSTANTS
    Programs   <- SanePrograms
    UserSps    = {"u0", "u1"}
    InitUserSp = "u0"
    Vectors    = {32}
    XmmUsers   = {"pf"}
INVARIANTS
    FaultMapsAccessedPage
