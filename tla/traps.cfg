SPECIFICATION FairSpec
CONSTANTS
    Programs   <- AllPrograms
    UserSps    = {"u0", "u1"}
    InitUserSp = "u0"
    Vectors    = {32}
    XmmUsers   = {"pf"}
INVARIANTS
    TypeOK
    NoTrapBeforeItsGate
    IretFrameOnTop
    NothingLeftBehind
    KernelKeepsOffUserStack
    NestingBounded
    FbOutputExclusive
PROPERTIES
    UserViewFairSpec
    UserResumes
    TickServiced
