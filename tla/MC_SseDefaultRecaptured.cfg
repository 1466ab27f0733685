\* SSE: an MXCSR of zero at the first fegetenv is captured again later.
CONSTANTS
    Builds <- MCSse
    SupportSnan <- MCNoSnan
    NoDenormals = FALSE
    ExceptSets <- MCSseExcept
    RoundInputs <- MCSseRound
    InitTypes <- MCSseInit
    BootX87 <- MCBootX87IC
    BootFpcr <- MCBootFpcr
    Tininess <- MCTininess
    NoEnv = NoEnv
SPECIFICATION Spec
PROPERTY ImplementsFPEnv
