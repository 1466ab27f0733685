\* NEON streflop_init resets the rounding mode that x87, SSE and SoftFloat keep.
CONSTANTS
    Builds <- MCNeon
    SupportSnan <- MCNoSnan
    NoDenormals = TRUE
    ExceptSets <- MCNeonExcept
    RoundInputs <- MCNeonRound
    InitTypes <- MCNeonInit
    BootX87 <- MCBootX87
    BootFpcr <- MCBootFpcr
    Tininess <- MCTininess
    NoEnv = NoEnv
SPECIFICATION Spec
INVARIANT InitKeepsRounding
