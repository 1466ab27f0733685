\* Every build, __SUPPORT_SNAN__ in the x87 one, all with STREFLOP_NO_DENORMALS:
\* each implements FPEnv, keeps the bits it does not own, and (except NEON,
\* see MC_NeonInitRounding) keeps the rounding mode across streflop_init.
CONSTANTS
    Builds <- MCBuilds
    SupportSnan <- MCSnanOf
    NoDenormals = TRUE
    ExceptSets <- MCExceptSetsOf
    RoundInputs <- MCRoundInputsOf
    InitTypes <- MCInitTypesOf
    BootX87 <- MCBootX87IC
    BootFpcr <- MCBootFpcr
    Tininess <- MCTininess
    NoEnv = NoEnv
SPECIFICATION Spec
INVARIANTS TypeOK ForeignBitsPreserved InitKeepsRounding X87NoPendingTrap
PROPERTY ImplementsFPEnv
