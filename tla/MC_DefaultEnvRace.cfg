\* SSE build, two threads: the first fegetenv / fesetenv of each race on
\* the lazy capture of FE_DFL_ENV.
CONSTANTS
    Builds <- MCSse
    SupportSnan <- MCNoSnan
    NoDenormals = FALSE
    ExceptSets <- MCNoExcept
    RoundInputs <- MCRoundUp
    InitTypes <- MCNoInit
    BootX87 <- MCBootX87
    BootFpcr <- MCBootFpcr
    Tininess <- MCTininess
    NoEnv = NoEnv
    Threads = {t1, t2}
SPECIFICATION TSpec
PROPERTY DefaultEnvPermanent
