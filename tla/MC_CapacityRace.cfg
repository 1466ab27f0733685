\* ARM build, two threads calling GetProcessorMasks at once.
CONSTANTS
    Archs <- MCArm
    MaxCpus = 2
    CpuCounts <- MCTwoCpus
    CoreBytes <- MCCoreBytes
    Capacities <- MCCapacitiesRace
    CacheKiB <- MCCacheKiBRaceOf
    Threads = {t1, t2}
    CpusetLimited = FALSE
SPECIFICATION Spec
INVARIANT EfficiencyMaskMatchesHardware
