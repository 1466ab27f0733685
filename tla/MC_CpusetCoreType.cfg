\* x86 build, one thread, in a cpuset that may exclude CPUs.
CONSTANTS
    Archs <- MCX86
    MaxCpus = 2
    CpuCounts <- MCTwoCpus
    CoreBytes <- MCCoreBytes
    Capacities <- MCCapacities
    CacheKiB <- MCCacheKiBRaceOf
    Threads = {t1}
    CpusetLimited = TRUE
SPECIFICATION Spec
INVARIANT EfficiencyMaskMatchesHardware
