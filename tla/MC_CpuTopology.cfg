\* x86 and ARM builds, one thread, every machine of up to 4 CPUs (3 on ARM)
\* with a 2-bit mask.
CONSTANTS
    Archs <- MCArchs
    MaxCpus = 2
    CpuCounts <- MCCpuCountsOf
    CoreBytes <- MCCoreBytes
    Capacities <- MCCapacities
    CacheKiB <- MCCacheKiBOf
    Threads = {t1}
    CpusetLimited = FALSE
SPECIFICATION Spec
INVARIANTS
    TypeOK
    MasksPartitionCpus
    SmtMasksConsistent
    EfficiencyMaskMatchesHardware
    CacheGroupsMatchReference
