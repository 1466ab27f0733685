----------------------------- MODULE CpuTopology -----------------------------
(***************************************************************************)
(* Model of the Linux CPU-topology probe                                  *)
(* (src/rts/System/Platform/Linux/CpuTopology.cpp).                       *)
(*                                                                         *)
(* GetProcessorMasks() walks the logical CPUs up to the std::bitset width *)
(* MAX_CPUS and sorts them into efficiency/performance masks (by CPUID    *)
(* leaf 0x1A on Intel, by sysfs cpu_capacity on ARM, all performance on   *)
(* AMD) and into low/high hyper-thread masks (by thread_siblings_list).   *)
(* GetProcessorCache() groups the same CPUs by their L3 (ARM: else L2)    *)
(* cache size.                                                             *)
(*                                                                         *)
(* The machine (the sysfs files and what CPUID reports) is fixed for a    *)
(* behaviour and chosen by Init from small sets.  Threads call the two    *)
(* functions; the only state they share is the function-static           *)
(* max_capacity / capacity_initialized pair of get_arm_core_type, so the  *)
(* ARM initialisation loop is split into its read and its write.          *)
(***************************************************************************)
EXTENDS Integers, Sequences, SequencesExt, Bitwise

CONSTANTS
    Archs,          \* builds checked, of "x86" and "arm" (the halves of the #if)
    MaxCpus,        \* MAX_CPUS, the width of the std::bitset masks
    CpuCounts,      \* per build: values sysconf(_SC_NPROCESSORS_CONF) may return
    CoreBytes,      \* core-type byte of CPUID leaf 0x1A (eax >> 24) on Intel
    Capacities,     \* contents of cpuN/cpu_capacity on ARM (NoFile: absent)
    CacheKiB,       \* per build: cache/indexK/size as sysfs prints it, "<n>K" (NoFile: absent)
    Threads,        \* threads calling into cpu_topology
    CpusetLimited   \* whether the process cpuset may exclude CPUs

NoFile == -1

ASSUME /\ Archs \subseteq {"x86", "arm"}
       /\ MaxCpus \in 1..32
       /\ \A a \in Archs : CpuCounts[a] \subseteq 1..64
       /\ CoreBytes \subseteq 0..255
       /\ \A x \in Capacities : x = NoFile \/ (x \in Nat /\ x < 2^20)
       \* so that KiB * 1024 stays below 2^31
       /\ \A a \in Archs : \A x \in CacheKiB[a] : x = NoFile \/ (x \in Nat /\ x < 2^20)
       /\ CpusetLimited \in BOOLEAN

Min2(a, b) == IF a < b THEN a ELSE b

\* detect_cpu_vendor: CPUID leaf 0 on x86, a constant on ARM.
VendorsOf(a) == IF a = "arm" THEN {"arm"} ELSE {"intel", "amd", "unknown"}

Vendors == UNION {VendorsOf(a) : a \in Archs}


Cpus(n) == 0 .. n - 1

(***************************************************************************)
(* thread_siblings_list as the kernel prints it: a list of ranges, "a-b"  *)
(* for consecutive siblings, "a,b" otherwise.  The patterns are the       *)
(* layouts Linux reports: no SMT, no file, adjacent pairs (0-1), pairs    *)
(* split by n/2 (0,2) and 4-way SMT (0-3).                                 *)
(***************************************************************************)
SiblingPatterns == {"none", "missing", "pairs", "split", "quad"}

PatternFits(p, n) ==
    CASE p \in {"none", "missing"} -> TRUE
      [] p \in {"pairs", "split"}  -> n % 2 = 0
      [] p = "quad"                -> n % 4 = 0

SiblingRanges(p, n, c) ==
    CASE p = "none"    -> << <<c, c>> >>
      [] p = "missing" -> << >>
      [] p = "pairs"   -> << <<2 * (c \div 2), 2 * (c \div 2) + 1>> >>
      [] p = "split"   -> LET lo == c % (n \div 2)
                          IN << <<lo, lo>>, <<lo + n \div 2, lo + n \div 2>> >>
      [] p = "quad"    -> << <<4 * (c \div 4), 4 * (c \div 4) + 3>> >>

\* get_thread_siblings: `ss >> sibling` then `ss >> sep` skips one
\* character, so "a-b" yields a and b (not the CPUs between) and "a" yields a.
ParseSiblings(ranges) ==
    FlattenSeq([k \in DOMAIN ranges |->
                    IF ranges[k][1] = ranges[k][2] THEN <<ranges[k][1]>>
                                                   ELSE ranges[k]])

VARIABLES
    hw,                   \* the machine: CPU count, vendor, sysfs contents, cpuset
    maxCapacity,          \* static uint32_t max_capacity (get_arm_core_type)
    capacityInitialized,  \* static bool capacity_initialized
    pc,                   \* per thread: idle, masks, init, initwrite, done
    call,                 \* per thread: which function it called
    cpu,                  \* per thread: loop index of the collect_*_affinity_masks loop
    i,                    \* per thread: loop index of the max_capacity loop
    masks,                \* per thread: the four std::bitset locals
    affinity,             \* per thread: its CPU affinity mask
    out,                  \* per thread: the ProcessorMasks GetProcessorMasks returned
    caches                \* per thread: the groupCaches GetProcessorCache returned

vars == <<hw, maxCapacity, capacityInitialized, pc, call, cpu, i, masks,
          affinity, out, caches>>

\* The CPUs the loops handle: the rest are skipped with a warning.
Handled == Cpus(Min2(hw.n, MaxCpus))

Siblings(c) == ParseSiblings(SiblingRanges(hw.sib, hw.n, c))

\* read_sysfs_value<uint32_t>(path, 0): the file's value, 0 if it is absent.
CapRead(c) == IF hw.cap[c] = NoFile THEN 0 ELSE hw.cap[c]

NoMasks == [eff |-> {}, perf |-> {}, low |-> {}, high |-> {}]

(***************************************************************************)
(* Core types.                                                             *)
(***************************************************************************)

\* get_intel_core_type without the 0x20 test: every non-Core type is an E-core.
IntelCoreTypeNoAtomTest(byte) ==
    IF (byte & 64) # 0 THEN "perf" ELSE "eff"

\* get_intel_core_type: bit 0x40 of the core-type byte is a Core (P) CPU,
\* bit 0x20 an Atom (E) CPU.  A CPU without leaf 0x1A reports byte 0.
IntelCoreType(byte) ==
    IF (byte & 64) # 0 THEN "perf"
    ELSE IF (byte & 32) # 0 THEN "eff"
    ELSE "unknown"

\* collect_intel_affinity_masks without its default for CORE_UNKNOWN.
IntelMaskTypeNoDefault(byte) == IntelCoreType(byte)

\* collect_intel_affinity_masks: CORE_UNKNOWN defaults to a performance core.
IntelMaskType(byte) ==
    LET ty == IntelCoreType(byte) IN IF ty = "unknown" THEN "perf" ELSE ty

\* get_arm_core_type with the max_capacity the thread reads: below
\* max_capacity * 3 / 4 (uint32 arithmetic) is an efficiency core; a
\* missing file or a zero capacity or maximum is a performance core.
ArmCoreType(c, maxCap) ==
    IF hw.cap[c] # NoFile /\ CapRead(c) > 0 /\ maxCap > 0
                          /\ CapRead(c) < (maxCap * 3) \div 4
    THEN "eff" ELSE "perf"

\* get_arm_core_type has to run the max_capacity loop first.
ArmNeedsInit(c) == hw.cap[c] # NoFile /\ ~capacityInitialized

\* The eff_mask.set / perf_mask.set of the collect loops.
SetCoreMask(m, c, ty) ==
    [m EXCEPT !.eff  = IF ty = "eff"  THEN @ \cup {c} ELSE @,
              !.perf = IF ty = "perf" THEN @ \cup {c} ELSE @]

\* collect_smt_affinity_masks taking the highest sibling as the low one.
SmtLowSiblingMax(sibs) == Max(ToSet(sibs))

\* collect_smt_affinity_masks: the lowest listed sibling is the low thread.
SmtLowSibling(sibs) == Min(ToSet(sibs))

\* collect_smt_affinity_masks: with more than one sibling the CPU goes to
\* the low mask if it is the lowest of them, else to the high mask.
CollectSmt(m, c) ==
    LET sibs == Siblings(c) IN
    IF Len(sibs) <= 1 THEN m
    ELSE IF c = SmtLowSibling(sibs) THEN [m EXCEPT !.low = @ \cup {c}]
    ELSE [m EXCEPT !.high = @ \cup {c}]

\* set_cpu_affinity: pthread_setaffinity_np fails for a CPU outside the
\* cpuset; the failure is only reported and the mask stays as it was.
SetAffinity(aff, c) == IF c \in hw.allowed THEN {c} ELSE aff

(***************************************************************************)
(* The machine.                                                            *)
(***************************************************************************)
CoreByteChoices(n, v) ==
    IF v = "intel" THEN [Cpus(n) -> CoreBytes] ELSE {[c \in Cpus(n) |-> 0]}
CapChoices(n, a) ==
    IF a = "arm" THEN [Cpus(n) -> Capacities] ELSE {[c \in Cpus(n) |-> NoFile]}
L2Choices(n, a) ==
    IF a = "arm" THEN [Cpus(n) -> CacheKiB[a]] ELSE {[c \in Cpus(n) |-> NoFile]}
CpusetChoices(n) ==
    IF CpusetLimited THEN (SUBSET Cpus(n)) \ {{}} ELSE {Cpus(n)}

\* The machine a behaviour runs on: any CPU count, vendor, sibling layout
\* and sysfs/CPUID contents of the constants.
InitMachine ==
    \E ar \in Archs : \E n \in CpuCounts[ar], v \in VendorsOf(ar) :
    \E p \in {q \in SiblingPatterns : PatternFits(q, n)} :
    \E cb \in CoreByteChoices(n, v), cp \in CapChoices(n, ar),
      l3 \in [Cpus(n) -> CacheKiB[ar]], l2 \in L2Choices(n, ar), a \in CpusetChoices(n) :
        hw = [n |-> n, vendor |-> v, sib |-> p, coreByte |-> cb, cap |-> cp,
              l3 |-> l3, l2 |-> l2, allowed |-> a]

(***************************************************************************)
(* GetProcessorCache.                                                      *)
(***************************************************************************)

\* The ARM half of the #if was compiled for this machine.
IsArm == hw.vendor = "arm"

\* get_thread_cache (x86): `ss >> sizeInBytes` on "<n>K" stops at the K,
\* so the value is in KiB; 0 without the file.
X86ThreadCache(c) == IF hw.l3[c] = NoFile THEN 0 ELSE hw.l3[c]

\* get_thread_cache (ARM): the L3 size in bytes, else the L2 size.
ArmThreadCache(c) ==
    LET l3 == IF hw.l3[c] = NoFile THEN 0 ELSE hw.l3[c] * 1024
    IN IF l3 # 0 THEN l3
       ELSE IF hw.l2[c] = NoFile THEN 0 ELSE hw.l2[c] * 1024

ThreadCache(c) == IF IsArm THEN ArmThreadCache(c) ELSE X86ThreadCache(c)

\* get_group_cache without the find_if: every CPU opens a new group.
GetGroupCacheAlwaysNew(groups, size) ==
    [groups |-> Append(groups, [size |-> size, mask |-> {}]),
     idx    |-> Len(groups) + 1]

\* get_group_cache: the first group with this L3 size, else a new one.
GetGroupCache(groups, size) ==
    LET found == {k \in DOMAIN groups : groups[k].size = size} IN
    IF found = {}
    THEN [groups |-> Append(groups, [size |-> size, mask |-> {}]),
          idx    |-> Len(groups) + 1]
    ELSE [groups |-> groups, idx |-> Min(found)]

\* The loop of GetProcessorCache without the MAX_CPUS `continue`.
RECURSIVE CacheLoopNoSkip(_, _)
CacheLoopNoSkip(c, groups) ==
    IF c >= hw.n THEN groups
    ELSE LET g == GetGroupCache(groups, ThreadCache(c))
         IN CacheLoopNoSkip(c + 1, [g.groups EXCEPT ![g.idx].mask = @ \cup {c}])

\* The loop of GetProcessorCache.  `groupMask |= (0x1 << cpu)` sets bit
\* cpu: for cpu = 31 the int shift gives INT_MIN (defined since C++20),
\* which converts to bit 31 of the uint32 mask.
RECURSIVE CacheLoop(_, _)
CacheLoop(c, groups) ==
    IF c >= hw.n THEN groups
    ELSE IF c >= MaxCpus THEN CacheLoop(c + 1, groups)
    ELSE LET g == GetGroupCache(groups, ThreadCache(c))
         IN CacheLoop(c + 1, [g.groups EXCEPT ![g.idx].mask = @ \cup {c}])

ProcessorCacheGroups == CacheLoop(0, << >>)

(***************************************************************************)
(* The specification.                                                      *)
(***************************************************************************)
Init ==
    /\ InitMachine
    /\ maxCapacity = 0
    /\ capacityInitialized = FALSE
    /\ pc = [t \in Threads |-> "idle"]
    /\ call = [t \in Threads |-> "none"]
    /\ cpu = [t \in Threads |-> 0]
    /\ i = [t \in Threads |-> 0]
    /\ masks = [t \in Threads |-> NoMasks]
    /\ affinity = [t \in Threads |-> hw.allowed]
    /\ out = [t \in Threads |-> NoMasks]
    /\ caches = [t \in Threads |-> << >>]

\* GetProcessorMasks up to its loop: the ThreadAffinityGuard saves the
\* affinity, the masks start empty, detect_cpu_vendor picks the collector.
CallMasks(t) ==
    /\ pc[t] = "idle"
    /\ pc' = [pc EXCEPT ![t] = "masks"]
    /\ call' = [call EXCEPT ![t] = "masks"]
    /\ cpu' = [cpu EXCEPT ![t] = 0]
    /\ masks' = [masks EXCEPT ![t] = NoMasks]
    /\ UNCHANGED <<hw, maxCapacity, capacityInitialized, i, affinity, out, caches>>

\* The body of a collect loop runs for a CPU below the bitset width.
LoopBody(t) ==
    /\ pc[t] = "masks"
    /\ cpu[t] < hw.n
    /\ cpu[t] < MaxCpus

\* A CPU at or past MAX_CPUS is skipped with a warning.
SkipCpu(t) ==
    /\ pc[t] = "masks"
    /\ hw.vendor # "unknown"
    /\ MaxCpus <= cpu[t] /\ cpu[t] < hw.n
    /\ cpu' = [cpu EXCEPT ![t] = @ + 1]
    /\ UNCHANGED <<hw, maxCapacity, capacityInitialized, pc, call, i, masks,
                   affinity, out, caches>>

\* One iteration of collect_intel_affinity_masks: pin the thread to the CPU,
\* read CPUID 0x1A on whichever CPU it then runs on, set the masks.
ClassifyIntel(t) ==
    LET c   == cpu[t]
        aff == SetAffinity(affinity[t], c)
    IN /\ hw.vendor = "intel"
       /\ LoopBody(t)
       /\ affinity' = [affinity EXCEPT ![t] = aff]
       /\ \E r \in aff :
            masks' = [masks EXCEPT ![t] =
                        CollectSmt(SetCoreMask(@, c, IntelMaskType(hw.coreByte[r])), c)]
       /\ cpu' = [cpu EXCEPT ![t] = c + 1]
       /\ UNCHANGED <<hw, maxCapacity, capacityInitialized, pc, call, i, out, caches>>

\* One iteration of collect_amd_affinity_masks: every CPU is a performance core.
ClassifyAmd(t) ==
    LET c == cpu[t] IN
    /\ hw.vendor = "amd"
    /\ LoopBody(t)
    /\ masks' = [masks EXCEPT ![t] = CollectSmt(SetCoreMask(@, c, "perf"), c)]
    /\ cpu' = [cpu EXCEPT ![t] = c + 1]
    /\ UNCHANGED <<hw, maxCapacity, capacityInitialized, pc, call, i, affinity,
                   out, caches>>

\* One iteration of collect_arm_affinity_masks once max_capacity is known
\* (or not needed): classify with the max_capacity read now.
ClassifyArm(t) ==
    LET c == cpu[t] IN
    /\ hw.vendor = "arm"
    /\ LoopBody(t)
    /\ ~ArmNeedsInit(c)
    /\ masks' = [masks EXCEPT ![t] =
                    CollectSmt(SetCoreMask(@, c, ArmCoreType(c, maxCapacity)), c)]
    /\ cpu' = [cpu EXCEPT ![t] = c + 1]
    /\ UNCHANGED <<hw, maxCapacity, capacityInitialized, pc, call, i, affinity,
                   out, caches>>

\* get_arm_core_type finds capacity_initialized false: start the loop.
InitStart(t) ==
    /\ hw.vendor = "arm"
    /\ LoopBody(t)
    /\ ArmNeedsInit(cpu[t])
    /\ pc' = [pc EXCEPT ![t] = "init"]
    /\ i' = [i EXCEPT ![t] = 0]
    /\ UNCHANGED <<hw, maxCapacity, capacityInitialized, call, cpu, masks,
                   affinity, out, caches>>

\* The max_capacity loop bounded by the bitset width instead of num_cpus.
InitBoundBitset == Min2(hw.n, MaxCpus)

\* The max_capacity loop runs over every CPU get_cpu_count reports.
InitBound == hw.n

\* `if (cap > max_capacity)` is false: next CPU.
InitKeep(t) ==
    /\ pc[t] = "init"
    /\ i[t] < InitBound
    /\ ~(CapRead(i[t]) > maxCapacity)
    /\ i' = [i EXCEPT ![t] = @ + 1]
    /\ UNCHANGED <<hw, maxCapacity, capacityInitialized, pc, call, cpu, masks,
                   affinity, out, caches>>

\* `if (cap > max_capacity)` is true; the store comes in a later step.
InitRaise(t) ==
    /\ pc[t] = "init"
    /\ i[t] < InitBound
    /\ CapRead(i[t]) > maxCapacity
    /\ pc' = [pc EXCEPT ![t] = "initwrite"]
    /\ UNCHANGED <<hw, maxCapacity, capacityInitialized, call, cpu, i, masks,
                   affinity, out, caches>>

\* `max_capacity = cap`, with the cap the thread read.
InitWrite(t) ==
    /\ pc[t] = "initwrite"
    /\ maxCapacity' = CapRead(i[t])
    /\ i' = [i EXCEPT ![t] = @ + 1]
    /\ pc' = [pc EXCEPT ![t] = "init"]
    /\ UNCHANGED <<hw, capacityInitialized, call, cpu, masks, affinity, out, caches>>

\* The loop ends: `capacity_initialized = true`, back to classifying.
InitEnd(t) ==
    /\ pc[t] = "init"
    /\ i[t] >= InitBound
    /\ capacityInitialized' = TRUE
    /\ pc' = [pc EXCEPT ![t] = "masks"]
    /\ UNCHANGED <<hw, maxCapacity, call, cpu, i, masks, affinity, out, caches>>

\* The loop is over (or the vendor is unknown): the masks are returned via
\* to_ulong and the ThreadAffinityGuard restores the affinity.
ReturnMasks(t) ==
    /\ pc[t] = "masks"
    /\ hw.vendor = "unknown" \/ cpu[t] >= hw.n
    /\ pc' = [pc EXCEPT ![t] = "done"]
    /\ out' = [out EXCEPT ![t] = masks[t]]
    /\ affinity' = [affinity EXCEPT ![t] = hw.allowed]
    /\ UNCHANGED <<hw, maxCapacity, capacityInitialized, call, cpu, i, masks, caches>>

\* GetProcessorCache: one call touches no shared state.
CallCaches(t) ==
    /\ pc[t] = "idle"
    /\ pc' = [pc EXCEPT ![t] = "done"]
    /\ call' = [call EXCEPT ![t] = "caches"]
    /\ caches' = [caches EXCEPT ![t] = ProcessorCacheGroups]
    /\ UNCHANGED <<hw, maxCapacity, capacityInitialized, cpu, i, masks, affinity, out>>

\* Every thread has returned.
Terminated ==
    /\ \A t \in Threads : pc[t] = "done"
    /\ UNCHANGED vars

Next ==
    \/ \E t \in Threads :
         \/ CallMasks(t) \/ SkipCpu(t) \/ ClassifyIntel(t) \/ ClassifyAmd(t)
         \/ ClassifyArm(t) \/ InitStart(t) \/ InitKeep(t) \/ InitRaise(t)
         \/ InitWrite(t) \/ InitEnd(t) \/ ReturnMasks(t) \/ CallCaches(t)
    \/ Terminated

Spec == Init /\ [][Next]_vars

(***************************************************************************)
(* Properties.                                                             *)
(***************************************************************************)
MaskSets == [eff : SUBSET Cpus(MaxCpus), perf : SUBSET Cpus(MaxCpus),
             low : SUBSET Cpus(MaxCpus), high : SUBSET Cpus(MaxCpus)]

TypeOK ==
    /\ hw.vendor \in Vendors /\ hw.n \in UNION {CpuCounts[a] : a \in Archs} /\ hw.allowed # {}
    /\ maxCapacity \in {0} \cup {CapRead(c) : c \in Cpus(hw.n)}
    /\ capacityInitialized \in BOOLEAN
    /\ pc \in [Threads -> {"idle", "masks", "init", "initwrite", "done"}]
    /\ call \in [Threads -> {"none", "masks", "caches"}]
    /\ cpu \in [Threads -> 0 .. hw.n]
    /\ i \in [Threads -> 0 .. hw.n]
    /\ masks \in [Threads -> MaskSets]
    /\ out \in [Threads -> MaskSets]
    /\ affinity \in [Threads -> SUBSET Cpus(hw.n)]
    /\ \A t \in Threads : \A k \in DOMAIN caches[t] : caches[t][k].mask \subseteq Handled

Returned(t, f) == pc[t] = "done" /\ call[t] = f

\* Every CPU GetProcessorMasks handles ends up in exactly one of the
\* efficiency and performance masks (none for an unknown vendor), whatever
\* CPUID or sysfs report for it.
MasksPartitionCpus ==
    \A t \in Threads : Returned(t, "masks") =>
        IF hw.vendor = "unknown" THEN out[t] = NoMasks
        ELSE /\ out[t].eff \cup out[t].perf = Handled
             /\ out[t].eff \cap out[t].perf = {}

\* The hyper-thread masks of GetProcessorMasks: exactly the handled CPUs
\* with SMT siblings are in the low or the high mask, never both, and every
\* CPU in the high mask has a sibling in the low mask, also when its
\* siblings lie past MAX_CPUS.
SmtMasksConsistent ==
    \A t \in Threads : Returned(t, "masks") /\ hw.vendor # "unknown" =>
        LET m == out[t] IN
        /\ m.low \cup m.high = {c \in Handled : Len(Siblings(c)) > 1}
        /\ m.low \cap m.high = {}
        /\ \A c \in m.high : \E l \in m.low : l \in ToSet(Siblings(c))

\* What the hardware says an efficiency core is: an Atom core type on
\* Intel; on ARM a capacity below 75% of the largest capacity of all CPUs
\* (the comments of get_arm_core_type).
IsEfficiencyCore(c) ==
    CASE hw.vendor = "intel" -> hw.coreByte[c] = 32
      [] hw.vendor = "arm"   ->
           /\ CapRead(c) > 0
           /\ 4 * CapRead(c) < 3 * Max({CapRead(d) : d \in Cpus(hw.n)})
      [] OTHER               -> FALSE

\* GetProcessorMasks puts exactly the efficiency cores in the efficiency
\* mask: the CPUID read of each CPU happens on that CPU, and every thread
\* classifies with the maximum capacity of all CPUs.
EfficiencyMaskMatchesHardware ==
    \A t \in Threads : Returned(t, "masks") =>
        out[t].eff = {c \in Handled : IsEfficiencyCore(c)}

\* GetProcessorCache returns one group per distinct cache size, in the
\* order of the first CPU with that size, each holding exactly the handled
\* CPUs of that size.
CacheGroupsMatchReference ==
    \A t \in Threads : Returned(t, "caches") =>
        LET g     == caches[t]
            sizes == {ThreadCache(c) : c \in Handled}
        IN /\ Len(g) = Cardinality(sizes)
           /\ {g[k].size : k \in DOMAIN g} = sizes
           /\ \A k \in DOMAIN g :
                g[k].mask = {c \in Handled : ThreadCache(c) = g[k].size}
           /\ \A k, j \in DOMAIN g :
                k < j => Min(g[k].mask) < Min(g[j].mask)

==============================================================================
