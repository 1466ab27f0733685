---------------------------- MODULE MC_CpuTopology ----------------------------
(* Model values for checking CpuTopology with TLC.  MAX_CPUS is scaled     *)
(* down from 32 so that machines with more CPUs than the bitset holds stay *)
(* small.                                                                  *)
EXTENDS CpuTopology

\* CPU counts: one below the bitset width and two past it (4 for the
\* pair layouts, whose siblings then lie past the width).
MCCpuCounts == {2, 4}

\* CPUID 0x1A core types: none (no leaf or not hybrid), Atom, Core.
MCCoreBytes == {0, 32, 64}

\* Two L3 sizes and a missing file.
MCCacheKiB == {NoFile, 512, 1024}

\* ARM capacities: absent, little (below 75% of 1024), exactly 75%, big.
MCCapacities == {NoFile, 512, 768, 1024}

\* One L3/L2 size and a missing file, so that ARM falls back to the L2.
MCCacheKiBArm == {NoFile, 512}

\* Fewer machines for the two-thread run.
MCCapacitiesRace == {512, 1024}
MCCacheKiBRace == {512}
\* Both builds in one run: x86 with 2 and 4 CPUs, ARM with 3 (the largest
\* capacity may then belong to the CPU past the mask).
MCArchs == {"x86", "arm"}
MCCpuCountsOf == [a \in MCArchs |-> IF a = "arm" THEN {3} ELSE MCCpuCounts]
MCCacheKiBOf == [a \in MCArchs |-> IF a = "arm" THEN MCCacheKiBArm ELSE MCCacheKiB]

\* Single-build instances of the two violation runs, on 2 CPUs.
MCArm == {"arm"}
MCX86 == {"x86"}
MCTwoCpus == [a \in MCArchs |-> {2}]
MCCacheKiBRaceOf == [a \in MCArchs |-> MCCacheKiBRace]
==============================================================================
