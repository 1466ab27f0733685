# TLA+ models of the RecoilEngine excerpt

This directory holds TLA+ models of the code under `src/` and the TLC
configurations that check them. `PROJECT.json` lists the components, the runs,
the mutants that validate each property, the source lines each definition
models (`map`), the findings and the hazards.

## 1. Inventory

### Components

| Component | Source | State | Operations |
|---|---|---|---|
| Entry registry | `IAtlasAllocator` (header not in the excerpt) | `entries`: name -> size and texCoords; `minDim`, `numLevels`, `maxsize` | `AddEntry` (add or replace) |
| Capacity Estimator | `RowAtlasAlloc.cpp` `EstimateNeededSize` (31-58) | `atlasSize`; the locals `spaceFree`, `spaceNeeded` | one growth loop |
| Row Store | `AddRow` (61-81) | `imageRows` (position, height, used width), `nextRowPos` | growth loop, then append a row or return `nullptr` |
| Row Finder | `FindRow` (147-174) | none of its own; reads `imageRows`, `atlasSize` | best-fit scan, then `AddRow` |
| Allocation Driver | `Allocate` (84-135), `CompareTex` (12-28), `GetNumTexLevels` (137-144) | `success`, `memtextures`, `padding` | one synchronous pass |
| CPU topology | `System/Platform/Linux/CpuTopology.cpp` | per-call bitsets `eff/perf/low_ht/high_ht`, `ProcessorCaches.groupCaches`; a function-static `max_capacity` (ARM) | `GetProcessorMasks`, `GetProcessorCache`, `GetThreadPinPolicy` |
| FPU environment | `lib/streflop/FPUSettings.h` | the x87 control word, the SSE MXCSR, the NEON FPCR or SoftFloat's globals; `FE_DFL_ENV` | `feraiseexcept`, `feclearexcept`, `fegetround`, `fesetround`, `fegetenv`, `fesetenv`, `feholdexcept`, `streflop_init<T>` |
| SIMD shim | `System/simd_compat.h` | none | none (includes headers) |

### How the parts interact

The atlas allocator is a single object that is called by one thread.
`AddEntry` only writes the registry. `Allocate()` then runs one pass:

1. It rounds the height up with `bit_ceil`.
2. It calls `EstimateNeededSize`, which may double either axis.
3. It sorts the names with a `std::set`, then `stable_sort`s them with `CompareTex`.
4. It computes the padding from `GetNumTexLevels`.
5. It calls `FindRow` for each entry. `FindRow` scans the rows and falls back to `AddRow`, which may double both axes or fail.
6. It clamps the height to `nextRowPos`.

The rows live as long as the allocator. A second `Allocate()` call places every
entry again, after the rows of the first call. The CPU-topology and FPU code do
not interact with the allocator. They are thin layers over `sysfs`, `CPUID`,
`sched_setaffinity` and the FPU control registers.

### What is hard

The allocator runs on one thread, so it has no concurrency. Its hard
behaviour comes from sequences of calls and from numeric edges:

- The atlas grows in two places (the estimator and `AddRow`) under two
  different stop rules.
- Rows accumulate across passes.
- A failed `AddRow` leaves the atlas grown to the maximum, and the pass
  continues (partial failure).
- The estimator compares a float product; `FindRow` compares float ratios.
- The placement order has to be deterministic.
- `bit_ceil` runs on a height that the previous pass clamped.

The hazards are listed at their lines in `PROJECT.json`.

### What makes each part correct

- **Estimator**: its running `spaceFree` is the true free area, and its loop
  terminates.
- **Row store**: rows are stacked from 0 without gaps, `nextRowPos` is their
  end, and they fit in the atlas. The atlas stays within `maxsize`.
- **Row finder**: it picks the best fit (least height, then least used width,
  then the first row).
- **Driver**:
  - The placement order is height, then width, then name, all descending.
  - Placed entries (padding included) are pairwise disjoint and inside the atlas.
  - Unplaced entries keep an unset rectangle.
  - Every call returns.
- **CPU topology**:
  - The efficiency and performance masks partition the CPUs below `MAX_CPUS`.
  - The efficiency mask holds exactly the efficiency cores.
  - Every CPU in the SMT high mask has a sibling in the low mask.
  - The cache groups partition the CPUs by cache size.
- **FPU** (section 5):
  - Every build does what the abstract API `FPEnv` says: `fesetround` changes
    only the rounding mode, and `fegetround` reads it back. `feraiseexcept`
    and `feclearexcept` enable and disable traps. `fegetenv`, `fesetenv` and
    `feholdexcept` save and restore the whole environment. `FE_DFL_ENV` is
    captured once.
  - The bits the API does not own keep their boot value.
  - `streflop_init` switches precision and leaves the rounding mode alone.

## 2. Plan

Modules, in order of importance:

1. **`RowAtlasAlloc`** (done): the allocator.
   - `MC_RowAtlasAlloc` holds the model values.
   - The cfgs: `MC_RowAtlasAlloc.cfg` (safety and termination), plus four
     violation configs.
2. **`AtlasPacking`** (done, section 3): the abstract promise of one
   `Allocate()` call, refined by `RowAtlasAlloc` via `INSTANCE AtlasPacking
   WITH`, checked as a property of `atlas_safety`.
3. **`CpuTopology`** (done, section 4): the per-CPU loops of
   `collect_*_affinity_masks`, `collect_smt_affinity_masks`,
   `get_group_cache` and `GetProcessorCache`, with threads racing on the
   ARM statics.
4. **`FPUSettings`** (done, section 5): the control-word operations of each
   build (x87, SSE, NEON, soft), using `Bitwise` on the register words.
   - The abstract module `FPEnv` (rounding mode, trap set, precision) is
     refined by each build through a mapping that decodes the register bits.
   - `FPUThreads` composes several threads over the shared `FE_DFL_ENV`.

## 3. The model of the allocator (`RowAtlasAlloc.tla`)

### State

The variables keep the code's names:
- `entries`, `atlasSize`, `imageRows`, `nextRowPos`;
- the locals of a pass: `spaceFree`, `spaceNeeded`, `memtextures`, `padding`,
  `success`.

Four more variables support the model and the properties:
- `phase` is `idle`, `estimate` or `place`.
- `passes` counts the `Allocate()` calls.
- `placed` and `failed` are history variables: the names the current (or last)
  pass placed, or failed to place.

Names are naturals, ordered as the string keys they stand for.

### Actions

- `AddEntry(name, size)` is `IAtlasAllocator::AddEntry`, modelled from the
  spec: it adds or replaces an entry, with unset texCoords.
- `Allocate` models lines 84-97 and the sums at lines 34-42.
- `EstimateGrow` is one iteration of lines 44-57.
- `EstimateDone` is the loop exit, the sort (99-111) and the padding (113).
- `PlaceInRow`, `PlaceInNewRow` and `PlaceFails` are one iteration of the
  placement loop (116-130). `FindRow` finds a row, or `AddRow` appends one, or
  `AddRow` returns `nullptr`.
- `AllocateDone` models lines 132-134.

The loop iterations are separate steps so that termination can be stated. No
other action is enabled during a pass, so the steps add no interleaving that
the code does not have.

### Abstractions

The abstractions are exact for the bounds the module `ASSUME`s:
- `spaceFree < spaceNeeded * 1.2f` is evaluated as the float arithmetic does it
  (`BelowSlack`). An exact tie depends on the rounding of `1.2f`.
- `FindRow`'s float ratio `row.height / glyphHeight` has a fixed denominator.
  Below 2^20 it is ordered exactly as `row.height`, so the scan compares
  heights. The initial ratio 10000 becomes the height `10000 * glyphHeight`.

### Fairness

`WF_vars(AllocateStep)` on the steps of a pass: `Allocate()` is synchronous
code that runs until it returns. The client (`AddEntry`, starting `Allocate`)
gets no fairness: nothing obliges it to call anything.

### Refinement (`AtlasPacking.tla`)

`AtlasPacking` is what a client of `IAtlasAllocator` may rely on, with the
rows, the estimate and the placement order left out. Its state is the
client's view: `entries`, `atlasSize`, `success` and `placed`. Its actions:
- `AddEntry`, as in the concrete module;
- `Pass`, one atomic step for a whole `Allocate()` call. Each entry either
  gets a rectangle of its own size inside the new atlas, apart from the other
  rectangles of the call, or keeps its entry unchanged. The width never
  shrinks, neither axis passes `maxsize`, and the result is true exactly when
  every entry got a rectangle.

`RowAtlasAlloc` has one more history variable, `pre`: the client's view
(`AbsView`) when the running call began, set by `Allocate`. The mapping
`Seen` is the allocator's own view when `phase = "idle"` and `pre` inside a
call. So the steps from `Allocate` up to `AllocateDone` are stutters, and
`AllocateDone` is the `Pass`. `ImplementsAtlasPacking` checks `Packing!Spec`
as a property of `atlas_safety`. The mutant that forgets `success = false`
in the `nullptr` branch (`PlaceFailsKeepsSuccess`) breaks it.

The abstract spec allows what the findings below show the code does: an entry
a call did not place keeps its old rectangle, and nothing keeps it apart from the next call's
rectangles. `Fitted` bounds the visible rectangle, not its padding, so the
wide-entry finding (a padded footprint past the right edge) is not a
refinement failure: `ImplementsAtlasPacking` also holds on the
`MC_WideEntry.cfg` constants.

### Runs

| Run | cfg | Result | What it shows |
|---|---|---|---|
| `atlas_safety` | `MC_RowAtlasAlloc.cfg` | pass, 166,065 states | With entries that fit the initial width and a power-of-two maximum, all of these hold over every order of `AddEntry` calls and two passes: `TypeOK`, `AtlasWithinMax`, `RowsStacked`, `PlacedWithinAtlas`, `PlacedDisjoint`, `EstimateTracksFreeArea`, `FindRowIsBestFit`, `HeightPowerOfTwoInPass` (the height is a power of two throughout every pass, although each call leaves it clamped to the rows) and `AllocateTerminates`; every call refines one `Pass` of `AtlasPacking` (`ImplementsAtlasPacking`). |
| `wide_entry_out_of_bounds` | `MC_WideEntry.cfg` | violation | A 7x2 entry fits the 8-wide atlas but not once padded to 9: `AddRow` gives it a row at x = 0, its padded footprint ends past the right edge, and the pass still reports success. |
| `failed_entry_stale_coords` | `MC_StaleCoords.cfg` (3 passes) | violation | An entry placed by one pass and not by the next keeps its old rectangle. |
| `odd_max_hang` | `MC_OddMaxHang.cfg` | violation | With a 12x12 maximum, `EstimateNeededSize` loops forever on an 8x8 atlas that is short of space. |
| `odd_max_exceeded` | `MC_OddMaxExceeds.cfg` | violation | With a 12x12 maximum, the `bit_ceil` of a second pass lifts the height to 16. |

### Bounds

The main run uses:
- three names, so that two entries can tie on size and fall back to the name
  order;
- three sizes, 2x2, 4x2 and 6x6. Padded by 2 (`NumLevels = 1`), they give rows
  of different heights and two rows of equal height, and the 6x6 entries make
  the estimator grow to the maximum;
- an 8x8 initial atlas and a 32x16 maximum, so that one axis reaches its
  maximum before the other;
- two `Allocate()` calls, so that rows carry over from one pass to the next.

At these bounds every action fires, including `PlaceFails`, and each of the
10 mutants of this run in `PROJECT.json` is caught. The stale-coordinates case needs an
entry to fail after it was placed, which needs three passes.

### Findings

1. `AddRow` never checks the width (line 66). An entry whose padded width
   exceeds the atlas width gets a row anyway, its padding lies out of
   bounds, and `Allocate()` still returns true.
2. A failed entry keeps its stale texCoords (line 119). The spec says it keeps
   a sentinel.
3. The estimator and the `bit_ceil` at the start of `Allocate()` rely on
   power-of-two maxima (lines 44-57 and 93). With any other maximum, the
   estimator can hang and the height can exceed the maximum. The spec allows
   any maximum.
4. The ARM `max_capacity` static is a data race (`CpuTopology.cpp:126`).
5. A failed `set_cpu_affinity` misclassifies the CPU (`CpuTopology.cpp:39`).

## 4. The model of the CPU-topology probe (`CpuTopology.tla`)

### State and actions

- `hw` is the machine: the CPU count, the vendor, the layout of
  `thread_siblings_list`, the CPUID core-type bytes, the `cpu_capacity`
  files, the L3 and L2 sizes, and the process cpuset. `Init` chooses it
  from the constants, for each build in `Archs` (the vendor "arm" stands
  for the ARM half of the `#if`, `IsArm`), and it never changes.
- `maxCapacity` and `capacityInitialized` are the two function statics of
  `get_arm_core_type`, shared by all threads.
- Each thread has `pc`, `call`, the loop indices `cpu` and `i`, the four
  bitset locals `masks`, its `affinity`, and the results `out` and `caches`.

`CallMasks` starts `GetProcessorMasks`. Each iteration of the collect loop
is one step:
- `ClassifyIntel` pins the thread (`set_cpu_affinity`), reads CPUID on a
  CPU of the resulting mask and updates the masks;
- `ClassifyAmd` and `ClassifyArm` update the masks;
- `SkipCpu` skips a CPU at or past `MAX_CPUS`.

The first ARM classification runs the `max_capacity` loop. `InitStart`
enters it. `InitKeep` and `InitRaise` are the compare, `InitWrite` is the
store, and `InitEnd` sets the flag. The compare and the store are separate
steps, so another thread can run between them.

`ReturnMasks` returns the masks and restores the affinity, as
`ThreadAffinityGuard` does. `CallCaches` is the whole of `GetProcessorCache`.
No state of its own is shared, so it is one step, computed by the recursive
`CacheLoop`.

### Abstractions

- `MAX_CPUS` is scaled down to 2, so that machines with CPUs past the
  bitset width stay small. The loops treat the bound the same whatever
  its value.
- The sibling lists are the layouts Linux prints, and the parse is modelled
  by what it does: "0-3" yields 0 and 3.
- The x86 cache parse drops the unit; the ARM parse multiplies by 1024.
- The race on the statics is undefined behaviour. The model takes the
  sequentially consistent interleavings, which the build can produce.

### Runs

| Run | cfg | Result | What it shows |
|---|---|---|---|
| `cpu_topology` | `MC_CpuTopology.cfg` | pass, 375,972 states | On every x86 machine of 2 or 4 CPUs and every ARM machine of 3 CPUs (with one thread), all of these hold: `MasksPartitionCpus`, `SmtMasksConsistent` (also for the split layout, whose siblings lie past the mask), `EfficiencyMaskMatchesHardware` (on ARM also when the largest capacity belongs to a CPU past the mask) and `CacheGroupsMatchReference` (x86 L3, ARM L3-else-L2). |
| `arm_capacity_race` | `MC_CapacityRace.cfg` | violation | Two threads making their first call at once: a late store of 512 overwrites 1024, and a 512 core is classified as a performance core. |
| `cpuset_core_type` | `MC_CpusetCoreType.cfg` | violation | A CPU outside the cpuset cannot be pinned. CPUID is then read on another CPU, and an E-core lands in the performance mask. |

### Bounds

- The CPU counts are 2 and 4 on x86 and 3 on ARM, one below and past the
  2-bit mask, so that every loop exit and the skip are taken.
- Every sibling layout and core-type byte is included, as are two cache
  sizes and a missing file.
- The capacities 512, 768 (exactly 75%) and 1024 include the threshold.
- Every single-thread run enumerates all these machines.

## 5. The model of the FPU environment (`FPUSettings.tla`, `FPEnv.tla`)

`FPUSettings.h` is compiled for one of four units. Each build has its own
`fpenv_t` and its own versions of the eight functions.

### State and actions

- `build` is the build the header was compiled for. `Init` chooses it from
  `Builds`, and it never changes. One run can therefore check all four builds.
- `fpu` is the unit's control state, a record shaped like the build's
  `fpenv_t`:
  - x87: the control word;
  - SSE: the x87 word and MXCSR;
  - NEON: FPCR;
  - soft: SoftFloat's tininess mode, rounding mode and trap mask.
- `env` is the caller's `fpenv_t`, or `NoEnv` before it is filled.
- `dfl` is `FE_DFL_ENV`. Its boot value is the zero struct that the code
  reads as "not captured yet".
- `sw` holds the sticky exception flags of the x87 status word. The
  environment action `X87StatusFlags` is x87 arithmetic raising a masked
  exception. Every action whose code runs `STREFLOP_FLDCW` (`fclex; fldcw`)
  clears the flags through `Fclex`.
- History variables:
  - `got` is what the last `fegetround` returned;
  - `asked` is the mode the last `fesetround` was passed;
  - `boot` is the state the thread started with.

Each of `feraiseexcept`, `feclearexcept`, `fegetround`, `fesetround`,
`fegetenv`, `fesetenv` (from `env` or from `FE_DFL_ENV`), `feholdexcept` and
`streflop_init<T>` is one action. It dispatches on `build` to the
read-modify-write of the header, written with the header's own masks:
- x87: `X87SetRound`, `X87Precision`, ...;
- SSE: `SseSetRound`, `SseDenormals`, ...;
- NEON: `NeonSetRound`, `NeonInit`, ...;
- soft: `SoftSetRound`, ....

`fegetenv`, `fesetenv` and `feholdexcept` capture `FE_DFL_ENV` first, as the
code does (`CaptureDefault`). Each field counts as "not captured" while it
is zero. `SseStatusFlags` is SSE arithmetic setting sticky status bits in
MXCSR. They are saved and restored with the control bits.
`X87StatusFlags` and `SseStatusFlags` model the hardware, not the header,
so `PROJECT.json` maps no source lines to them.

`FPEnv` is the promise, the same for every build: a rounding mode, a set of
trapping exceptions, a precision, the saved struct, and `FE_DFL_ENV`,
captured once. `FPUSettings` maps onto it by decoding the register fields
from the architecture's bit layout (`AbsRound`, `Traps`, `AbsPrec`), not
from the header's functions. A wrong mask in the header therefore shows as
an abstract step that `FPEnv` does not allow.

### Runs

| Run | cfg | Result | What it shows |
|---|---|---|---|
| `fpu_all_builds` | `MC_FPUBuilds.cfg` | pass, 101,170 states, about 2 min | For every build, the following hold. `TypeOK`. `ForeignBitsPreserved`: x87 infinity control, FPCR DN and the upper MXCSR keep their boot value in the registers, the saved struct and `FE_DFL_ENV`. `InitKeepsRounding`, on x87, SSE and soft. `X87NoPendingTrap`: no sticky x87 flag is pending for an unmasked exception, which would trap at the next x87 instruction. `ImplementsFPEnv`: the build refines `FPEnv`, and on x87 this includes `__SUPPORT_SNAN__`. |
| `neon_init_resets_rounding` | `MC_NeonInitRounding.cfg` | violation | `fesetround(FE_UPWARD)`, then `streflop_init`: the NEON build is back to nearest. |
| `sse_default_env_recaptured` | `MC_SseDefaultRecaptured.cfg` | violation | `feraiseexcept(FE_ALL_EXCEPT)` makes MXCSR zero. A later `feholdexcept` captures that zero, so a later `fegetenv` captures `FE_DFL_ENV` again: the default changes after first use. |
| `default_env_race` | `MC_DefaultEnvRace.cfg` (`MC_FPUThreads`) | violation | Two SSE threads race on the lazy capture: both store the MXCSR half of `FE_DFL_ENV`, and the second replaces the first's after it was used. |

Refinement is checked step by step, so a NEON init that resets the rounding
mode looks like a legal `fesetround(FE_TONEAREST)`. `InitKeepsRounding`
states the promise about `streflop_init` directly, for every state the
program reaches.

### Bounds

- Exception sets: `{invalid}` and the signalling-NaN trio; SSE has
  `{invalid}` only. Together they enable and disable traps singly and in
  groups.
- Rounding inputs: down and up, which differ from the boot mode (nearest)
  in both RC bits; SSE has up only.
- Precisions for `streflop_init`: Double on x87, Simple on SSE, and all three
  on soft. NEON has no call in this run; its init is the violation.
- Boot values carry a bit the API does not own: x87 `0x137F` (infinity
  control), and FPCR with and without DN. Both SoftFloat tininess modes are
  included.
- These inputs already produce every distinct value each field can take. Any
  further input multiplies the state space by the product of `fpu`, `env`
  and `dfl` without adding a new case.

### Findings

- **`sse_default_env_recaptured`** (`FPUSettings.h:426`). The capture treats
  a zero MXCSR as "not saved yet", so `FE_DFL_ENV` is not the permanent
  holder that the comment at :281 promises.
- **`neon_init_resets_rounding`** (`FPUSettings.h:602`). NEON `streflop_init`
  forces round-to-nearest, but the other builds keep the mode.

- **`default_env_race`** (`FPUSettings.h:426`, the same code in every
  build). Two threads race on the lazy capture of the shared `FE_DFL_ENV`
  (see "Threads" below).

Two more differences between builds are listed as hazards in `PROJECT.json`:
- SSE `fesetround` leaves the x87 word's rounding behind (:404);
- `__SUPPORT_SNAN__` is honoured only by the x87 `streflop_init` (:461).
No property covers either. `FPEnv` takes each build's init traps as an
input and also captures `FE_DFL_ENV` at first use, so `ImplementsFPEnv`
holds whichever way these go. The same holds for which mode the lazy
capture (:287) records.

### Threads (`FPUThreads.tla`)

The control registers belong to a thread, but `FE_DFL_ENV` is one global
with no lock. `FPUThreads` extends `FPUSettings` and turns `fpu` and `env`
into functions of the thread, with `dfl` still shared.
- `fegetenv`, `fesetenv(&env)` and `fesetenv(&FE_DFL_ENV)` are split at each
  access to the global: `Begin`/`Check` reads a field, `Store` writes the
  thread's register into it, and `Use` does the rest of that field's
  statements. For `fesetenv(&FE_DFL_ENV)`, `Use` reads the global again.
- `ThreadSetRound` is `fesetround` on the thread's own registers. It touches
  nothing shared, so it is one step.
- `DefaultEnvPermanent` states the comment at :281 as an action property:
  a captured field never changes.
- The run `default_env_race` uses two SSE threads.
  1. t1 captures the x87 half.
  2. t2 runs `fesetround(FE_UPWARD)`.
  3. Both threads find the MXCSR half still zero, and both store it.
  4. t2's 0x5F80 replaces t1's 0x1F80.
  The default then mixes two threads' modes, and t1 has already used the
  old one.
- The race is undefined behaviour in C++. The model takes the sequentially
  consistent outcomes, which x86 produces.
- The x87 status-word flags (`sw`) are not tracked per thread here; the
  race does not involve them.

### Fairness

None. Every action is a call the program makes or does not make, so
nothing in this header must eventually happen.

## 6. Not modelled (yet)

- FPU: the NEON `FE_DFL_ENV` contents, which are defined in `Math.cpp`
  outside `src/`.
- The 3/4 threshold of `get_arm_core_type` truncates. It differs from
  "below 75%" only when `3 * max` is not a multiple of 4, and the kernel
  normalises the largest capacity to 1024.
- `simd_compat.h`: it only includes headers.
- Integer overflow of the estimator's area sums, which needs atlases of about
  2^15 x 2^15. It is listed as a hazard without a property.
- The rest of the source lines outside the map have no behaviour to model:
  - includes, preprocessor guards and the register-layout comments of
    `FPUSettings.h`;
  - the per-build copies of `feholdexcept` and of the empty `streflop_init`
    templates, which do the same as the mapped x87 copy;
  - the includes at the top of `CpuTopology.cpp`.
- Trap-enable bits that read as zero on AArch64 cores without trap support
  (FPUSettings.h:536). The model takes the FPCR to hold what `set_fpcr`
  writes. Allowing RAZ/WI hardware would only break `ImplementsFPEnv` by
  design, and the project has no run left for that.
- The pointer that `AddRow` returns into `imageRows`. It is used only before
  the next `emplace_back`, so it cannot dangle.
