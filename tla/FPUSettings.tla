------------------------------ MODULE FPUSettings ------------------------------
(***************************************************************************)
(* streflop's control of the floating-point unit (src/rts/lib/streflop/    *)
(* FPUSettings.h): feraiseexcept, feclearexcept, fegetround, fesetround,   *)
(* fegetenv, fesetenv, feholdexcept and streflop_init<T>, for each of the  *)
(* four builds the header selects at compile time (build):                 *)
(*                                                                         *)
(*   x87   the x87 control word (fstcw / fldcw);                           *)
(*   sse   MXCSR, with the x87 word kept alongside "just in case";         *)
(*   neon  the AArch64 FPCR (mrs / msr);                                   *)
(*   soft  the SoftFloat globals (rounding mode, trap mask, tininess).     *)
(*                                                                         *)
(* fpu is the build's register state as a record whose fields are exactly  *)
(* the fields of that build's fpenv_t, so fegetenv and fesetenv copy it    *)
(* whole.  Bit-level read-modify-write is modelled with Bitwise; x &= ~m   *)
(* is ClearBits(x, m).  Each function is one atomic action: the            *)
(* environment is per thread and the functions are called by the thread   *)
(* that owns it.                                                           *)
(***************************************************************************)
EXTENDS Integers, FiniteSetsExt, Bitwise

CONSTANTS
    Builds,       \* the builds checked, of "x87", "sse", "neon", "soft"
    SupportSnan,  \* per build: __SUPPORT_SNAN__
    NoDenormals,  \* STREFLOP_NO_DENORMALS
    ExceptSets,   \* per build: exception sets passed to feraiseexcept / feclearexcept
    RoundInputs,  \* per build: rounding modes passed to fesetround
    InitTypes,    \* per build: the T of the streflop_init<T> calls
    BootX87,      \* x87 control words a thread may start with
    BootFpcr,     \* FPCR values a thread may start with
    Tininess,     \* values of SoftFloat::float_detect_tininess
    NoEnv         \* a caller's fpenv_t not filled in yet

VARIABLES
    fpu,   \* the unit's control state
    env,   \* the caller's fpenv_t, or NoEnv
    dfl,   \* FE_DFL_ENV
    got,   \* the value the last fegetround returned
    asked, \* the mode the last fesetround was passed (history)
    boot,  \* fpu when the thread started (history, never changes)
    sw,    \* the x87 status word's sticky exception flags (bits 0-5)
    build  \* the build the header was compiled for (fixed)

vars == <<fpu, env, dfl, got, asked, boot, sw, build>>

NoRound == -1

Exceptions == {"invalid", "denormal", "divbyzero", "overflow", "underflow", "inexact"}
Rounds == {"nearest", "down", "up", "zero"}

\* enum FPU_Exceptions and enum FPU_RoundMode of the x86 and SoftFloat builds.
X86Except == [invalid |-> \h01, denormal |-> \h02, divbyzero |-> \h04,
              overflow |-> \h08, underflow |-> \h10, inexact |-> \h20]
X86Round == [nearest |-> 0, down |-> \h0400, up |-> \h0800, zero |-> \h0C00]

\* The same enums in the NEON build: FPCR trap-enable and RMode bits.
NeonExcept == [invalid |-> 2^8, divbyzero |-> 2^9, overflow |-> 2^10,
               underflow |-> 2^11, inexact |-> 2^12, denormal |-> 2^15]
NeonRound == [nearest |-> 0, up |-> 2^22, down |-> 2 * 2^22, zero |-> 3 * 2^22]
FE_ROUND_MASK == 3 * 2^22
FE_FLUSH_TO_ZERO == 2^24

ExceptBit == IF build = "neon" THEN NeonExcept ELSE X86Except
RoundBit == IF build = "neon" THEN NeonRound ELSE X86Round

\* The int a set of FPU_Exceptions flags or-ed together stands for.
FE(E) == MapThenSumSet(LAMBDA e : ExceptBit[e], E)
FE_ALL_EXCEPT == FE(Exceptions)

\* x &= ~m
ClearBits(x, m) == x - (x & m)

(***************************************************************************)
(* The x87 control word: masks in bits 0-5 (a clear mask bit traps), the  *)
(* precision in bits 8-9, the rounding mode in bits 10-11.                 *)
(***************************************************************************)
X87Raise(cw, m) == ClearBits(cw, m)
X87Clear(cw, m) == cw | m
\* Mutant: the clear-mask of fesetround used as the select-mask.
X87GetRoundWrongMask(cw) == cw & \hF3FF
X87GetRound(cw) == cw & \h0C00
\* Mutant: only one of the two RC bits cleared.
X87SetRoundOneBit(cw, r) == (cw & \hF7FF) | r
X87SetRound(cw, r) == (cw & \hF3FF) | r
PcBits == [Simple |-> 0, Double |-> \h0200, Extended |-> \h0300]
\* Mutants: a digit of 0xFCFF dropped; the RC bits cleared with the PC bits.
X87PrecisionDroppedDigit(cw, T) == (cw & \h0CFF) | PcBits[T]
X87PrecisionClearsRounding(cw, T) == (cw & \hF0FF) | PcBits[T]
X87Precision(cw, T) == (cw & \hFCFF) | PcBits[T]

(***************************************************************************)
(* MXCSR: status flags 0-5, DAZ 6, masks 7-12, rounding 13-14, FTZ 15.     *)
(* MXCSR's upper half is zero, so & 0xFFFF9FFF clears bits 13-14 and      *)
(* & 0xFFFF7FBF clears DAZ and FTZ.                                        *)
(***************************************************************************)
SseRaise(m, e) == ClearBits(m, e * 2^7)
SseClear(m, e) == m | (e * 2^7)
\* Mutant: the & 0x00000C00 forgotten.
SseGetRoundNoMask(m) == m \div 2^3
SseGetRound(m) == (m \div 2^3) & \h0C00
\* Mutant: the << 3 forgotten.
SseSetRoundNoShift(m, r) == ClearBits(m, \h6000) | r
SseSetRound(m, r) == ClearBits(m, \h6000) | (r * 2^3)
SseDenormals(m) == IF NoDenormals THEN m | \h8040 ELSE ClearBits(m, \h8040)

(***************************************************************************)
(* FPCR: trap enables (a set bit traps), RMode 22-23, FZ 24.               *)
(***************************************************************************)
NeonRaise(f, e) == f | (e & FE_ALL_EXCEPT)
NeonClear(f, e) == ClearBits(f, e & FE_ALL_EXCEPT)
\* Mutants: the mask forgotten; the RMode field returned instead of the enum.
NeonGetRoundNoMask(f) == f
NeonGetRoundField(f) == (f & FE_ROUND_MASK) \div 2^22
NeonGetRound(f) == f & FE_ROUND_MASK
\* Mutant: the new mode written without reading FPCR first.
NeonSetRoundNoRead(f, r) == r
NeonSetRound(f, r) == ClearBits(f, FE_ROUND_MASK) | r
NeonInit(f) ==
    LET g == ClearBits(f, FE_ROUND_MASK) | NeonRound.nearest
    IN  IF NoDenormals THEN g | FE_FLUSH_TO_ZERO ELSE ClearBits(g, FE_FLUSH_TO_ZERO)

(***************************************************************************)
(* SoftFloat: float_rounding_mode holds SoftFloat's own enum.              *)
(***************************************************************************)
\* Mutant: the down and up cases swapped.
SoftGetRoundSwapped(mode) ==
    CASE mode = "round_down"    -> X86Round.up
      [] mode = "round_up"      -> X86Round.down
      [] mode = "round_to_zero" -> X86Round.zero
      [] OTHER                  -> X86Round.nearest
SoftGetRound(mode) ==
    CASE mode = "round_down"    -> X86Round.down
      [] mode = "round_up"      -> X86Round.up
      [] mode = "round_to_zero" -> X86Round.zero
      [] OTHER                  -> X86Round.nearest
SoftSetRound(r) ==
    CASE r = X86Round.down -> "round_down"
      [] r = X86Round.up   -> "round_up"
      [] r = X86Round.zero -> "round_to_zero"
      [] r = X86Round.nearest -> "round_nearest_even"

(***************************************************************************)
(* The functions, on the build's fpenv_t-shaped state.                     *)
(***************************************************************************)
RaiseExcept(f, m) ==
    CASE build = "x87"  -> [f EXCEPT !.x87 = X87Raise(@, m)]
      [] build = "sse"  -> [f EXCEPT !.x87 = X87Raise(@, m), !.sse = SseRaise(@, m)]
      [] build = "neon" -> [f EXCEPT !.fpcr = NeonRaise(@, m)]
      [] build = "soft" -> [f EXCEPT !.traps = @ | m]

ClearExcept(f, m) ==
    CASE build = "x87"  -> [f EXCEPT !.x87 = X87Clear(@, m)]
      [] build = "sse"  -> [f EXCEPT !.x87 = X87Clear(@, m), !.sse = SseClear(@, m)]
      [] build = "neon" -> [f EXCEPT !.fpcr = NeonClear(@, m)]
      [] build = "soft" -> [f EXCEPT !.traps = ClearBits(@, m)]

GetRound(f) ==
    CASE build = "x87"  -> X87GetRound(f.x87)
      [] build = "sse"  -> SseGetRound(f.sse)
      [] build = "neon" -> NeonGetRound(f.fpcr)
      [] build = "soft" -> SoftGetRound(f.round)

SetRound(f, r) ==
    CASE build = "x87"  -> [f EXCEPT !.x87 = X87SetRound(@, r)]
      [] build = "sse"  -> [f EXCEPT !.sse = SseSetRound(@, r)]
      [] build = "neon" -> [f EXCEPT !.fpcr = NeonSetRound(@, r)]
      [] build = "soft" -> [f EXCEPT !.round = SoftSetRound(r)]

SnanTraps == {"invalid", "divbyzero", "overflow"}

InitFpu(f, T) ==
    CASE build = "x87"  ->
            LET g == [f EXCEPT !.x87 = X87Precision(@, T)]
            IN  IF SupportSnan[build] THEN RaiseExcept(g, FE(SnanTraps)) ELSE g
      [] build = "sse"  -> [f EXCEPT !.x87 = X87Precision(@, T), !.sse = SseDenormals(@)]
      [] build = "neon" -> [f EXCEPT !.fpcr = NeonInit(@)]
      [] build = "soft" -> f

\* FE_DFL_ENV after the "save it now if it does not exist" test of
\* fegetenv / fesetenv: a field that is zero (x87, sse) or a tininess of 42
\* (soft) means "not saved yet".  The NEON build has no such test.
\* "if (!FE_DFL_ENV) STREFLOP_FSTCW(FE_DFL_ENV)": a zero word is not saved yet.
X87CaptureDefault(d, f) == IF d.x87 = 0 THEN f ELSE d

\* The SSE struct is captured field by field, each when it is zero.
SseCaptureDefault(d, f) ==
    [x87 |-> IF d.x87 = 0 THEN f.x87 ELSE d.x87,
     sse |-> IF d.sse = 0 THEN f.sse ELSE d.sse]

\* SoftFloat marks the default not saved yet with tininess 42.
SoftCaptureDefault(d, f) == IF d.tininess = 42 THEN f ELSE d

\* NEON's FE_DFL_ENV is a constant defined outside the header: no capture.
CaptureDefault(d, f) ==
    CASE build = "x87"  -> X87CaptureDefault(d, f)
      [] build = "sse"  -> SseCaptureDefault(d, f)
      [] build = "neon" -> d
      [] build = "soft" -> SoftCaptureDefault(d, f)

(***************************************************************************)
(* Boot state.  A thread starts with the platform's default control word   *)
(* (x87 0x037F, MXCSR 0x1F80, FPCR from BootFpcr); FE_DFL_ENV starts as   *)
(* SMath.cpp / Math.cpp define it: zero, or a tininess of 42 in the soft   *)
(* build.  The NEON FE_DFL_ENV is never read in FPUSettings.h.             *)
(***************************************************************************)
BootFpu ==
    CASE build = "x87"  -> {[x87 |-> w] : w \in BootX87}
      [] build = "sse"  -> {[x87 |-> w, sse |-> \h1F80] : w \in BootX87}
      [] build = "neon" -> {[fpcr |-> w] : w \in BootFpcr}
      [] build = "soft" -> {[tininess |-> t, round |-> "round_nearest_even", traps |-> 0] :
                                t \in Tininess}

BootDfl ==
    CASE build = "x87"  -> [x87 |-> 0]
      [] build = "sse"  -> [x87 |-> 0, sse |-> 0]
      [] build = "neon" -> NoEnv
      [] build = "soft" -> [tininess |-> 42, round |-> "round_nearest_even", traps |-> 0]

Init ==
    /\ build \in Builds
    /\ fpu \in BootFpu
    /\ boot = fpu
    /\ env = NoEnv
    /\ dfl = BootDfl
    /\ got = NoRound
    /\ asked = "no call yet"
    /\ sw = 0

\* STREFLOP_FLDCW is "fclex; fldcw": every load of the x87 control word
\* first clears the status word's exception flags.
FclexMissing(flags) == flags
Fclex(flags) == 0

\* The x87 control word is loaded in the builds that write it.
Fldcw(writers) == sw' = IF build \in writers THEN Fclex(sw) ELSE sw

feraiseexcept(E) ==
    /\ fpu' = RaiseExcept(fpu, FE(E))
    /\ Fldcw({"x87", "sse"})
    /\ UNCHANGED <<env, dfl, got, asked, boot>>

feclearexcept(E) ==
    /\ fpu' = ClearExcept(fpu, FE(E))
    /\ Fldcw({"x87", "sse"})
    /\ UNCHANGED <<env, dfl, got, asked, boot>>

fegetround ==
    /\ got' = GetRound(fpu)
    /\ UNCHANGED <<fpu, env, dfl, asked, boot, sw>>

fesetround(r) ==
    /\ fpu' = SetRound(fpu, RoundBit[r])
    /\ asked' = r
    /\ Fldcw({"x87"})
    /\ UNCHANGED <<env, dfl, got, boot>>

fegetenv ==
    /\ dfl' = CaptureDefault(dfl, fpu)
    /\ env' = fpu
    /\ UNCHANGED <<fpu, got, asked, boot, sw>>

\* fesetenv(&env) or fesetenv(&FE_DFL_ENV); the argument is read after the
\* default has been captured.  A caller restores only a struct it filled.
fesetenv(fromDefault) ==
    LET d   == CaptureDefault(dfl, fpu)
        arg == IF fromDefault THEN d ELSE env
    IN  /\ fromDefault => build # "neon"
        /\ arg # NoEnv
        /\ dfl' = d
        /\ fpu' = arg
        /\ Fldcw({"x87", "sse"})
        /\ UNCHANGED <<env, got, asked, boot>>

feholdexcept ==
    /\ dfl' = CaptureDefault(dfl, fpu)
    /\ env' = fpu
    /\ fpu' = ClearExcept(fpu, FE_ALL_EXCEPT)
    /\ Fldcw({"x87", "sse"})
    /\ UNCHANGED <<got, asked, boot>>

streflop_init(T) ==
    /\ fpu' = InitFpu(fpu, T)
    /\ Fldcw({"x87", "sse"})
    /\ UNCHANGED <<env, dfl, got, asked, boot>>

\* SSE arithmetic sets MXCSR's sticky status flags (bits 0-5), which share
\* the register with the control bits and are saved and restored with them.
SseStatusFlags(s) ==
    /\ build = "sse"
    /\ fpu' = [fpu EXCEPT !.sse = @ | s]
    /\ UNCHANGED <<env, dfl, got, asked, boot, sw>>

\* x87 arithmetic raising exception s while it is masked only sets the
\* sticky flag; an unmasked one traps at once (not part of this model).
X87StatusFlags(s) ==
    /\ build \in {"x87", "sse"}
    /\ (fpu.x87 & s) = s
    /\ sw' = sw | s
    /\ UNCHANGED <<fpu, env, dfl, got, asked, boot>>

Next ==
  /\ build' = build
  /\ \/ \E E \in ExceptSets[build] : feraiseexcept(E) \/ feclearexcept(E)
     \/ fegetround
     \/ \E r \in RoundInputs[build] : fesetround(r)
     \/ fegetenv
     \/ \E b \in BOOLEAN : fesetenv(b)
     \/ feholdexcept
     \/ \E T \in InitTypes[build] : streflop_init(T)
     \/ \E s \in {X86Except.invalid, X86Except.inexact} : SseStatusFlags(s)
     \/ X87StatusFlags(X86Except.invalid)

Spec == Init /\ [][Next]_vars

-----------------------------------------------------------------------------
(***************************************************************************)
(* Refinement mapping: what the registers mean to the hardware, read from  *)
(* the architecture's bit layout rather than from the functions above.     *)
(***************************************************************************)
Bit(x, i) == (x \div 2^i) % 2
Field2(x, i) == (x \div 2^i) % 4

X86RC == <<"nearest", "down", "up", "zero">>          \* RC = 0, 1, 2, 3
ArmRMode == <<"nearest", "up", "down", "zero">>       \* RMode = 0, 1, 2, 3
X86PC == <<"Simple", "reserved", "Double", "Extended">>
X86MaskPos == [invalid |-> 0, denormal |-> 1, divbyzero |-> 2, overflow |-> 3,
               underflow |-> 4, inexact |-> 5]
ArmEnablePos == [invalid |-> 8, divbyzero |-> 9, overflow |-> 10, underflow |-> 11,
                 inexact |-> 12, denormal |-> 15]
SoftRound == [round_nearest_even |-> "nearest", round_down |-> "down",
              round_up |-> "up", round_to_zero |-> "zero"]

AbsRound(f) ==
    CASE build = "x87"  -> X86RC[Field2(f.x87, 10) + 1]
      [] build = "sse"  -> X86RC[Field2(f.sse, 13) + 1]
      [] build = "neon" -> ArmRMode[Field2(f.fpcr, 22) + 1]
      [] build = "soft" -> SoftRound[f.round]

Traps(f, e) ==
    CASE build = "x87"  -> Bit(f.x87, X86MaskPos[e]) = 0
      [] build = "sse"  -> Bit(f.sse, X86MaskPos[e] + 7) = 0
      [] build = "neon" -> Bit(f.fpcr, ArmEnablePos[e]) = 1
      [] build = "soft" -> Bit(f.traps, X86MaskPos[e]) = 1

AbsPrec(f) == IF build \in {"x87", "sse"} THEN X86PC[Field2(f.x87, 8) + 1] ELSE "native"

AbsEnv(f) ==
    IF f = NoEnv THEN NoEnv
    ELSE [round |-> AbsRound(f), traps |-> {e \in Exceptions : Traps(f, e)},
          prec |-> AbsPrec(f)]

\* FE_DFL_ENV counts as saved once any of its "not saved yet" tests fails.
DflSaved ==
    CASE build = "x87"  -> dfl.x87 # 0
      [] build = "sse"  -> dfl.x87 # 0 \/ dfl.sse # 0
      [] build = "neon" -> FALSE
      [] build = "soft" -> dfl.tininess # 42

\* fegetround's result, read back through the build's enum.
AbsGot ==
    IF got = NoRound THEN "no call yet"
    ELSE IF \E r \in Rounds : RoundBit[r] = got
         THEN CHOOSE r \in Rounds : RoundBit[r] = got
         ELSE "not a rounding mode"

Abstract == INSTANCE FPEnv WITH
    NoRound <- "no call yet",
    Precisions <- {"Simple", "reserved", "Double", "Extended", "native"},
    Units <- Builds,
    Features <- [b \in Builds |->
                    [precision |-> b \in {"x87", "sse"}, captures |-> b # "neon",
                     initTraps |-> IF SupportSnan[b] THEN SnanTraps ELSE {},
                     inputs    |-> ExceptSets[b]]],
    unit <- build,
    round <- AbsRound(fpu),
    traps <- AbsEnv(fpu).traps,
    prec <- AbsPrec(fpu),
    saved <- AbsEnv(env),
    dflt <- IF DflSaved THEN AbsEnv(dfl) ELSE NoEnv,
    got <- AbsGot,
    asked <- asked


-----------------------------------------------------------------------------
RoundValues == {RoundBit[r] : r \in Rounds}

\* Each field of the control state is a value of its C type, and fegetround
\* only ever returns one of the four FPU_RoundMode constants.
FpuType ==
    CASE build = "x87"  -> [x87 : 0..\hFFFF]
      [] build = "sse"  -> [x87 : 0..\hFFFF, sse : 0..\hFFFF]
      [] build = "neon" -> [fpcr : Nat]
      [] build = "soft" -> [tininess : Tininess, round : DOMAIN SoftRound, traps : 0..\h3F]

TypeOK ==
    /\ fpu \in FpuType
    /\ env \in FpuType \cup {NoEnv}
    /\ got \in RoundValues \cup {NoRound}

\* The bits of the control state the API does not own keep the value the
\* thread started with, in the live registers, in the caller's saved
\* struct and in FE_DFL_ENV: every read-modify-write in FPUSettings.h
\* (fstcw..fldcw, stmxcsr..ldmxcsr, mrs..msr) must carry them through.
\* x87: reserved bit 6, infinity control (bit 12), bits 7 and 13-15;
\* MXCSR: the reserved upper half; FPCR: DN, AHP, FZ16 and the rest;
\* SoftFloat: the tininess mode.
Foreign(f) ==
    CASE build = "x87"  -> ClearBits(f.x87, \h0F3F)
      [] build = "sse"  -> <<ClearBits(f.x87, \h0F3F), f.sse \div 2^16>>
      [] build = "neon" -> ClearBits(f.fpcr, FE_ALL_EXCEPT + FE_ROUND_MASK + FE_FLUSH_TO_ZERO)
      [] build = "soft" -> f.tininess

ForeignBitsPreserved ==
    \A f \in {fpu} \cup ({env} \ {NoEnv}) \cup (IF DflSaved /\ build # "sse" THEN {dfl} ELSE {}) :
        Foreign(f) = Foreign(boot)

\* The detailed model implements the promises of FPEnv: rounding, traps,
\* precision, the saved struct and FE_DFL_ENV move exactly as FPEnv says.
ImplementsFPEnv == Abstract!Spec

\* STREFLOP_FLDCW runs fclex before fldcw (FPUSettings.h:234): a sticky x87
\* flag set while its exception was masked is cleared whenever a call
\* (feraiseexcept, fesetenv, streflop_init with __SUPPORT_SNAN__...) loads a
\* control word, so no state has a pending flag for an unmasked exception,
\* which would trap at the next x87 instruction with no fault of its own.
X87NoPendingTrap ==
    \A e \in Exceptions :
        Bit(sw, X86MaskPos[e]) = 1 => Bit(fpu.x87, X86MaskPos[e]) = 1

\* streflop_init<T> "may also be called to switch between code sections
\* using different precisions" (FPUSettings.h:318): from any state the
\* program reaches, it leaves the rounding mode as it found it.  (Stepwise
\* refinement cannot see this: a reset to nearest looks like a legal
\* fesetround(FE_TONEAREST).)
InitKeepsRounding ==
    \A T \in InitTypes[build] : AbsRound(InitFpu(fpu, T)) = AbsRound(fpu)

=============================================================================
