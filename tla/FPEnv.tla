-------------------------------- MODULE FPEnv --------------------------------
(***************************************************************************)
(* What streflop's floating-point environment API promises, independent    *)
(* of the unit that implements it (FPUSettings.h: x87, SSE, NEON or the    *)
(* SoftFloat emulation).  The environment is a rounding mode, the set of   *)
(* exceptions that trap, and the internal precision.                       *)
(*                                                                         *)
(*  - feraiseexcept / feclearexcept enable / disable traps;                *)
(*  - fesetround changes only the rounding mode, fegetround reads it;      *)
(*  - fegetenv saves the environment into the caller's struct, fesetenv    *)
(*    restores it; feholdexcept saves and then disables every trap;        *)
(*  - FE_DFL_ENV is captured once, at the first fegetenv / fesetenv, and   *)
(*    is permanent from then on ("initialized on first use to the          *)
(*    permanent holder", FPUSettings.h:281);                               *)
(*  - streflop_init<T> switches the internal precision "to switch between  *)
(*    code sections using different precisions" and leaves the rounding    *)
(*    mode alone.                                                          *)
(*                                                                         *)
(* FPUSettings.tla implements this module through a refinement mapping.    *)
(***************************************************************************)
EXTENDS FiniteSets

CONSTANTS
    Rounds,              \* the four rounding modes
    Exceptions,          \* the exceptions that may trap
    Precisions,          \* the precisions streflop_init may select
    NoEnv,               \* an environment struct never filled in
    NoRound,             \* fegetround has not been called yet
    Units,               \* the floating-point units the API is built for
    Features             \* per unit: precision (the unit has a precision
                         \* field), captures (fegetenv / fesetenv capture
                         \* FE_DFL_ENV), initTraps (traps streflop_init
                         \* enables) and inputs (exception sets callers
                         \* pass to raise / clear)

VARIABLES
    round,   \* current rounding mode
    traps,   \* exceptions whose trap is enabled
    prec,    \* internal precision
    saved,   \* the caller's fpenv_t, or NoEnv
    dflt,    \* FE_DFL_ENV, or NoEnv before its first capture
    got,     \* the value the last fegetround returned
    asked,   \* the mode the last fesetround was asked for, or NoRound
    unit     \* the unit this build drives (fixed)

avars == <<round, traps, prec, saved, dflt, got, asked, unit>>

HasPrecisionControl == Features[unit].precision
CapturesDefault == Features[unit].captures
InitTraps == Features[unit].initTraps

Env == [round : Rounds, traps : SUBSET Exceptions, prec : Precisions]

Current == [round |-> round, traps |-> traps, prec |-> prec]

\* FE_DFL_ENV after a call that captures it on first use.
Captured == IF dflt = NoEnv /\ CapturesDefault THEN Current ELSE dflt

Restore(e) == round' = e.round /\ traps' = e.traps /\ prec' = e.prec

Init ==
    /\ round \in Rounds /\ traps \in SUBSET Exceptions /\ prec \in Precisions
    /\ saved = NoEnv /\ dflt = NoEnv /\ got = NoRound /\ asked = NoRound
    /\ unit \in Units

Raise(E) == traps' = traps \cup E /\ UNCHANGED <<round, prec, saved, dflt, got, asked>>

Clear(E) == traps' = traps \ E /\ UNCHANGED <<round, prec, saved, dflt, got, asked>>

GetRound == got' = round /\ UNCHANGED <<round, traps, prec, saved, dflt, asked>>

SetRound(r) == round' = r /\ asked' = r /\ UNCHANGED <<traps, prec, saved, dflt, got>>

GetEnv ==
    /\ dflt' = Captured /\ saved' = Current
    /\ UNCHANGED <<round, traps, prec, got, asked>>

SetEnv(fromDefault) ==
    LET e == IF fromDefault THEN Captured ELSE saved
    IN  /\ e # NoEnv
        /\ dflt' = Captured /\ Restore(e)
        /\ UNCHANGED <<saved, got, asked>>

HoldExcept ==
    /\ dflt' = Captured /\ saved' = Current /\ traps' = {}
    /\ UNCHANGED <<round, prec, got, asked>>

StreflopInit(T) ==
    /\ prec' = IF HasPrecisionControl THEN T ELSE prec
    /\ traps' = traps \cup InitTraps
    /\ UNCHANGED <<round, saved, dflt, got, asked>>

Next ==
  /\ unit' = unit
  /\ \/ \E E \in Features[unit].inputs : Raise(E) \/ Clear(E)
     \/ GetRound
     \/ \E r \in Rounds : SetRound(r)
     \/ GetEnv
     \/ \E b \in BOOLEAN : SetEnv(b)
     \/ HoldExcept
     \/ \E T \in Precisions : StreflopInit(T)

Spec == Init /\ [][Next]_avars

=============================================================================
