------------------------------ MODULE FPUThreads ------------------------------
(***************************************************************************)
(* Several threads using streflop's FPU API at once (FPUSettings.h, x87    *)
(* and SSE builds).  The control registers are per thread, FE_DFL_ENV is   *)
(* one global.  fegetenv and fesetenv capture it lazily with              *)
(* "if (!FE_DFL_ENV...) STREFLOP_FSTCW(FE_DFL_ENV...)", a check and a     *)
(* store with nothing between them, so each access to the global is a     *)
(* step of its own and other threads may run in between.  The thread-     *)
(* local parts of a call (the registers, the caller's struct) are done in *)
(* the step of the shared access they follow.                             *)
(*                                                                         *)
(* The variables of FPUSettings are reused: fpu, env and boot become       *)
(* functions of the thread, dfl stays shared; got, asked and sw are not    *)
(* used here and keep their initial value.                                 *)
(***************************************************************************)
EXTENDS FPUSettings, Sequences

CONSTANTS
    Threads   \* the threads calling the API

VARIABLES
    op,   \* per thread: the call in progress ("none", "get", "setown", "setdfl")
    pc    \* per thread: where in that call the thread is

tvars == <<fpu, env, dfl, got, asked, boot, sw, build, op, pc>>

\* The fields of fpenv_t, in the order the functions handle them.
Fields == IF build = "sse" THEN <<"x87", "sse">> ELSE <<"x87">>

\* The struct a fegetenv fills in starts out as the zero struct.
Blank(e) == IF e = NoEnv THEN BootDfl ELSE e

TInit ==
    /\ build \in Builds \cap {"x87", "sse"}
    /\ \E f \in BootFpu : fpu = [t \in Threads |-> f]
    /\ boot = fpu
    /\ env = [t \in Threads |-> NoEnv]
    /\ dfl = BootDfl
    /\ got = NoRound /\ asked = "no call yet" /\ sw = 0
    /\ op = [t \in Threads |-> "none"]
    /\ pc = [t \in Threads |-> 0]

\* fesetround on the thread's own registers: no shared state, one step.
ThreadSetRound(t, r) ==
    /\ op[t] = "none"
    /\ fpu' = [fpu EXCEPT ![t] = SetRound(@, RoundBit[r])]
    /\ UNCHANGED <<env, dfl, got, asked, boot, sw, build, op, pc>>

\* fegetenv(&env), fesetenv(&env) or fesetenv(&FE_DFL_ENV) begins with the
\* check of the first field of FE_DFL_ENV.
Check(t, o, i) ==
    /\ o = "setown" => env[t] # NoEnv
    /\ op' = [op EXCEPT ![t] = o]
    /\ pc' = [pc EXCEPT ![t] = IF dfl[Fields[i]] = 0 THEN -i ELSE i]

Begin(t, o) ==
    /\ op[t] = "none"
    /\ Check(t, o, 1)
    /\ UNCHANGED <<fpu, env, dfl, got, asked, boot, sw, build>>

\* "STREFLOP_FSTCW(FE_DFL_ENV.x87_mode)" / "STREFLOP_STMXCSR(...)": the
\* field is stored from this thread's register, whatever another thread
\* stored since the check.
Store(t) ==
    /\ pc[t] < 0
    /\ LET f == Fields[-pc[t]]
       IN  dfl' = [dfl EXCEPT ![f] = fpu[t][f]]
    /\ pc' = [pc EXCEPT ![t] = -@]
    /\ UNCHANGED <<fpu, env, got, asked, boot, sw, build, op>>

\* The rest of the field's statements: fegetenv stores the register into
\* the caller's struct, fesetenv loads the register from the struct; for
\* fesetenv(&FE_DFL_ENV) that is a read of the global as it is now.  Then
\* the next field's check, or the end of the call.
Use(t) ==
    /\ op[t] # "none" /\ pc[t] > 0
    /\ LET i == pc[t]
           f == Fields[i]
           src == IF op[t] = "setdfl" THEN dfl ELSE env[t]
       IN  /\ IF op[t] = "get"
                THEN /\ env' = [env EXCEPT ![t] = [Blank(@) EXCEPT ![f] = fpu[t][f]]]
                     /\ fpu' = fpu
                ELSE /\ fpu' = [fpu EXCEPT ![t][f] = src[f]]
                     /\ env' = env
           /\ IF i = Len(Fields)
                THEN /\ op' = [op EXCEPT ![t] = "none"]
                     /\ pc' = [pc EXCEPT ![t] = 0]
                ELSE Check(t, op[t], i + 1)
    /\ UNCHANGED <<dfl, got, asked, boot, sw, build>>

TNext ==
    \E t \in Threads :
        \/ \E r \in RoundInputs[build] : ThreadSetRound(t, r)
        \/ \E o \in {"get", "setown", "setdfl"} : Begin(t, o)
        \/ Store(t)
        \/ Use(t)

TSpec == TInit /\ [][TNext]_tvars

-----------------------------------------------------------------------------
\* "Default env ... initialized on first use to the permanent holder"
\* (FPUSettings.h:281): once a field of FE_DFL_ENV holds a captured value,
\* no later fegetenv or fesetenv, of this thread or another, changes it.
DefaultEnvPermanent ==
    [][\A f \in DOMAIN dfl : dfl[f] # 0 => dfl'[f] = dfl[f]]_dfl

=============================================================================
