---------------------------- MODULE MC_FPUThreads -----------------------------
(***************************************************************************)
(* Model-checking instance of FPUThreads: two threads of the SSE build,    *)
(* started with the same control word; either may switch to rounding up   *)
(* before its first fegetenv / fesetenv.                                   *)
(***************************************************************************)
EXTENDS FPUThreads

MCSse == {"sse"}
\* The x87 default after finit, with infinity control.
MCBootX87 == {\h137F}
MCBootFpcr == {0}
MCTininess == {0}
MCNoExcept == [b \in MCSse |-> {}]
MCRoundUp == [b \in MCSse |-> {"up"}]
MCNoInit == [b \in MCSse |-> {}]
MCNoSnan == [b \in MCSse |-> FALSE]
=============================================================================
