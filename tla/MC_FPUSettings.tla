---------------------------- MODULE MC_FPUSettings ----------------------------
(***************************************************************************)
(* Model-checking instances of FPUSettings.  A thread starts with the      *)
(* platform default control word, with and without a bit the API does not *)
(* own (x87 infinity control, FPCR default-NaN), so that a read-modify-    *)
(* write that drops one is seen.                                           *)
(***************************************************************************)
EXTENDS FPUSettings

\* 0x037F is the x87 default after finit; 0x137F also has infinity control.
MCBootX87 == {\h037F, \h137F}
MCBootX87IC == {\h137F}
\* FPCR zero, and with DN (default NaN, bit 25) set.
MCBootFpcr == {0, 2^25}
\* SoftFloat's float_tininess_after_rounding / _before_rounding.
MCTininess == {0, 1}

\* Trap selections a program passes: one exception and the signalling-NaN
\* trio; with FE_ALL_EXCEPT too, every trap can be enabled.
MCExceptSets == {{"invalid"}, SnanTraps}
MCExceptSetsAll == MCExceptSets \cup {Exceptions}
\* Two modes besides the boot default (to nearest) that differ in both RC bits.
MCRoundInputs == {"down", "up"}
\* The precisions the NEON build compiles (no Extended there).
MCInitTypesNeon == {"Simple", "Double"}
MCInitTypes == {"Simple", "Double", "Extended"}
MCInitTypesSimple == {"Simple"}
\* No streflop_init call at all.
MCNoInit == {}
\* One mode besides the boot default.
MCRoundUp == {"up"}
\* A single trap, and FE_ALL_EXCEPT alone.
MCExceptInvalid == {{"invalid"}}
MCExceptAll == {Exceptions}
\* One switch away from the boot precision (extended): the x87 run.
MCInitTypesDouble == {"Double"}
\* All four builds in one run; each gets the inputs that keep its state
\* space small enough while still reaching every code path it has.
MCBuilds == {"x87", "sse", "neon", "soft"}
MCExceptSetsOf == [b \in MCBuilds |-> IF b = "sse" THEN MCExceptInvalid ELSE MCExceptSets]
MCRoundInputsOf == [b \in MCBuilds |-> IF b = "sse" THEN MCRoundUp ELSE MCRoundInputs]
\* NEON's streflop_init resets the rounding mode (the run
\* MC_NeonInitRounding shows it), so the passing run leaves it out.
MCInitTypesOf == [b \in MCBuilds |->
                    CASE b = "x87"  -> MCInitTypesDouble
                      [] b = "sse"  -> MCInitTypesSimple
                      [] b = "soft" -> MCInitTypes
                      [] b = "neon" -> MCNoInit]
\* __SUPPORT_SNAN__ in the x87 build only: the SSE, NEON and SoftFloat
\* streflop_init ignore it (hazard at FPUSettings.h:461).
MCSnanOf == [b \in MCBuilds |-> b = "x87"]
MCNoSnan == [b \in MCBuilds |-> FALSE]
\* Single-build instances for the two runs that show a divergence.
MCNeon == {"neon"}
MCSse == {"sse"}
MCNeonExcept == [b \in MCNeon |-> MCExceptInvalid]
MCNeonRound == [b \in MCNeon |-> MCRoundUp]
MCNeonInit == [b \in MCNeon |-> MCInitTypesNeon]
MCSseExcept == [b \in MCSse |-> MCExceptAll]
MCSseRound == [b \in MCSse |-> MCRoundUp]
MCSseInit == [b \in MCSse |-> MCNoInit]
=============================================================================
