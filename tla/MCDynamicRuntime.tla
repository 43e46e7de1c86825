---------------------------- MODULE MCDynamicRuntime ----------------------------
(***************************************************************************)
(* DynamicRuntime with two threads of the host process.                    *)
(***************************************************************************)
EXTENDS DynamicRuntime, TLC

CONSTANTS t1, t2

MCThreads == {t1, t2}
MCSymmetry == Permutations(MCThreads)
=============================================================================
