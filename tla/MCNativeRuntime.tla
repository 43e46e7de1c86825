---------------------------- MODULE MCNativeRuntime ----------------------------
(***************************************************************************)
(* NativeRuntime with three threads that race to open the process's        *)
(* backend: one wins, one is refused while the winner starts, and one      *)
(* comes after it is gone.                                                 *)
(***************************************************************************)
EXTENDS NativeRuntime, TLC

CONSTANTS t1, t2, t3

MCThreads == {t1, t2, t3}
MCSymmetry == Permutations(MCThreads)
=============================================================================
