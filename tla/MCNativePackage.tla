---------------------------- MODULE MCNativePackage ---------------------------
(***************************************************************************)
(* NativePackage with two interchangeable backend symbols.                 *)
(***************************************************************************)
EXTENDS NativePackage, TLC

CONSTANTS alloc, hash

MCBackend == {alloc, hash}
MCSymmetry == Permutations(MCBackend)
===============================================================================
