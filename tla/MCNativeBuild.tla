----------------------------- MODULE MCNativeBuild ----------------------------
(***************************************************************************)
(* NativeBuild with one dependency, which has a pkg-config package, as     *)
(* json-c.  The two versions are interchangeable.                          *)
(***************************************************************************)
EXTENDS NativeBuild, TLC

CONSTANTS jsonc, old, new

MCDeps == {jsonc}
MCProbed == {jsonc}
MCVersions == {old, new}
MCSymmetry == Permutations(MCVersions)
===============================================================================
