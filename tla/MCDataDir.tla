------------------------------- MODULE MCDataDir -------------------------------
(***************************************************************************)
(* DataDir with three host processes that come and go, the server,       *)
(* and four process ids, each of them used again and again.                *)
(***************************************************************************)
EXTENDS DataDir, TLC

CONSTANTS p1, p2, p3, n1, n2, n3, n4

MCProcs == {p1, p2, p3}
MCPids == {n1, n2, n3, n4}
MCSymmetry == Permutations(MCProcs) \cup Permutations(MCPids)
=============================================================================
