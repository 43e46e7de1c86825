--------------------------- MODULE MCDependencyPrefix --------------------------
(***************************************************************************)
(* DependencyPrefix with an archive that has no pkg-config package, as     *)
(* ossp-uuid, one that has one, as zlib, and a checkout with one, as       *)
(* json-c.                                                                 *)
(***************************************************************************)
EXTENDS DependencyPrefix

CONSTANTS zlib, uuid, jsonc

MCDepOrder == <<zlib, uuid, jsonc>>
MCDeps == {zlib, uuid, jsonc}
MCCheckouts == {jsonc}
MCProbed == {zlib, jsonc}
================================================================================
