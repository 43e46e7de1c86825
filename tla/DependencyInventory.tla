-------------------------- MODULE DependencyInventory --------------------------
(***************************************************************************)
(* What the scripts about the native dependencies have in common: the      *)
(* inventory, and the prefix that DependencyPrefix fills and NativeBuild   *)
(* compiles against.                                                       *)
(***************************************************************************)

CONSTANTS Deps,      \* the dependencies
          Probed,    \* those with a pkg-config package
          Versions,  \* of anything
          None,      \* not there
          MaxEdits,  \* bound: changes of the inputs
          MaxStops   \* bound: runs that fail or are killed

ASSUME InventoryAssumption == Probed \subseteq Deps /\ None \notin Versions

VARIABLE prefix \* dependency -> its library and its pkg-config file

OrNone(S) == S \cup {None}

\* complete of describe-native-dependency-prefix.py: headers and libraries only.
Complete == \A d \in Deps : prefix[d].lib # None

\* What may become of the prefix at once: one dependency is installed or removed, in
\* part or as a whole; there is no package of one that has none.
OneReinstalled ==
  \E d \in Deps, lib, pc \in OrNone(Versions) :
    /\ d \notin Probed => pc = None
    /\ prefix' = [prefix EXCEPT ![d] = [lib |-> lib, pc |-> pc]]
================================================================================
