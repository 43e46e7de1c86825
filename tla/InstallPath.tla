------------------------------- MODULE InstallPath -----------------------------
(***************************************************************************)
(* The doctor's search for a way to install an extension's default         *)
(* version: extension_can_install_version in                               *)
(* doctor-native-plugin-package.py.  An install script gives a base        *)
(* version, an upgrade script an edge from a version to the next; a list   *)
(* of versions to look at grows from the base versions along the edges.    *)
(* Which version the list gives next depends on how Python orders sets.    *)
(***************************************************************************)
CONSTANT Versions \* versions an extension's scripts may name

VARIABLES
  base,    \* versions with an install script
  edges,   \* <<from, to>> for every upgrade script
  wanted,  \* the control file's default version
  seen,    \* versions found so far
  pending, \* those of them not looked at yet
  answer   \* "searching", "yes" or "no"; "no" too before the first search

graph == <<base, edges, wanted>>
vars == <<graph, seen, pending, answer>>

Upgrades(v) == {w \in Versions : <<v, w>> \in edges}

Init ==
  /\ base = {} /\ edges = {} /\ wanted \in Versions
  /\ seen = {} /\ pending = {} /\ answer = "no"

\* The search for one extension, and its answer when there is nothing to search.
Begin(b, g, v) ==
  /\ answer # "searching"
  /\ base' = b /\ edges' = g /\ wanted' = v
  /\ seen' = b /\ pending' = b
  /\ answer' = IF v \in b THEN "yes" ELSE "searching"

\* Mutant: every next version is looked at again.
AllAhead(v) == Upgrades(v)
Ahead(v) == Upgrades(v) \ seen

\* Mutant: the versions found are not looked at in turn.
VisitOnly(v) ==
  /\ answer = "searching" /\ v \in pending
  /\ wanted \notin Upgrades(v)
  /\ seen' = seen \cup Ahead(v)
  /\ pending' = pending \ {v}
  /\ UNCHANGED <<graph, answer>>

Visit(v) ==
  /\ answer = "searching" /\ v \in pending
  /\ wanted \notin Upgrades(v)
  /\ seen' = seen \cup Ahead(v)
  /\ pending' = (pending \ {v}) \cup Ahead(v)
  /\ UNCHANGED <<graph, answer>>

Arrive(v) ==
  /\ answer = "searching" /\ v \in pending
  /\ wanted \in Upgrades(v)
  /\ answer' = "yes"
  /\ UNCHANGED <<graph, seen, pending>>

GiveUp ==
  /\ answer = "searching" /\ pending = {}
  /\ answer' = "no"
  /\ UNCHANGED <<graph, seen, pending>>

Search == GiveUp \/ \E v \in Versions : Visit(v) \/ Arrive(v)

Next ==
  \/ Search
  \/ \E b \in SUBSET Versions, g \in SUBSET (Versions \X Versions), v \in Versions :
       Begin(b, g, v)

Spec == Init /\ [][Next]_vars

-------------------------------------------------------------------------------
TypeOK ==
  /\ base \in SUBSET Versions /\ edges \in SUBSET (Versions \X Versions)
  /\ wanted \in Versions
  /\ seen \in SUBSET Versions /\ pending \in SUBSET Versions
  /\ answer \in {"searching", "yes", "no"}

\* The versions that upgrades lead to from S are in S.
Closed(S) == \A v \in S : Upgrades(v) \subseteq S

\* PostgreSQL's rule: a chain of scripts leads to v.  That is, v is in every set
\* that has the base versions and all that their upgrades lead to.
Installable(v) ==
  \A S \in SUBSET Versions : base \subseteq S /\ Closed(S) => v \in S

(***************************************************************************)
(* The search says yes to what can be installed and no to all else,        *)
(* whatever the scripts, cycles and dead ends included, and in whatever    *)
(* order it looks at them (doctor-native-plugin-package.py:1540-1552).     *)
(***************************************************************************)
AnswerIsRight ==
  /\ answer = "yes" => Installable(wanted)
  /\ answer = "no" => ~Installable(wanted)

(***************************************************************************)
(* Every step gets nearer to the end: it answers, finds new versions, or   *)
(* leaves fewer to look at.  With finitely many versions the search ends,  *)
(* though upgrade scripts may form cycles (:1549-1551).                    *)
(***************************************************************************)
StepForward ==
  \/ answer' # "searching"
  \/ seen \subseteq seen' /\ seen # seen'
  \/ seen' = seen /\ pending' \subseteq pending /\ pending' # pending

SearchGetsOn == [][answer = "searching" => StepForward]_vars
===============================================================================
