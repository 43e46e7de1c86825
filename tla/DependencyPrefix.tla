---------------------------- MODULE DependencyPrefix ----------------------------
(***************************************************************************)
(* The dependency sources and the static prefix built from them:           *)
(* fetch-native-dependency-sources.py, build-native-dependency-prefix.sh   *)
(* and describe-native-dependency-prefix.py, run after run, each of which  *)
(* may fail or be killed anywhere, while the pinned versions change from   *)
(* one to the next.  What is cached is trusted by its checksum or its HEAD *)
(* commit, what is installed by nothing.                                   *)
(*                                                                         *)
(* One script runs at a time, and the inventory is edited between runs     *)
(* only.  External: the downloads, git, and the builds themselves.         *)
(***************************************************************************)
EXTENDS DependencyInventory, Naturals, Sequences

CONSTANTS DepOrder,  \* the dependencies, in the order of the inventory
          Checkouts, \* those fetched as git checkouts
          Unborn     \* HEAD of a checkout into which nothing was fetched

ASSUME DependencyPrefixAssumption ==
  /\ DepOrder \in Seq(Deps) /\ Deps = {DepOrder[i] : i \in DOMAIN DepOrder}
  /\ Checkouts \subseteq Deps
  /\ None # Unborn /\ None \notin Deps /\ Unborn \notin Versions

VARIABLES
  pinned, \* dependency -> its version in deps/native-pglite-dependencies.json
  cache,  \* dependency -> its source
  making, \* how far the script has come, with which arguments
  budget  \* edits and stops that may still happen

prefixRunVars == <<pinned, cache, prefix, making, budget>>

NotMaking == [at |-> "idle", dep |-> 0, only |-> None, verify |-> FALSE]

PrefixInit ==
  /\ pinned \in [Deps -> Versions]
  /\ cache = [d \in Deps |-> [head |-> None, whole |-> FALSE]]
  /\ prefix = [d \in Deps |-> [lib |-> None, pc |-> None]]
  /\ making = NotMaking
  /\ budget = [edits |-> MaxEdits, stops |-> MaxStops]

MakingAt(p) == making.at = p
MakingGoes(p) == making' = [making EXCEPT !.at = p]
Dep == DepOrder[making.dep]
\* On to the next dependency, of those to fetch or of those to build.
NextDep ==
  making' = [making EXCEPT !.at = IF @ \in {"step", "installing"} THEN "step" ELSE "fetch",
                           !.dep = @ + 1]

\* Between two runs, a dependency gets another version.
EditPins ==
  /\ MakingAt("idle") /\ budget.edits > 0
  /\ \E d \in Deps : \E v \in Versions \ {pinned[d]} :
       pinned' = [pinned EXCEPT ![d] = v]
  /\ budget' = [budget EXCEPT !.edits = @ - 1]
  /\ UNCHANGED <<cache, prefix, making>>

\* The script fails in an external step, or is killed.
StopMaking ==
  /\ ~MakingAt("idle") /\ budget.stops > 0
  /\ budget' = [budget EXCEPT !.stops = @ - 1]
  /\ making' = NotMaking
  /\ UNCHANGED <<pinned, cache, prefix>>

-------------------------------------------------------------------------------
(***************************************************************************)
(* The dependency sources: an archive is known by its checksum and comes   *)
(* into its place by one move; a checkout is known by its HEAD, which      *)
(* comes last, and removing it may stop half-way.                          *)
(***************************************************************************)
StartPrefix(only, verify) ==
  /\ MakingAt("idle")
  /\ making' = [NotMaking EXCEPT !.at = "fetch", !.dep = 1, !.only = only, !.verify = verify]
  /\ UNCHANGED <<pinned, cache, prefix, budget>>

Fetching == MakingAt("fetch") /\ making.dep <= Len(DepOrder)

\* Mutant: any cached source will do.
AnyCached == cache[Dep].head # None
CacheIsGood == cache[Dep].head = pinned[Dep]

FetchFound ==
  /\ Fetching /\ CacheIsGood
  /\ NextDep
  /\ UNCHANGED <<pinned, cache, prefix, budget>>

\* --verify-cache-only, and every run that meets a checkout without a commit.
FetchRefused ==
  /\ Fetching /\ ~CacheIsGood
  /\ making.verify \/ cache[Dep].head = Unborn
  /\ making' = NotMaking
  /\ UNCHANGED <<pinned, cache, prefix, budget>>

Refetching == Fetching /\ ~CacheIsGood /\ ~making.verify

FetchArchive ==
  /\ Refetching /\ Dep \notin Checkouts
  /\ cache' = [cache EXCEPT ![Dep] = [head |-> pinned[Dep], whole |-> TRUE]]
  /\ NextDep
  /\ UNCHANGED <<pinned, prefix, budget>>

\* The old checkout goes, some of it first.
FetchClear ==
  /\ Refetching /\ Dep \in Checkouts /\ cache[Dep].head \in Versions
  /\ \/ /\ cache[Dep].whole
        /\ cache' = [cache EXCEPT ![Dep].whole = FALSE]
     \/ cache' = [cache EXCEPT ![Dep] = [head |-> None, whole |-> FALSE]]
  /\ UNCHANGED <<pinned, prefix, making, budget>>

FetchInit ==
  /\ Refetching /\ Dep \in Checkouts /\ cache[Dep].head = None
  /\ cache' = [cache EXCEPT ![Dep].head = Unborn]
  /\ MakingGoes("checkout")
  /\ UNCHANGED <<pinned, prefix, budget>>

FetchCheckout ==
  /\ MakingAt("checkout")
  /\ cache' = [cache EXCEPT ![Dep] = [head |-> pinned[Dep], whole |-> TRUE]]
  /\ NextDep
  /\ UNCHANGED <<pinned, prefix, budget>>

\* All sources are there: a full run starts from an empty prefix.
FetchDone ==
  /\ MakingAt("fetch") /\ making.dep > Len(DepOrder)
  /\ making' = [making EXCEPT !.at = IF making.only = None THEN "clear" ELSE "step", !.dep = 1]
  /\ UNCHANGED <<pinned, cache, prefix, budget>>

-------------------------------------------------------------------------------
(***************************************************************************)
(* The dependency prefix.  A full run empties it, anything first; a run    *)
(* with --only installs one dependency into what is there, its library     *)
(* and its pkg-config file in either order.                                *)
(***************************************************************************)
PrefixClear ==
  /\ MakingAt("clear")
  /\ \/ /\ \E d \in Deps, part \in {"lib", "pc"} :
             /\ prefix[d][part] # None
             /\ prefix' = [prefix EXCEPT ![d][part] = None]
        /\ UNCHANGED making
     \/ /\ \A d \in Deps : prefix[d] = [lib |-> None, pc |-> None]
        /\ making' = [making EXCEPT !.at = "step"]
        /\ UNCHANGED prefix
  /\ UNCHANGED <<pinned, cache, budget>>

Step == MakingAt("step") /\ making.dep <= Len(DepOrder)
Wanted == making.only \in {None, Dep}

DepSkipped ==
  /\ Step /\ ~Wanted
  /\ NextDep
  /\ UNCHANGED <<pinned, cache, prefix, budget>>

\* Extracted or taken from the checkout, configured, made, and half installed.
DepBuilt ==
  /\ Step /\ Wanted /\ cache[Dep].whole
  /\ \E part \in IF Dep \in Probed THEN {"lib", "pc"} ELSE {"lib"} :
       prefix' = [prefix EXCEPT ![Dep][part] = cache[Dep].head]
  /\ MakingGoes("installing")
  /\ UNCHANGED <<pinned, cache, budget>>

InstalledDep == [lib |-> cache[Dep].head,
                 pc |-> IF Dep \in Probed THEN cache[Dep].head ELSE None]
DepInstalled ==
  /\ MakingAt("installing")
  /\ prefix' = [prefix EXCEPT ![Dep] = InstalledDep]
  /\ NextDep
  /\ UNCHANGED <<pinned, cache, budget>>

\* A source with files missing does not build.
DepTorn ==
  /\ Step /\ Wanted /\ ~cache[Dep].whole
  /\ making' = NotMaking
  /\ UNCHANGED <<pinned, cache, prefix, budget>>

\* The run ends with the description, which a full run requires to be complete.
PrefixDescribed ==
  /\ MakingAt("step") /\ making.dep > Len(DepOrder)
  /\ making.only = None => Complete
  /\ making' = NotMaking
  /\ UNCHANGED <<pinned, cache, prefix, budget>>

PrefixNext ==
  \/ EditPins \/ StopMaking
  \/ \E only \in OrNone(Deps), verify \in BOOLEAN : StartPrefix(only, verify)
  \/ FetchFound \/ FetchRefused \/ FetchArchive \/ FetchClear \/ FetchInit
  \/ FetchCheckout \/ FetchDone \/ PrefixClear \/ DepSkipped \/ DepBuilt
  \/ DepInstalled \/ DepTorn \/ PrefixDescribed

PrefixSpec == PrefixInit /\ [][PrefixNext]_prefixRunVars

-------------------------------------------------------------------------------
PrefixTypeOK ==
  /\ pinned \in [Deps -> Versions]
  /\ cache \in [Deps -> [head : Versions \cup {None, Unborn}, whole : BOOLEAN]]
  /\ prefix \in [Deps -> [lib : OrNone(Versions), pc : OrNone(Versions)]]
  /\ making \in [at : {"idle", "fetch", "checkout", "clear", "step", "installing"},
              dep : 0..(Len(DepOrder) + 1), only : OrNone(Deps), verify : BOOLEAN]

(***************************************************************************)
(* A full run of build-native-dependency-prefix.sh that reaches its end    *)
(* leaves every dependency at its pinned version, whatever was cached or   *)
(* installed, and however an earlier run ended (fetch-native-dependency-   *)
(* sources.py:91, 134, build-native-dependency-prefix.sh:224-230).         *)
(***************************************************************************)
FullPrefixIsPinned ==
  MakingAt("step") /\ making.only = None /\ making.dep > Len(DepOrder) =>
    \A d \in Deps : /\ prefix[d].lib = pinned[d]
                    /\ d \in Probed => prefix[d].pc = pinned[d]

(***************************************************************************)
(* Not among the runs: TLC refutes it.  After git init, a fetch that fails *)
(* leaves a checkout without a commit, which every later run meets with an *)
(* error instead of fetching again (fetch-native-dependency-sources.py:    *)
(* 133-134, 181-182).                                                      *)
(***************************************************************************)
EveryCacheCanBeRefilled == MakingAt("idle") => \A d \in Deps : cache[d].head # Unborn
==============================================================================
