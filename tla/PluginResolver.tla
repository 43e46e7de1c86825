----------------------------- MODULE PluginResolver -----------------------------
(***************************************************************************)
(* Which plugin library a host loads, and with which PostgreSQL            *)
(* installation: the resolvers of src/release.rs and the prefix that       *)
(* load_resolved (src/dynamic.rs) puts into the configuration.             *)
(*                                                                         *)
(* Paths are reduced to the directories they lead to; a directory may hold *)
(* the plugin library and a "postgres" directory.  A deployment may change *)
(* both while the resolver looks from one place to the next.               *)
(***************************************************************************)
EXTENDS Naturals, Sequences, SequencesExt

CONSTANTS
  Dirs,       \* directories that matter
  Parent,     \* directory -> its parent, for the directories that have one
  DepsDirs,   \* those called "deps"
  None,       \* no path, no prefix, no directory
  MaxChanges  \* bound: changes of the file system under the resolver

ASSUME ResolverAssumption ==
  /\ None \notin Dirs
  /\ DOMAIN Parent \subseteq Dirs /\ \A d \in DOMAIN Parent : Parent[d] \in Dirs
  /\ DepsDirs \subseteq Dirs
  /\ MaxChanges \in Nat

VARIABLES
  plugins, prefixes, \* directories that hold the library, a postgres directory
  changes,           \* changes of these so far
  ask,       \* what the host asks for
  pc,        \* where the resolver stands
  frontier,  \* candidate directories still to be probed
  chosen,    \* directory of the library that was found
  source,    \* NativePluginSource
  packaged,  \* ResolvedNativePlugin.postgres_prefix
  prefix     \* LIBPGLITE_POSTGRES_PREFIX in the configuration

resolverVars == <<plugins, prefixes, changes, ask, pc, frontier, chosen, source, packaged, prefix>>
files == <<plugins, prefixes, changes>>

MaybeDir == Dirs \cup {None}

(***************************************************************************)
(* The request: the resolver, the directory LIBPGLITE_PLUGIN_PATH leads    *)
(* to, the plugin directory or cache directory given, the directory of the *)
(* host binary as it was called and with symlinks resolved (None if that   *)
(* fails), and a prefix the configuration already names.                   *)
(***************************************************************************)
Requests == [resolver : {"bundled", "cache"}, pluginPath : MaybeDir, dir : MaybeDir,
             host : MaybeDir, canonical : MaybeDir, given : MaybeDir]

ResolverTypeOK ==
  /\ plugins \subseteq Dirs /\ prefixes \subseteq Dirs /\ changes \in 0 .. MaxChanges
  /\ ask \in Requests
  /\ pc \in {"start", "probe", "prefix", "config", "done", "failed"}
  /\ frontier \in Seq(Dirs) /\ IsInjective(frontier)
  /\ {chosen, packaged, prefix} \subseteq MaybeDir
  /\ source \in {"none", "environment", "bundled", "cache"}

ResolverInit ==
  /\ plugins \in SUBSET Dirs /\ prefixes \in SUBSET Dirs /\ changes = 0
  /\ ask \in Requests
  /\ ask.host = None => ask.canonical = None
  /\ ask.resolver = "cache" => ask.host = None
  /\ pc = "start" /\ frontier = <<>>
  /\ chosen = None /\ source = "none" /\ packaged = None /\ prefix = None

-----------------------------------------------------------------------------

\* push_unique_path
\* Mutant: the path is pushed whether it is there or not.
PushAlways(paths, d) == Append(paths, d)
PushUnique(paths, d) == IF d \in ToSet(paths) THEN paths ELSE Append(paths, d)

\* push_host_binary_plugin_candidate_dirs
PushHost(paths, d) ==
  LET own == PushUnique(paths, d) IN
  IF d \in DepsDirs /\ d \in DOMAIN Parent THEN PushUnique(own, Parent[d]) ELSE own

\* The candidates for a host binary: where it was called, then where it is.
\* Mutant: only where it was called.
RawFrontier(host, canonical) == PushHost(<<>>, host)
HostFrontier(host, canonical) ==
  LET raw == PushHost(<<>>, host) IN
  IF canonical = None THEN raw ELSE PushHost(raw, canonical)

\* An exact plugin path decides alone, then an exact directory, then the host's
\* frontier; without any of them nothing can be found.
\* Mutant: with an exact path that has no plugin the search goes on elsewhere.
PathThenElsewhere(q) == <<q.pluginPath>> \o (IF q.dir = None THEN <<>> ELSE <<q.dir>>)
PathAlone(q) == <<q.pluginPath>>

Candidates(q) ==
  CASE q.pluginPath # None -> PathAlone(q)
    [] q.pluginPath = None /\ q.dir # None -> <<q.dir>>
    [] q.pluginPath = None /\ q.dir = None /\ q.host # None
         -> HostFrontier(q.host, q.canonical)
    [] OTHER -> <<>>

SourceOf(q) ==
  CASE q.pluginPath # None -> "environment"
    [] q.pluginPath = None /\ q.resolver = "cache" -> "cache"
    [] OTHER -> "bundled"

Start ==
  /\ pc = "start"
  /\ frontier' = Candidates(ask)
  /\ pc' = "probe"
  /\ UNCHANGED <<files, ask, chosen, source, packaged, prefix>>

\* is_file of the library in the next candidate.
Probe ==
  /\ pc = "probe"
  /\ IF frontier = <<>>
       THEN pc' = "failed" /\ UNCHANGED <<frontier, chosen, source>>
       ELSE IF Head(frontier) \in plugins
         THEN pc' = "prefix" /\ chosen' = Head(frontier) /\ source' = SourceOf(ask)
              /\ UNCHANGED frontier
         ELSE frontier' = Tail(frontier) /\ UNCHANGED <<pc, chosen, source>>
  /\ UNCHANGED <<files, ask, packaged, prefix>>

\* packaged_postgres_prefix: is_dir of "postgres" beside the library.
PackagedPrefix ==
  /\ pc = "prefix"
  /\ packaged' = IF chosen \in prefixes THEN chosen ELSE None
  /\ pc' = "config"
  /\ UNCHANGED <<files, ask, frontier, chosen, source, prefix>>

\* config_with_resolved_plugin_environment: the configuration's own prefix stays.
GivenFirst == IF ask.given # None THEN ask.given ELSE packaged
Configure ==
  /\ pc = "config"
  /\ prefix' = GivenFirst
  /\ pc' = "done"
  /\ UNCHANGED <<files, ask, frontier, chosen, source, packaged>>

\* A package is installed, removed or replaced in a directory.
Deploy ==
  /\ pc \in {"probe", "prefix"} /\ changes < MaxChanges
  /\ changes' = changes + 1
  /\ \E d \in Dirs :
       \/ plugins' = plugins \cup {d} /\ prefixes' = prefixes \cup {d}
       \/ plugins' = plugins \ {d} /\ prefixes' = prefixes \ {d}
  /\ UNCHANGED <<ask, pc, frontier, chosen, source, packaged, prefix>>

ResolverNext == Start \/ Probe \/ PackagedPrefix \/ Configure \/ Deploy

ResolverSpec == ResolverInit /\ [][ResolverNext]_resolverVars

-----------------------------------------------------------------------------
(* Properties.                                                             *)

Quiet == changes = 0

\* Explicit choices are exact: a plugin path or a directory that was named is
\* the only place a plugin is ever taken from, whatever else is installed and
\* whatever is deployed meanwhile (ADR-0016: "exact and higher-priority").
\* Otherwise, as long as nothing is deployed, a product host finds the plugin
\* bundled beside its real executable, or beside the "deps" directory that is in,
\* however it was launched; one beside the launcher itself goes before it.
TheRightPluginIsChosen ==
  LET q == ask
      byHost == q.pluginPath = None /\ q.dir = None /\ q.host # None
      Near(d) == {d} \cup {Parent[e] : e \in {d} \cap DepsDirs \cap DOMAIN Parent}
  IN /\ chosen # None =>
          /\ q.pluginPath # None => chosen = q.pluginPath /\ source = "environment"
          /\ q.pluginPath = None /\ q.dir # None => chosen = q.dir
     /\ Quiet /\ byHost =>
          /\ pc = "failed" => plugins \cap Near(q.host) = {}
          /\ pc = "failed" /\ q.canonical # None => plugins \cap Near(q.canonical) = {}
          /\ chosen # None /\ plugins \cap Near(q.host) # {} => chosen \in Near(q.host)
=============================================================================
