------------------------------ MODULE PackageDoctor ----------------------------
(***************************************************************************)
(* What package-native-plugin-release.sh puts into a native package, and   *)
(* what doctor-native-plugin-package.py makes of it.  The packager repairs *)
(* the staged libraries, scans what they load                              *)
(* (generate-native-dependency-manifest.py) and writes the diagnostics and *)
(* the bundle.  The doctor runs its checks in a fixed order, collects      *)
(* complaints, skips what a missing file makes impossible to check, and    *)
(* accepts a package without complaints.  May one fault hide another?      *)
(*                                                                         *)
(* Between the two, files get lost, spoiled, cut short at a line, or come  *)
(* from another package: the doctor takes any directory.  One name stands  *)
(* for each group of symbols and of paths that the scripts treat alike.    *)
(***************************************************************************)
EXTENDS Naturals, FiniteSets

CONSTANTS Backend,   \* backend symbols that extension modules may refer to
          Patches,   \* patch files of postgres-pglite
          Versions,  \* versions of an extension
          Default,   \* the one that control files name
          Tests,     \* conformance tests, "raw-protocol" among them
          SelfTests, \* cargo runs of the doctor's self-test
          None,      \* not there
          Garbled,   \* a file nobody can read
          Graphs,    \* bound: [base, edges] of the odd script sets that occur
          MaxFaults  \* bound: things that go wrong with one package

ASSUME DoctorAssumption ==
  /\ None # Garbled /\ None \notin Versions /\ None \notin {1, 2}
  /\ {None, Garbled} \cap {"hstore", "postgis", "single-start-per-process"} = {}
  /\ Backend # {} /\ Default \in Versions /\ "raw-protocol" \in Tests
  /\ Graphs \subseteq [base : SUBSET Versions, edges : SUBSET (Versions \X Versions)]

VARIABLES
  stage, \* what the packager is given
  pkg,   \* the package: each part's content
  doc,   \* the doctor's run
  left,  \* faults that may still happen
  base, edges, wanted, seen, pending, answer \* its search for an install path

Path == INSTANCE InstallPath
search == <<base, edges, wanted, seen, pending, answer>>
vars == <<stage, pkg, doc, left, search>>

\* The plugin's C functions that the scripts list, and the one that only macOS exports.
Abi == {"abi"}
Unlisted == {"take_backend_output"}

Extensions == {"hstore", "postgis"}
Libs == Extensions \cup {"auto_explain"}
Objects == Libs \cup {"plugin"}

\* Where an object's dependency is: of the system or of a host package beside it,
\* in the package, relative to the loader in the package, where there is no such file,
\* and out of the package, at the PostgreSQL install prefix, Homebrew's libcrypto, other Homebrew, /usr/local, a build tree,
\* elsewhere, nowhere, or just a name.
Places == {"system", "host", "package", "relative", "astray", "escaping", "installed", "crypto",
           "homebrew", "local", "build", "external", "missing", "bare"}

PrefixFiles == {"initdb", "postgres", "pg_config", "Makefile.global", "pgxs.mk",
                "postgres.bki", "snowball_create.sql", "plpgsql.control"}

TextDiagnostics == {"buildProvenance", "nativeLinkManifest", "extensionInventory",
                    "pluginDefinedSymbols", "backendExportSymbols", "dependencies"}
JsonDiagnostics == {"dependencyManifest", "platformBaseline", "sourceProvenance",
                    "runtimeLifecycle", "dependencyPrefix"}
Diagnostics == TextDiagnostics \cup JsonDiagnostics
Files == {"bundle", "plugin"} \cup Diagnostics

-------------------------------------------------------------------------------
(***************************************************************************)
(* The dependency scan: the packager's repair of what it staged, then      *)
(* generate-native-dependency-manifest.py on the plugin and the libraries  *)
(* of postgres/lib.  On Linux ldd shows what the new search path finds.    *)
(* On macOS the path becomes @loader_path/<name> in the plugin, too, which *)
(* does not lie in postgres/lib, where the library is.                     *)
(***************************************************************************)
Repaired(target, o, p) ==
  CASE target = "darwin" /\ p \in {"installed", "crypto"} ->
         IF o = "plugin" THEN "astray" ELSE "relative"
    [] target = "linux" /\ p = "installed" -> "package"
    [] target = "linux" /\ p = "build" -> "missing"
    [] OTHER -> p

\* dependency_record: the first prefix that fits.
Classes ==
  [p \in Places |->
     CASE p = "missing" -> "missing"
       [] p \in {"relative", "astray", "escaping"} -> "loader-relative"
       [] p = "package" -> "package"
       [] p \in {"system", "host"} -> "platform"
       [] p \in {"local", "homebrew", "crypto"} -> "local-provider"
       [] p \in {"installed", "build"} -> "build-machine"
       [] p = "external" -> "absolute-external"
       [] p = "bare" -> "unknown"]

Scan(deps) ==
  [o \in Objects |-> {[raw |-> p, class |-> Classes[p]] : p \in deps[o]}]

BadClasses == {"local-provider", "build-machine", "absolute-external", "missing", "unknown"}
Escapes(d) == d.class = "loader-relative" /\ d.raw = "escaping"
\* Mutant: loader-relative paths are not looked into.
BadClass(d) == d.class \in BadClasses
BadDependency(d) == d.class \in BadClasses \/ Escapes(d)

\* looks_like_build_path, for a line of dependencies.txt.
BuildPaths == {"installed", "build", "crypto", "homebrew"}

Tool(target) == IF target = "darwin" THEN "otool -L" ELSE "ldd"
Platform(target) == IF target = "darwin" THEN "Darwin" ELSE "Linux"

-------------------------------------------------------------------------------
(***************************************************************************)
(* The packager: what it is given (Honest, until something goes wrong),    *)
(* what it refuses, and what it writes.                                    *)
(***************************************************************************)
Inventory(status) ==
  {[kind |-> "contrib_extension", name |-> "hstore", pinned |-> TRUE, status |-> "present"],
   [kind |-> "contrib_module", name |-> "auto_explain", pinned |-> TRUE, status |-> "present"],
   [kind |-> "other_extension", name |-> "postgis", pinned |-> TRUE, status |-> status]}

Passed(t) == [name |-> t, passed |-> TRUE, command |-> t, log |-> 1, cases |-> TRUE]

OneScript(v) == [base |-> {v}, edges |-> {}, libs |-> {}, placeholder |-> TRUE]

Honest(target, mode) ==
  [target |-> target, mode |-> mode, release |-> 1,
   plugin |-> [no |-> 1, exports |-> Abi \cup Backend \cup
                                     (IF target = "darwin" THEN Unlisted ELSE {})],
   exports |-> Backend, needs |-> [l \in Libs |-> Backend],
   source |-> 1, prepared |-> [p \in Patches |-> 1], repo |-> [p \in Patches |-> 1],
   baseline |-> 1, controlled |-> mode = "production",
   deps |-> [o \in Objects |-> IF o = "plugin" THEN {"system"} ELSE {"system", "installed"}],
   inventory |-> Inventory("present"),
   controls |-> [e \in Extensions |-> [default |-> Default, lib |-> e]],
   scripts |-> [e \in Extensions |-> OneScript(Default)],
   proj |-> TRUE, leaks |-> FALSE, alien |-> FALSE,
   results |-> [t \in Tests |-> [json |-> Passed(t), log |-> 1]]]

ExportsAccepted(s) ==
  /\ Abi \subseteq s.plugin.exports
  /\ s.target = "linux" => s.plugin.exports \subseteq Abi \cup s.exports

PackagerAccepts(s) ==
  /\ ExportsAccepted(s)
  /\ \A t \in Tests : s.results[t].json # None /\ s.results[t].log # None
  /\ s.mode = "production" => s.controlled

RuntimeStatus(mode) == IF mode = "production" THEN "runtime-ready" ELSE "development"

\* The bundle and the build provenance name the dependency prefix only when the
\* link manifest has one.
\* Mutant: they always do.
AllNamed(s) == Diagnostics
Named(s) == IF s.controlled THEN Diagnostics ELSE Diagnostics \ {"dependencyPrefix"}

Packed(s) ==
  LET deps == [o \in Objects |-> {Repaired(s.target, o, p) : p \in s.deps[o]}]
      id == [target |-> s.target, release |-> s.release, mode |-> s.mode,
             status |-> RuntimeStatus(s.mode), plugin |-> s.plugin.no]
  IN [bundle |-> [id |-> id, layout |-> TRUE, names |-> Named(s)],
      plugin |-> s.plugin,
      prefix |-> PrefixFiles, leaks |-> s.leaks, alien |-> s.alien,
      libs |-> s.needs, controls |-> s.controls, scripts |-> s.scripts, proj |-> s.proj,
      deps |-> deps,
      buildProvenance |-> [id |-> id, baseline |-> s.baseline, names |-> Named(s),
                           whole |-> TRUE],
      nativeLinkManifest |-> [source |-> s.source, patches |-> s.prepared,
                              baseline |-> s.baseline, exports |-> s.exports],
      extensionInventory |-> s.inventory,
      pluginDefinedSymbols |-> s.plugin.exports,
      backendExportSymbols |-> s.exports,
      dependencies |-> [tool |-> TRUE, objects |-> Objects,
                        places |-> UNION {deps[o] : o \in Objects}],
      dependencyManifest |-> [platform |-> Platform(s.target), tool |-> Tool(s.target),
                              objects |-> Scan(deps)],
      platformBaseline |-> [target |-> s.target, baseline |-> s.baseline],
      sourceProvenance |-> [source |-> s.source, patches |-> s.repo],
      runtimeLifecycle |-> "single-start-per-process",
      dependencyPrefix |-> IF s.controlled THEN [complete |-> TRUE] ELSE None,
      results |-> s.results]

\* What the files of a package hold, when there is something to read.
Targets == {"darwin", "linux"}
Modes == {"development", "production"}
Statuses == {"development", "runtime-ready"}
Nos == {1, 2}

Entries ==
  {i \in [kind : {"contrib_extension", "contrib_module", "other_extension"}, name : Libs,
          pinned : BOOLEAN, status : {"present", "missing"}] :
     /\ i.kind # "contrib_module" => i.name \in Extensions
     /\ i.name = "postgis" => i.kind = "other_extension"}

Ids(plugins) ==
  [target : Targets, release : Nos, mode : Modes, status : Statuses, plugin : plugins]
Bundles ==
  [id : Ids(Nos \cup {None}), layout : BOOLEAN, names : {None} \cup SUBSET Diagnostics]
Provenances ==
  [id : Ids(Nos), baseline : Nos, names : SUBSET Diagnostics, whole : BOOLEAN]
Manifests ==
  [source : Nos, patches : [Patches -> Nos] \cup [{} -> Nos], baseline : Nos \cup {None},
   exports : SUBSET Backend]
Baselines == [target : Targets, baseline : Nos]
Sources == [source : Nos, patches : [Patches -> Nos]]
Plugins == [no : Nos, exports : SUBSET (Abi \cup Unlisted \cup Backend)]
Listings == [tool : BOOLEAN, objects : SUBSET Objects, places : SUBSET Places]
Loads == [raw : Places, class : BadClasses \cup {"loader-relative", "package", "platform"}]
Scans ==
  [platform : {"Darwin", "Linux"}, tool : {"otool -L", "ldd"},
   objects : [Objects -> SUBSET Loads]]

\* A file that is not there, and one that nobody can read, hold none of this.
ASSUME AbsenceAssumption ==
  \A nothing \in {None, Garbled} :
    /\ nothing \notin BOOLEAN /\ nothing \notin Nos
    /\ nothing \notin Targets \cup Modes \cup Statuses
    /\ \A held \in SUBSET (Abi \cup Unlisted \cup Backend) : nothing # held
    /\ \A held \in SUBSET Diagnostics : nothing # held
    /\ \A status \in {"present", "missing"} : nothing # Inventory(status)
    /\ nothing \notin Bundles \cup Provenances \cup Manifests \cup Baselines \cup Sources
    /\ nothing \notin Plugins \cup Listings \cup Scans \cup [complete : BOOLEAN]

-------------------------------------------------------------------------------
(***************************************************************************)
(* What may be wrong with what the packager is given, and what may happen  *)
(* to the package afterwards.                                              *)
(***************************************************************************)
At(p) == doc.at = p
Readable(c) == c \notin {None, Garbled}
Fault == left > 0 /\ left' = left - 1

Init ==
  /\ Path!Init /\ wanted = Default
  /\ \E target \in {"darwin", "linux"}, mode \in {"development", "production"},
        strict \in BOOLEAN :
       /\ strict => mode = "development"
       /\ stage = Honest(target, mode)
       /\ doc = [at |-> "packager", strict |-> strict, symbols |-> None, errors |-> {},
                 todo |-> {}, entry |-> None]
  /\ pkg = None
  /\ left = MaxFaults

\* One library has odd dependencies for all of them.
OddBinaries ==
  \/ \E o \in {"plugin", "hstore"}, p \in Places : stage' = [stage EXCEPT !.deps[o] = @ \cup {p}]
  \/ \E S \in SUBSET Backend :
       stage' = [stage EXCEPT !.plugin.exports = (@ \ Backend) \cup S]
  \/ \E l \in Libs, n \in {None} \cup SUBSET Backend : stage' = [stage EXCEPT !.needs[l] = n]

OddSources ==
  \/ \E p \in Patches : stage' = [stage EXCEPT !.repo[p] = 2]
  \/ stage' = [stage EXCEPT !.baseline = 2]
  \/ stage' = [stage EXCEPT !.controlled = ~@]
  \/ stage' = [stage EXCEPT !.leaks = TRUE]
  \/ stage' = [stage EXCEPT !.alien = TRUE]

Linked(scripts, g) == [scripts EXCEPT !.base = g.base, !.edges = g.edges]

OddExtensions ==
  \/ \E e \in Extensions, g \in Graphs :
       stage' = [stage EXCEPT !.scripts[e] = Linked(stage.scripts[e], g)]
  \/ \E e \in Extensions, l \in Libs : stage' = [stage EXCEPT !.scripts[e].libs = {l}]
  \/ \E e \in Extensions :
       /\ stage.controls[e] # None
       /\ \/ stage' = [stage EXCEPT !.controls[e] = None]
          \/ stage' = [stage EXCEPT !.controls[e].default = None]
          \/ stage' = [stage EXCEPT !.controls[e].lib = None]
  \/ stage' = [stage EXCEPT !.inventory = Inventory("missing")]
  \/ \E i \in stage.inventory :
       stage' = [stage EXCEPT !.inventory = (@ \ {i}) \cup {[i EXCEPT !.pinned = FALSE]}]
  \/ \E there \in {None, Garbled} : stage' = [stage EXCEPT !.proj = there]

OddResults ==
  \E t \in Tests :
    \/ \E c \in {None, Garbled} : stage' = [stage EXCEPT !.results[t].json = c]
    \/ \E u \in Tests : stage' = [stage EXCEPT !.results[t].json = stage.results[u].json]
    \/ \E l \in {None, 2} : stage' = [stage EXCEPT !.results[t].log = l]
    \/ /\ Readable(stage.results[t].json)
       /\ \/ stage' = [stage EXCEPT !.results[t].json.passed = FALSE]
          \/ stage' = [stage EXCEPT !.results[t].json.cases = FALSE]
          \/ \E u \in Tests : stage' = [stage EXCEPT !.results[t].json.command = u]

StageFault ==
  /\ At("packager") /\ Fault
  /\ OddBinaries \/ OddSources \/ OddExtensions \/ OddResults
  /\ UNCHANGED <<pkg, doc, search>>

Package ==
  /\ At("packager") /\ PackagerAccepts(stage)
  /\ pkg' = Packed(stage)
  /\ doc' = [doc EXCEPT !.at = "shipped"]
  /\ UNCHANGED <<stage, left, search>>

PackageRefused ==
  /\ At("packager") /\ ~PackagerAccepts(stage)
  /\ doc' = [doc EXCEPT !.at = "refused"]
  /\ UNCHANGED <<stage, pkg, left, search>>

\* Other packages whose files may get into this one.
Others ==
  {Packed([stage EXCEPT !.release = 2, !.plugin.no = 2, !.exports = {}, !.source = 2,
                        !.prepared = [p \in Patches |-> 2], !.repo = [p \in Patches |-> 2]]),
   Packed([stage EXCEPT !.mode = IF @ = "production" THEN "development" ELSE "production"]),
   Packed([stage EXCEPT !.target = IF @ = "linux" THEN "darwin" ELSE "linux"])}

\* A text file up to some line after its format header.
CutShort(f) ==
  CASE f = "buildProvenance" -> {[pkg[f] EXCEPT !.whole = FALSE]}
    [] f = "nativeLinkManifest" ->
         {[pkg[f] EXCEPT !.baseline = None, !.exports = S] : S \in SUBSET pkg[f].exports} \cup
         {[pkg[f] EXCEPT !.baseline = None, !.exports = {}, !.patches = [p \in {} |-> 1]]}
    [] f = "dependencies" ->
         {[pkg[f] EXCEPT !.objects = {"plugin"}, !.places = {}],
          [pkg[f] EXCEPT !.objects = {}, !.places = {}],
          [pkg[f] EXCEPT !.objects = {}, !.places = {}, !.tool = FALSE]}
    [] OTHER -> SUBSET pkg[f]

PackageFault ==
  /\ At("shipped") /\ Fault
  /\ \/ \E f \in Files, c \in {None, Garbled} : pkg' = [pkg EXCEPT ![f] = c]
     \/ \E f \in TextDiagnostics : /\ Readable(pkg[f])
                                   /\ \E c \in CutShort(f) : pkg' = [pkg EXCEPT ![f] = c]
     \/ \E f \in Files, other \in Others : pkg' = [pkg EXCEPT ![f] = other[f]]
     \/ \E f \in PrefixFiles : pkg' = [pkg EXCEPT !.prefix = @ \ {f}]
     \/ /\ Readable(pkg.bundle)
        /\ \/ /\ pkg.bundle.names # None
              /\ \E k \in Diagnostics : pkg' = [pkg EXCEPT !.bundle.names = @ \ {k}]
           \/ pkg' = [pkg EXCEPT !.bundle.names = None]
           \/ pkg' = [pkg EXCEPT !.bundle.id.plugin = None]
           \/ pkg' = [pkg EXCEPT !.bundle.layout = FALSE]
           \/ \E s \in {"runtime-ready", "development"} :
                pkg' = [pkg EXCEPT !.bundle.id.status = s]
  /\ UNCHANGED <<stage, doc, search>>

-------------------------------------------------------------------------------
(***************************************************************************)
(* The doctor's run.  A check adds its complaints and goes on; the verdict *)
(* comes at the end.                                                       *)
(***************************************************************************)
Unless(fine, what) == IF fine THEN {} ELSE {what}

Report(next, complaints) ==
  /\ doc' = [doc EXCEPT !.at = next, !.errors = @ \cup complaints]
  /\ UNCHANGED <<stage, pkg, left, search>>

\* self.bundle, which is empty when the file cannot be read.
NoBundle ==
  [id |-> [target |-> None, release |-> None, mode |-> None, status |-> None,
           plugin |-> None], layout |-> None, names |-> None]
Bundle == IF Readable(pkg.bundle) THEN pkg.bundle ELSE NoBundle
Production == Bundle.id.mode = "production"
Severe == doc.strict \/ Production

\* diagnostic_path: named in the bundle and there, and what it complains of otherwise.
\* It says nothing when the bundle has no diagnostics at all.
Found(k) == Bundle.names # None /\ k \in Bundle.names /\ pkg[k] # None
\* Mutant: what is not there is not complained of.
MissedSilently(k) == {}
Missed(k) == Unless(Bundle.names = None \/ Found(k), k)

\* The content as far as it can be read, and d instead.
Content(k, d) == IF Found(k) /\ pkg[k] # Garbled THEN pkg[k] ELSE d
Manifest ==
  Content("nativeLinkManifest", [source |-> None, patches |-> [p \in {} |-> 1],
                                 baseline |-> None, exports |-> {}])

StartDoctor ==
  /\ At("shipped")
  /\ Report("bundle", Unless(Readable(pkg.bundle), "bundle"))

BundleFaults ==
  Unless(Bundle.names # None /\ \A k \in DOMAIN Bundle.id : Bundle.id[k] # None, "fields") \cup
  Unless(Production <=> Bundle.id.status = "runtime-ready", "status")

ValidateBundle == At("bundle") /\ Report("plugin", BundleFaults)

\* The plugin's symbols are known from here on, if it can be looked at.
ActualSymbols ==
  IF Bundle.id.plugin = None \/ pkg.plugin = None THEN None
  ELSE IF pkg.plugin = Garbled THEN {} ELSE pkg.plugin.exports

ValidatePlugin ==
  /\ At("plugin")
  /\ LET symbols == ActualSymbols IN
       doc' = [doc EXCEPT !.at = "prefix", !.symbols = symbols,
                 !.errors = @ \cup
                   (IF symbols = None THEN {"plugin"}
                    ELSE Unless(Readable(pkg.plugin) /\ pkg.plugin.no = Bundle.id.plugin,
                                "checksum") \cup
                         Unless(Abi \subseteq symbols, "ABI"))]
  /\ UNCHANGED <<stage, pkg, left, search>>

LayoutFaults ==
  IF Bundle.layout = None THEN {"layout"}
  ELSE Unless(Bundle.layout, "layout") \cup (PrefixFiles \ pkg.prefix) \cup
       Unless(pkg.leaks => ~Severe, "build paths in the prefix")

ValidatePostgresPrefix == At("prefix") /\ Report("payload", LayoutFaults)

ValidateNativeOnlyPayload ==
  /\ At("payload")
  /\ Report("symbols", Unless(~pkg.alien, "payload"))

\* validate_extension_backend_symbol_claims: what modules need and the plugin exports.
Claimed(symbols, exports) ==
  \A l \in Libs : pkg.libs[l] # None => pkg.libs[l] \cap symbols \subseteq exports

ListedFine ==
  LET listed == Content("pluginDefinedSymbols", {})
  IN /\ Abi \subseteq listed
     /\ doc.symbols # None => listed = doc.symbols

ExportsFine ==
  LET exports == Content("backendExportSymbols", {})
  IN /\ exports # {}
     /\ doc.symbols # None => exports \subseteq doc.symbols /\ Claimed(doc.symbols, exports)
     /\ Found("nativeLinkManifest") => exports = Manifest.exports
     /\ Bundle.id.target = "linux" /\ Found("pluginDefinedSymbols") =>
          Content("pluginDefinedSymbols", {}) \subseteq Abi \cup exports

DiagnosticFaults ==
  IF Bundle.names = None THEN {"diagnostics"}
  ELSE {k \in TextDiagnostics : ~Found(k) \/ pkg[k] = Garbled} \cup
       Unless(Found("pluginDefinedSymbols") => ListedFine, "listed symbols") \cup
       Unless(Found("backendExportSymbols") => ExportsFine, "exports")

ValidateDiagnostics == At("symbols") /\ Report("provenance", DiagnosticFaults)

\* Mutant: the target is not compared.
SameButTarget(b, id) == \A k \in DOMAIN b \ {"target"} : b[k] # None => id[k] = b[k]
SameId(b, id) == \A k \in DOMAIN b : b[k] # None => id[k] = b[k]

\* On macOS the deployment target of the link manifest, on Linux Ubuntu 24.04 (1).
BaselineIs(version) ==
  IF Bundle.id.target = "darwin" THEN version = Manifest.baseline ELSE version = 1

ProvenanceFaults ==
  LET p == pkg.buildProvenance
  IN IF ~Found("buildProvenance") THEN Missed("buildProvenance")
     ELSE IF p = Garbled THEN {"provenance"}
     ELSE Unless(SameId(Bundle.id, p.id), "provenance") \cup
          Unless(Bundle.names \subseteq p.names, "provenance names") \cup
          Unless(BaselineIs(p.baseline), "provenance baseline") \cup
          Unless(p.whole, "provenance end")

ValidateBuildProvenance == At("provenance") /\ Report("baseline", ProvenanceFaults)

BaselineFaults ==
  LET p == pkg.platformBaseline
  IN IF ~Found("platformBaseline") THEN Missed("platformBaseline")
     ELSE IF p = Garbled THEN {"baseline"}
     ELSE Unless(p.target = Bundle.id.target, "baseline target") \cup
          Unless(BaselineIs(p.baseline), "baseline")

ValidatePlatformBaseline == At("baseline") /\ Report("sources", BaselineFaults)

SourceFaults ==
  LET s == pkg.sourceProvenance
      m == Manifest
  IN IF ~Found("sourceProvenance") THEN Missed("sourceProvenance")
     ELSE IF s = Garbled THEN {"sources"}
     ELSE Missed("nativeLinkManifest") \cup
          Unless(m.source # None => s.source = m.source, "sources") \cup
          Unless(DOMAIN s.patches = DOMAIN m.patches, "patches") \cup
          Unless(\A p \in DOMAIN s.patches \cap DOMAIN m.patches :
                   s.patches[p] = m.patches[p], "patch digests")

ValidateSourceProvenance == At("sources") /\ Report("lifecycle", SourceFaults)

LifecycleFaults ==
  IF Found("runtimeLifecycle")
    THEN Unless(pkg.runtimeLifecycle = "single-start-per-process", "lifecycle")
    ELSE Missed("runtimeLifecycle")

ValidateLifecycle == At("lifecycle") /\ Report("conformance", LifecycleFaults)

ResultFine(t) ==
  LET r == pkg.results[t]
  IN /\ Readable(r.json) /\ r.log # None
     /\ r.json.name = t /\ r.json.passed /\ r.json.command = t /\ r.json.log = r.log
     /\ t = "raw-protocol" => r.json.cases

ValidateConformance ==
  /\ At("conformance")
  /\ LET entries == Content("extensionInventory", {})
         faults == IF Bundle.names = None THEN {}
                   ELSE {t \in Tests : ~ResultFine(t)}
     IN doc' = [doc EXCEPT !.at = "extensions", !.todo = entries,
                           !.errors = @ \cup faults \cup Missed("extensionInventory")]
  /\ UNCHANGED <<stage, pkg, left, search>>

-------------------------------------------------------------------------------
(***************************************************************************)
(* validate_extensions: one inventory entry after the other.               *)
(***************************************************************************)
\* The modules that the control file and the scripts name.
\* Mutant: without those in the scripts.
ControlModule(e) == {pkg.controls[e].lib} \ {None}
NamedModules(e) ==
  LET named == (pkg.scripts[e].libs \cup {pkg.controls[e].lib}) \ {None}
  IN IF named = {} /\ pkg.scripts[e].placeholder THEN {e} ELSE named

HasScripts(e) == pkg.scripts[e].base # {} \/ pkg.scripts[e].edges # {}
Searchable(e) ==
  pkg.controls[e] # None /\ HasScripts(e) /\ pkg.controls[e].default # None

FilesFine(e) ==
  /\ Searchable(e)
  /\ \A l \in NamedModules(e) : pkg.libs[l] # None
ProjFine(i) == i.name = "postgis" /\ i.kind = "other_extension" => pkg.proj = TRUE

Inspected(i) == i.kind # "contrib_module" /\ i.status = "present"

TakeEntry ==
  /\ At("extensions") /\ doc.entry = None /\ doc.todo # {}
  /\ LET i == CHOOSE i \in doc.todo : TRUE
         e == i.name
         faults == Unless(i.pinned, "pin") \cup
                   (IF Inspected(i) THEN Unless(FilesFine(e) /\ ProjFine(i), "files")
                    ELSE Unless(i.status = "missing" => ~Production, "missing"))
         go == Inspected(i) /\ Searchable(e)
     IN /\ doc' = [doc EXCEPT !.todo = @ \ {i}, !.entry = IF go THEN e ELSE None,
                              !.errors = @ \cup faults]
        /\ IF ~go THEN UNCHANGED search
           ELSE Path!Begin(pkg.scripts[e].base, pkg.scripts[e].edges, pkg.controls[e].default)
  /\ UNCHANGED <<stage, pkg, left>>

SearchPath ==
  /\ At("extensions") /\ doc.entry # None /\ Path!Search
  /\ UNCHANGED <<stage, pkg, doc, left>>

SearchAnswered ==
  /\ At("extensions") /\ doc.entry # None /\ answer # "searching"
  /\ doc' = [doc EXCEPT !.entry = None,
                        !.errors = @ \cup Unless(answer = "yes", "path")]
  /\ UNCHANGED <<stage, pkg, left, search>>

-------------------------------------------------------------------------------
(***************************************************************************)
(* validate_dependencies, as far as it gets, and the verdict.              *)
(***************************************************************************)
ManifestFaults ==
  LET d == pkg.dependencyManifest
      target == Bundle.id.target
  IN Unless(target # None => d.platform = Platform(target) /\ d.tool = Tool(target), "scanner") \cup
     Unless(DOMAIN d.objects \cap pkg.dependencies.objects # {}, "scanned objects") \cup
     Unless(\A o \in DOMAIN d.objects : \A x \in d.objects[o] : ~(Severe /\ BadDependency(x)),
            "dependencies")

\* diagnostic_path_if_present.
PrefixFaults ==
  LET k == "dependencyPrefix"
      named == Bundle.names # None /\ k \in Bundle.names
  IN IF named /\ pkg[k] # None
       THEN Unless(pkg[k] # Garbled /\ pkg[k].complete, k)
       ELSE Unless(~named /\ ~Production, k)

ScanFaults ==
  IF ~Found("dependencyManifest") THEN Missed("dependencyManifest")
  ELSE IF pkg.dependencyManifest = Garbled THEN {"dependencyManifest"}
  ELSE ManifestFaults \cup PrefixFaults

DependencyFaults ==
  LET d == pkg.dependencies
  IN IF ~Found("dependencies") THEN Missed("dependencies")
     ELSE IF d = Garbled THEN {"dependencies"}
     ELSE Unless(d.tool, "tool") \cup
          Unless(Severe => d.places \cap BuildPaths = {}, "build paths") \cup ScanFaults

ValidateDependencies ==
  /\ At("extensions") /\ doc.entry = None /\ doc.todo = {}
  /\ Report("finish", DependencyFaults)

\* Only if asked for.  External: cargo runs of the host's tests with the package.
SelfTest ==
  /\ At("finish") /\ doc.errors = {}
  /\ \E failed \in SUBSET SelfTests : Report("tested", failed)

Finish ==
  /\ At("finish") \/ At("tested")
  /\ Report(IF doc.errors = {} THEN "accepted" ELSE "rejected", {})

Next ==
  \/ StageFault \/ Package \/ PackageRefused \/ PackageFault
  \/ StartDoctor \/ ValidateBundle \/ ValidatePlugin \/ ValidatePostgresPrefix
  \/ ValidateNativeOnlyPayload \/ ValidateDiagnostics \/ ValidateBuildProvenance
  \/ ValidatePlatformBaseline \/ ValidateSourceProvenance \/ ValidateLifecycle
  \/ ValidateConformance \/ TakeEntry \/ SearchPath \/ SearchAnswered
  \/ ValidateDependencies \/ SelfTest \/ Finish

Spec == Init /\ [][Next]_vars

-------------------------------------------------------------------------------
Labels ==
  Files \cup PrefixFiles \cup Tests \cup SelfTests \cup
  {"fields", "status", "checksum", "ABI", "layout", "build paths in the prefix", "payload",
   "diagnostics", "listed symbols", "exports", "provenance", "provenance names",
   "provenance baseline", "provenance end", "baseline target", "baseline", "sources",
   "patches", "patch digests", "lifecycle", "pin", "files", "missing", "path", "scanner",
   "scanned objects", "dependencies", "tool", "build paths"}

TypeOK ==
  /\ Path!TypeOK
  /\ doc.errors \subseteq Labels
  /\ doc.symbols \in {None} \cup SUBSET (Abi \cup Unlisted \cup Backend)
  /\ doc.entry \in Extensions \cup {None}
  /\ pkg # None => DOMAIN pkg.libs = Libs /\ pkg.prefix \subseteq PrefixFiles
  /\ left \in 0..MaxFaults

Accepted == At("accepted")
Strictly == doc.strict \/ pkg.bundle.id.mode = "production"

(***************************************************************************)
(* Nothing that a package must have is missing or unreadable in an ac-     *)
(* cepted one, and its results and its build provenance are complete: no   *)
(* fault makes the doctor skip the check of a file without a complaint of  *)
(* its own, whichever faults come together (doctor-native-plugin-package.  *)
(* py:131-143, 1336-1364).  Of the other text files it does not ask that   *)
(* nothing is cut off at their end: an extension inventory without its     *)
(* last lines is accepted, its extensions unchecked (854-879), and so is a *)
(* dependencies.txt that names one object only (1054-1065, 1110).          *)
(***************************************************************************)
AcceptedIsWhole ==
  Accepted =>
    /\ \A f \in Files \ {"dependencyPrefix"} : Readable(pkg[f])
    /\ pkg.bundle.id.mode = "production" \/ "dependencyPrefix" \in pkg.bundle.names =>
         Readable(pkg.dependencyPrefix)
    /\ pkg.prefix = PrefixFiles /\ pkg.buildProvenance.whole
    /\ \A t \in Tests : LET r == pkg.results[t] IN r.json.passed /\ r.json.log = r.log

(***************************************************************************)
(* The files of an accepted package agree: the bundle and the build        *)
(* provenance are of the packaged plugin, the symbol lists are the         *)
(* plugin's and the manifest's and hide nothing the modules take, and      *)
(* sources, patches and platform are those of the link manifest, also      *)
(* when files of other packages got in                                     *)
(* (doctor-native-plugin-package.py:198-740).                              *)
(***************************************************************************)
AcceptedIsOfOnePackage ==
  Accepted =>
    LET b == pkg.bundle.id
        m == pkg.nativeLinkManifest
        p == pkg.buildProvenance
    IN /\ p.id = b /\ b.plugin = pkg.plugin.no
       /\ b.status = RuntimeStatus(b.mode)
       /\ pkg.platformBaseline = [target |-> b.target, baseline |-> p.baseline]
       /\ b.target = "darwin" => p.baseline = m.baseline
       /\ pkg.pluginDefinedSymbols = pkg.plugin.exports
       /\ pkg.backendExportSymbols = m.exports /\ m.exports \subseteq pkg.plugin.exports
       /\ Claimed(pkg.plugin.exports, m.exports)
       /\ pkg.sourceProvenance = [source |-> m.source, patches |-> m.patches]

\* PostgreSQL's CREATE EXTENSION, as far as files decide it.
Installs(e) ==
  /\ pkg.controls[e] # None /\ pkg.controls[e].default # None
  /\ \A S \in SUBSET Versions :
       /\ pkg.scripts[e].base \subseteq S
       /\ \A x \in pkg.scripts[e].edges : x[1] \in S => x[2] \in S
       => pkg.controls[e].default \in S
  /\ \A l \in ({pkg.controls[e].lib} \cup pkg.scripts[e].libs) \ {None} : pkg.libs[l] # None

(***************************************************************************)
(* What the packaged inventory lists as present can be installed: control  *)
(* file, a chain of scripts to the default version, every named module,    *)
(* PostGIS's data (doctor-native-plugin-package.py:867-983).               *)
(***************************************************************************)
AcceptedExtensionsInstall ==
  Accepted =>
    \A i \in pkg.extensionInventory :
      Inspected(i) => Installs(i.name) /\ (i.name = "postgis" => pkg.proj = TRUE)

\* Places that are the same on every machine the package is for.
Portable == {"system", "host", "package", "relative"}

(***************************************************************************)
(* No path by which the plugin or a module of a strictly accepted package  *)
(* loads anything names a place of the build machine or one out of the     *)
(* package, nor is it one that the scan could not resolve, when the pack-  *)
(* aged scan is the one of these files.  Whether a path relative to the    *)
(* loader leads to a file nobody looks (astray), and what a host package   *)
(* left in the system's directories counts as the system's (host).  initdb *)
(* is not scanned; the runtime runs it with the package's library path     *)
(* (generate-native-dependency-manifest.py:107-139, doctor-native-plugin-  *)
(* package.py:985-1107, 1563-1568, native/src/lib.rs:696-697).             *)
(***************************************************************************)
AcceptedIsRelocatable ==
  Accepted /\ Strictly /\ pkg.dependencyManifest.objects = Scan(pkg.deps) =>
    /\ \A o \in Objects : pkg.deps[o] \subseteq Portable \cup {"astray"}
    /\ ~pkg.leaks

\* Nothing is wrong with what the packager was given.
Sound ==
  /\ \A l \in Libs : stage.needs[l] # None
  /\ Claimed(stage.plugin.exports, stage.exports) /\ stage.exports \subseteq stage.plugin.exports
  /\ stage.repo = stage.prepared /\ (stage.target = "linux" => stage.baseline = 1)
  /\ doc.strict \/ stage.mode = "production" =>
       ~stage.leaks /\ \A o \in Objects : pkg.deps[o] \subseteq Portable
  /\ \A i \in stage.inventory : i.pinned
  /\ stage.inventory = Inventory("present") \/ stage.mode = "development"
  /\ \A i \in stage.inventory :
       Inspected(i) => Installs(i.name) /\ (i.name = "postgis" => stage.proj = TRUE)
  /\ \A t \in Tests : ResultFine(t)
  /\ ~stage.alien

(***************************************************************************)
(* A sound package, untouched since it was written, passes every check, on *)
(* both systems, in both modes, strictly or not                            *)
(* (package-native-plugin-release.sh:330-604).                             *)
(***************************************************************************)
SoundPackagesPass ==
  pkg # None /\ pkg = Packed(stage) /\ Sound => doc.errors \subseteq SelfTests

\* The doctor's search for an install path answers as PostgreSQL does (see InstallPath).
InstallSearchIsRight == Path!AnswerIsRight

(***************************************************************************)
(* The search ends, whatever cycles the scripts form: each of its steps    *)
(* answers, finds a new version or leaves fewer to look at                 *)
(* (doctor-native-plugin-package.py:1540-1552).                            *)
(***************************************************************************)
InstallSearchGetsOn == Path!SearchGetsOn

(***************************************************************************)
(* Not among the runs: TLC refutes both.  Host packages in the system's    *)
(* library directories count as the platform                               *)
(* (generate-native-dependency-manifest.py:134-137), and a path relative   *)
(* to the loader is taken for good unless it has "..", also where the      *)
(* packager's repair wrote it into the plugin, in whose directory the      *)
(* library is not (package-native-plugin-release.sh:178-193).              *)
(***************************************************************************)
NoHostPackages ==
  Accepted /\ Strictly /\ pkg.bundle.id.target = "linux" =>
    \A o \in Objects : "host" \notin pkg.deps[o]
NoPathGoesAstray ==
  Accepted /\ Strictly => \A o \in Objects : "astray" \notin pkg.deps[o]
===============================================================================
