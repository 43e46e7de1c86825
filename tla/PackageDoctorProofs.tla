-------------------------- MODULE PackageDoctorProofs --------------------------
(***************************************************************************)
(* Proofs about PackageDoctor, for every set of symbols, patches, versions *)
(* and tests and for any number of things that go wrong with a package.    *)
(***************************************************************************)
EXTENDS PackageDoctor, TLAPS

Controls == {None} \cup [default : {None, Default}, lib : Libs \cup {None}]
Scripts == [base : SUBSET Versions, edges : SUBSET (Versions \X Versions),
            libs : SUBSET Libs, placeholder : BOOLEAN]

StageFields ==
  {"target", "mode", "release", "plugin", "exports", "needs", "source", "prepared", "repo",
   "baseline", "controlled", "deps", "inventory", "controls", "scripts", "proj", "leaks",
   "alien", "results"}

StageOK(s) ==
  /\ DOMAIN s = StageFields
  /\ s.target \in Targets /\ s.mode \in Modes /\ s.release \in Nos
  /\ s.plugin \in Plugins
  /\ s.exports \subseteq Backend /\ s.source \in Nos /\ s.baseline \in Nos
  /\ s.prepared \in [Patches -> Nos] /\ s.repo \in [Patches -> Nos]
  /\ s.deps \in [Objects -> SUBSET Places] /\ s.inventory \subseteq Entries
  /\ s.controls \in [Extensions -> Controls] /\ s.scripts \in [Extensions -> Scripts]

PkgFields ==
  Files \cup {"prefix", "leaks", "alien", "libs", "controls", "scripts", "proj", "deps",
              "results"}

Odd == {None, Garbled}

PkgOK(p) ==
  /\ DOMAIN p = PkgFields
  /\ p.bundle \in Odd \cup Bundles
  /\ p.buildProvenance \in Odd \cup Provenances
  /\ p.nativeLinkManifest \in Odd \cup Manifests
  /\ p.platformBaseline \in Odd \cup Baselines
  /\ p.sourceProvenance \in Odd \cup Sources
  /\ p.extensionInventory \in Odd \cup SUBSET Entries
  /\ p.prefix \subseteq PrefixFiles
  /\ p.deps \in [Objects -> SUBSET Places]
  /\ p.controls \in [Extensions -> Controls] /\ p.scripts \in [Extensions -> Scripts]

USE DoctorAssumption

-------------------------------------------------------------------------------
\* What the packager writes is of the type of a package.
LEMMA RepairedPlace == \A t, o, p : p \in Places => Repaired(t, o, p) \in Places
  BY DEF Repaired, Places

LEMMA InventoryOK == \A status \in {"present", "missing"} : Inventory(status) \subseteq Entries
  BY DEF Inventory, Entries, Libs, Extensions

LEMMA HonestOK == \A t \in Targets, m \in Modes : StageOK(Honest(t, m))
  <1> TAKE t \in Targets, m \in Modes
  <1> DEFINE s == Honest(t, m)
  <1>1. DOMAIN s = StageFields
    BY DEF Honest, StageFields
  <1>2. /\ s.target = t /\ s.mode = m /\ s.release = 1 /\ s.source = 1 /\ s.baseline = 1
        /\ s.exports = Backend
    BY DEF Honest
  <1>3. s.plugin \in Plugins
    BY DEF Honest, Nos, Plugins
  <1>4. s.prepared \in [Patches -> Nos] /\ s.repo \in [Patches -> Nos]
    BY DEF Honest, Nos
  <1>5. s.deps \in [Objects -> SUBSET Places]
    BY DEF Honest, Places
  <1>6. s.controls \in [Extensions -> Controls]
    BY DEF Honest, Controls, Libs
  <1>7. s.scripts \in [Extensions -> Scripts]
    BY DEF Honest, Scripts, OneScript
  <1>8. s.inventory \subseteq Entries
    BY InventoryOK DEF Honest
  <1> QED BY <1>1, <1>2, <1>3, <1>4, <1>5, <1>6, <1>7, <1>8 DEF StageOK, Nos

LEMMA PackedHolds ==
  ASSUME NEW s, StageOK(s), NEW p, p = Packed(s)
  PROVE  /\ DOMAIN p = PkgFields
         /\ p.bundle \in Bundles /\ p.buildProvenance \in Provenances
         /\ p.nativeLinkManifest \in Manifests
         /\ p.platformBaseline \in Baselines /\ p.sourceProvenance \in Sources
         /\ p.deps \in [Objects -> SUBSET Places]
         /\ p.dependencies \in Listings /\ p.dependencyManifest \in Scans
  <1> DEFINE id == [target |-> s.target, release |-> s.release, mode |-> s.mode,
                    status |-> RuntimeStatus(s.mode), plugin |-> s.plugin.no]
  <1>1. DOMAIN p = PkgFields
    BY DEF Packed, PkgFields, Files, Diagnostics, TextDiagnostics, JsonDiagnostics
  <1>2. id \in Ids(Nos)
    BY DEF StageOK, Ids, RuntimeStatus, Statuses, Modes, Plugins
  <1>3. Named(s) \in SUBSET Diagnostics
    BY DEF Named
  <1>4. p.bundle \in Bundles
    <2>1. p.bundle = [id |-> id, layout |-> TRUE, names |-> Named(s)]
      BY DEF Packed
    <2>2. id \in Ids(Nos \cup {None})
      BY <1>2 DEF Ids
    <2> HIDE DEF id
    <2> QED BY <1>3, <2>1, <2>2 DEF Bundles
  <1>5. p.buildProvenance \in Provenances
    <2>1. p.buildProvenance =
            [id |-> id, baseline |-> s.baseline, names |-> Named(s), whole |-> TRUE]
      BY DEF Packed
    <2>2. s.baseline \in Nos
      BY DEF StageOK
    <2> HIDE DEF id
    <2> QED BY <1>2, <1>3, <2>1, <2>2 DEF Provenances
  <1>6. p.nativeLinkManifest \in Manifests
    BY DEF Packed, StageOK, Manifests
  <1>7. p.platformBaseline \in Baselines /\ p.sourceProvenance \in Sources
    BY DEF Packed, StageOK, Baselines, Sources
  <1>8. p.deps \in [Objects -> SUBSET Places]
    <2>1. p.deps = [o \in Objects |-> {Repaired(s.target, o, q) : q \in s.deps[o]}]
      BY DEF Packed
    <2>2. \A o \in Objects : s.deps[o] \subseteq Places
      BY DEF StageOK
    <2> QED BY <2>1, <2>2, RepairedPlace
  <1>9. p.dependencies \in Listings
    <2>1. p.dependencies = [tool |-> TRUE, objects |-> Objects,
                            places |-> UNION {p.deps[o] : o \in Objects}]
      BY DEF Packed
    <2>2. UNION {p.deps[o] : o \in Objects} \subseteq Places
      BY <1>8
    <2> QED BY <2>1, <2>2 DEF Listings
  <1>10. p.dependencyManifest \in Scans
    <2>1. p.dependencyManifest =
            [platform |-> Platform(s.target), tool |-> Tool(s.target), objects |-> Scan(p.deps)]
      BY DEF Packed
    <2>2. \A q \in Places : [raw |-> q, class |-> Classes[q]] \in Loads
      BY DEF Classes, Places, BadClasses, Loads
    <2>3. Scan(p.deps) \in [Objects -> SUBSET Loads]
      BY <1>8, <2>2 DEF Scan
    <2>4. Platform(s.target) \in {"Darwin", "Linux"} /\ Tool(s.target) \in {"otool -L", "ldd"}
      BY DEF Platform, Tool
    <2>5. \A a \in {"Darwin", "Linux"}, b \in {"otool -L", "ldd"}, c \in [Objects -> SUBSET Loads] :
            [platform |-> a, tool |-> b, objects |-> c] \in Scans
      BY DEF Scans
    <2> QED BY <2>1, <2>3, <2>4, <2>5
  <1> QED BY <1>1, <1>4, <1>5, <1>6, <1>7, <1>8, <1>9, <1>10

LEMMA PackedOK == \A s : StageOK(s) => PkgOK(Packed(s))
  <1> SUFFICES ASSUME NEW s, StageOK(s), NEW p, p = Packed(s) PROVE PkgOK(p)
    OBVIOUS
  <1>1. /\ p.prefix = PrefixFiles /\ p.controls = s.controls /\ p.scripts = s.scripts
        /\ p.extensionInventory = s.inventory
    BY DEF Packed
  <1> QED BY <1>1, PackedHolds DEF PkgOK, StageOK

-------------------------------------------------------------------------------
\* What goes wrong with the packager's input leaves its type alone.
LEMMA OddBinariesKeep == ASSUME StageOK(stage), OddBinaries PROVE StageOK(stage')
  <1>1. CASE \E o \in {"plugin", "hstore"}, p \in Places :
               stage' = [stage EXCEPT !.deps[o] = @ \cup {p}]
    BY <1>1 DEF StageOK, StageFields, Objects, Libs, Extensions
  <1>2. CASE \E S \in SUBSET Backend :
               stage' = [stage EXCEPT !.plugin.exports = (@ \ Backend) \cup S]
    BY <1>2 DEF StageOK, StageFields, Plugins
  <1>3. CASE \E l \in Libs, n \in {None} \cup SUBSET Backend :
               stage' = [stage EXCEPT !.needs[l] = n]
    BY <1>3 DEF StageOK, StageFields
  <1> QED BY <1>1, <1>2, <1>3 DEF OddBinaries

LEMMA OddSourcesKeep == ASSUME StageOK(stage), OddSources PROVE StageOK(stage')
  BY DEF OddSources, StageOK, StageFields, Nos

LEMMA OddExtensionsKeep == ASSUME StageOK(stage), OddExtensions PROVE StageOK(stage')
  <1>1. CASE \E e \in Extensions, g \in Graphs :
               stage' = [stage EXCEPT !.scripts[e] = Linked(stage.scripts[e], g)]
    <2>1. PICK e \in Extensions, g \in Graphs :
            stage' = [stage EXCEPT !.scripts[e] = Linked(stage.scripts[e], g)]
      BY <1>1
    <2>2. g.base \in SUBSET Versions /\ g.edges \in SUBSET (Versions \X Versions)
      OBVIOUS
    <2>3. stage.scripts[e] \in Scripts
      BY DEF StageOK
    <2>4. Linked(stage.scripts[e], g) \in Scripts
      BY <2>2, <2>3 DEF Linked, Scripts
    <2> QED BY <2>1, <2>4 DEF StageOK, StageFields
  <1>2. CASE \E e \in Extensions, l \in Libs : stage' = [stage EXCEPT !.scripts[e].libs = {l}]
    BY <1>2 DEF StageOK, StageFields, Scripts
  <1>3. CASE \E e \in Extensions :
               /\ stage.controls[e] # None
               /\ \/ stage' = [stage EXCEPT !.controls[e] = None]
                  \/ stage' = [stage EXCEPT !.controls[e].default = None]
                  \/ stage' = [stage EXCEPT !.controls[e].lib = None]
    BY <1>3 DEF StageOK, StageFields, Controls
  <1>4. CASE stage' = [stage EXCEPT !.inventory = Inventory("missing")]
    BY <1>4, InventoryOK DEF StageOK, StageFields
  <1>5. CASE \E i \in stage.inventory :
               stage' = [stage EXCEPT !.inventory = (@ \ {i}) \cup {[i EXCEPT !.pinned = FALSE]}]
    <2>1. PICK i \in stage.inventory :
            stage' = [stage EXCEPT !.inventory = (@ \ {i}) \cup {[i EXCEPT !.pinned = FALSE]}]
      BY <1>5
    <2>2. i \in Entries
      BY <2>1 DEF StageOK
    <2>3. [i EXCEPT !.pinned = FALSE] \in Entries
      BY <2>2 DEF Entries
    <2> QED BY <2>1, <2>3 DEF StageOK, StageFields
  <1>6. CASE \E there \in {None, Garbled} : stage' = [stage EXCEPT !.proj = there]
    BY <1>6 DEF StageOK, StageFields
  <1> QED BY <1>1, <1>2, <1>3, <1>4, <1>5, <1>6 DEF OddExtensions

LEMMA OddResultsKeep == ASSUME StageOK(stage), OddResults PROVE StageOK(stage')
  <1>1. PICK t \in Tests :
            \/ \E c \in {None, Garbled} : stage' = [stage EXCEPT !.results[t].json = c]
            \/ \E u \in Tests : stage' = [stage EXCEPT !.results[t].json = stage.results[u].json]
            \/ \E l \in {None, 2} : stage' = [stage EXCEPT !.results[t].log = l]
            \/ stage' = [stage EXCEPT !.results[t].json.passed = FALSE]
            \/ stage' = [stage EXCEPT !.results[t].json.cases = FALSE]
            \/ \E u \in Tests : stage' = [stage EXCEPT !.results[t].json.command = u]
    BY DEF OddResults
  <1> QED BY <1>1 DEF StageOK, StageFields

LEMMA StageFaultKeeps == ASSUME StageOK(stage), StageFault PROVE StageOK(stage')
  BY OddBinariesKeep, OddSourcesKeep, OddExtensionsKeep, OddResultsKeep DEF StageFault

\* So does what happens to the files of a package.
LEMMA OthersOK == ASSUME StageOK(stage), NEW p \in Others PROVE PkgOK(p)
  <1>1. StageOK([stage EXCEPT !.release = 2, !.plugin.no = 2, !.exports = {}, !.source = 2,
                   !.prepared = [q \in Patches |-> 2], !.repo = [q \in Patches |-> 2]])
    BY DEF StageOK, StageFields, Nos, Plugins
  <1>2. StageOK([stage EXCEPT !.mode = IF @ = "production" THEN "development"
                                       ELSE "production"])
    BY DEF StageOK, StageFields, Modes
  <1>3. StageOK([stage EXCEPT !.target = IF @ = "linux" THEN "darwin" ELSE "linux"])
    BY DEF StageOK, StageFields, Targets
  <1> QED BY <1>1, <1>2, <1>3, PackedOK DEF Others

LEMMA CutShortKeeps ==
  ASSUME PkgOK(pkg), NEW f \in TextDiagnostics, Readable(pkg[f]), NEW c \in CutShort(f),
         pkg' = [pkg EXCEPT ![f] = c]
  PROVE  PkgOK(pkg')
  <1> USE DEF Readable, Odd
  <1>1. CASE f = "buildProvenance"
    <2>1. pkg.buildProvenance \in Provenances
      BY <1>1 DEF PkgOK
    <2>2. c = [pkg.buildProvenance EXCEPT !.whole = FALSE]
      BY <1>1 DEF CutShort
    <2>3. c \in Provenances
      BY <2>1, <2>2 DEF Provenances
    <2> QED BY <1>1, <2>3 DEF PkgOK, PkgFields, Files, Diagnostics, TextDiagnostics
  <1>2. CASE f = "nativeLinkManifest"
    <2> DEFINE m == pkg.nativeLinkManifest
    <2>1. m \in Manifests
      BY <1>2 DEF PkgOK
    <2>2. \/ \E S \in SUBSET m.exports : c = [m EXCEPT !.baseline = None, !.exports = S]
          \/ c = [m EXCEPT !.baseline = None, !.exports = {}, !.patches = [p \in {} |-> 1]]
      BY <1>2 DEF CutShort
    <2>3. [p \in {} |-> 1] \in [{} -> Nos]
      OBVIOUS
    <2>4. c \in Manifests
      <3> HIDE DEF m
      <3> QED BY <2>1, <2>2, <2>3 DEF Manifests
    <2> QED BY <1>2, <2>4 DEF PkgOK, PkgFields, Files, Diagnostics, TextDiagnostics
  <1>3. CASE f = "extensionInventory"
    BY <1>3 DEF CutShort, PkgOK, PkgFields, Files, Diagnostics, TextDiagnostics
  <1>4. CASE f \in {"pluginDefinedSymbols", "backendExportSymbols", "dependencies"}
    BY <1>4 DEF PkgOK, PkgFields, Files, Diagnostics, TextDiagnostics
  <1> QED BY <1>1, <1>2, <1>3, <1>4 DEF TextDiagnostics

LEMMA PackageFaultKeeps ==
  ASSUME StageOK(stage), PkgOK(pkg), PackageFault PROVE PkgOK(pkg')
  <1> USE DEF PkgOK, PkgFields, Files, Diagnostics, TextDiagnostics, JsonDiagnostics
  <1>1. CASE \E f \in Files, c \in {None, Garbled} : pkg' = [pkg EXCEPT ![f] = c]
    BY <1>1 DEF Odd
  <1>2. CASE \E f \in TextDiagnostics : /\ Readable(pkg[f])
                                       /\ \E c \in CutShort(f) : pkg' = [pkg EXCEPT ![f] = c]
    BY <1>2, CutShortKeeps
  <1>3. CASE \E f \in Files, other \in Others : pkg' = [pkg EXCEPT ![f] = other[f]]
    BY <1>3, OthersOK
  <1>4. CASE \E f \in PrefixFiles : pkg' = [pkg EXCEPT !.prefix = @ \ {f}]
    BY <1>4
  <1>5. CASE Readable(pkg.bundle) /\ pkg.bundle.names # None
             /\ \E k \in Diagnostics : pkg' = [pkg EXCEPT !.bundle.names = @ \ {k}]
    BY <1>5 DEF Readable, Odd, Bundles
  <1>6. CASE Readable(pkg.bundle) /\ pkg' = [pkg EXCEPT !.bundle.names = None]
    BY <1>6 DEF Readable, Odd, Bundles
  <1>7. CASE Readable(pkg.bundle) /\ pkg' = [pkg EXCEPT !.bundle.id.plugin = None]
    BY <1>7 DEF Readable, Odd, Bundles, Ids
  <1>8. CASE Readable(pkg.bundle) /\ pkg' = [pkg EXCEPT !.bundle.layout = FALSE]
    BY <1>8 DEF Readable, Odd, Bundles
  <1>9. CASE Readable(pkg.bundle) /\ \E s \in {"runtime-ready", "development"} :
               pkg' = [pkg EXCEPT !.bundle.id.status = s]
    BY <1>9 DEF Readable, Odd, Bundles, Ids, Statuses
  <1> QED BY <1>1, <1>2, <1>3, <1>4, <1>5, <1>6, <1>7, <1>8, <1>9 DEF PackageFault

-------------------------------------------------------------------------------
(***************************************************************************)
(* The type of the whole state.                                            *)
(***************************************************************************)
DocFields == {"at", "strict", "symbols", "errors", "todo", "entry"}

Types ==
  /\ DOMAIN doc = DocFields
  /\ StageOK(stage)
  /\ doc.at \notin {"packager", "refused"} => PkgOK(pkg)
  /\ doc.todo \subseteq Entries

LEMMA InitTypes == Init => Types
  BY HonestOK DEF Init, Types, DocFields, Targets, Modes

LEMMA Reported ==
  ASSUME DOMAIN doc = DocFields, NEW next, NEW complaints, Report(next, complaints)
  PROVE  /\ doc'.at = next /\ doc'.errors = doc.errors \cup complaints
         /\ DOMAIN doc' = DocFields
         /\ doc'.strict = doc.strict /\ doc'.symbols = doc.symbols
         /\ doc'.todo = doc.todo /\ doc'.entry = doc.entry
         /\ UNCHANGED <<stage, pkg, left, search>>
  BY DEF Report, DocFields

\* A check that only reports, and where it is.
ReportStep ==
  \E next, complaints :
    /\ Report(next, complaints) /\ ~At("packager") /\ ~At("refused")
    /\ next = "accepted" => doc.errors = {} /\ complaints = {}
    /\ At("extensions") => doc.todo = {} /\ doc.entry = None
    /\ next # "extensions"
    /\ next \in {"finish", "tested", "accepted"} => doc.at \in {"extensions", "finish", "tested"}

LEMMA Reporting ==
  ASSUME \/ StartDoctor \/ ValidateBundle \/ ValidatePostgresPrefix
         \/ ValidateNativeOnlyPayload \/ ValidateDiagnostics \/ ValidateBuildProvenance
         \/ ValidatePlatformBaseline \/ ValidateSourceProvenance \/ ValidateLifecycle
         \/ ValidateDependencies \/ SelfTest \/ Finish
  PROVE  ReportStep
  <1>1. CASE Finish
    <2>1. Report(IF doc.errors = {} THEN "accepted" ELSE "rejected", {})
      BY <1>1 DEF Finish
    <2>2. doc.at \in {"finish", "tested"}
      BY <1>1 DEF Finish, At
    <2> QED BY <2>1, <2>2 DEF ReportStep, At
  <1>2. CASE SelfTest
    BY <1>2 DEF SelfTest, At, ReportStep
  <1>3. CASE StartDoctor
    BY <1>3 DEF StartDoctor, At, ReportStep
  <1>4. CASE ValidateBundle
    BY <1>4 DEF ValidateBundle, At, ReportStep
  <1>5. CASE ValidatePostgresPrefix
    BY <1>5 DEF ValidatePostgresPrefix, At, ReportStep
  <1>6. CASE ValidateNativeOnlyPayload
    BY <1>6 DEF ValidateNativeOnlyPayload, At, ReportStep
  <1>7. CASE ValidateDiagnostics
    BY <1>7 DEF ValidateDiagnostics, At, ReportStep
  <1>8. CASE ValidateBuildProvenance
    BY <1>8 DEF ValidateBuildProvenance, At, ReportStep
  <1>9. CASE ValidatePlatformBaseline
    BY <1>9 DEF ValidatePlatformBaseline, At, ReportStep
  <1>10. CASE ValidateSourceProvenance
    BY <1>10 DEF ValidateSourceProvenance, At, ReportStep
  <1>11. CASE ValidateLifecycle
    BY <1>11 DEF ValidateLifecycle, At, ReportStep
  <1>12. CASE ValidateDependencies
    BY <1>12 DEF ValidateDependencies, At, ReportStep
  <1> QED BY <1>1, <1>2, <1>3, <1>4, <1>5, <1>6, <1>7, <1>8, <1>9, <1>10, <1>11, <1>12

LEMMA NextTypes == Types /\ [Next]_vars => Types'
  <1> SUFFICES ASSUME Types, [Next]_vars PROVE Types'
    OBVIOUS
  <1>1. CASE StageFault
    BY <1>1, StageFaultKeeps DEF Types, StageFault, At
  <1>2. CASE Package
    BY <1>2, PackedOK DEF Types, Package, At, DocFields
  <1>3. CASE PackageRefused
    BY <1>3 DEF Types, PackageRefused, DocFields
  <1>4. CASE PackageFault
    BY <1>4, PackageFaultKeeps DEF Types, PackageFault, At
  <1>5. CASE ReportStep
    BY <1>5, Reported DEF Types, ReportStep, At
  <1>6. CASE ValidatePlugin
    BY <1>6 DEF Types, ValidatePlugin, At, DocFields
  <1>7. CASE ValidateConformance
    <2>1. Content("extensionInventory", {}) \subseteq Entries
      BY <1>7 DEF Types, PkgOK, ValidateConformance, At, Content, Found, Odd
    <2> QED BY <1>7, <2>1 DEF Types, ValidateConformance, At, DocFields
  <1>8. CASE TakeEntry
    BY <1>8 DEF Types, TakeEntry, At, DocFields
  <1>9. CASE SearchPath
    BY <1>9 DEF Types, SearchPath
  <1>10. CASE SearchAnswered
    BY <1>10 DEF Types, SearchAnswered, At, DocFields
  <1>11. CASE UNCHANGED vars
    BY <1>11 DEF Types, vars
  <1> QED BY <1>1, <1>2, <1>3, <1>4, <1>5, <1>6, <1>7, <1>8, <1>9, <1>10, <1>11, Reporting DEF Next

THEOREM TypesHold == Spec => []Types
  <1> QED BY InitTypes, NextTypes, PTL DEF Spec

-------------------------------------------------------------------------------
(***************************************************************************)
(* The inductive invariant behind the verdict: while there is no           *)
(* complaint, every check that is over found what it looks for.            *)
(***************************************************************************)
PastExtensions == {"finish", "tested", "accepted"}
PastConformance == {"extensions"} \cup PastExtensions
PastLifecycle == {"conformance"} \cup PastConformance
PastSources == {"lifecycle"} \cup PastLifecycle
PastBaseline == {"sources"} \cup PastSources
PastProvenance == {"baseline"} \cup PastBaseline
PastSymbols == {"provenance"} \cup PastProvenance
PastPrefix == {"payload", "symbols"} \cup PastSymbols
PastPlugin == {"prefix"} \cup PastPrefix
PastBundle == {"plugin"} \cup PastPlugin
PastStart == {"bundle"} \cup PastBundle

BundleFine == Readable(pkg.bundle)

FieldsFine ==
  /\ Bundle.names # None
  /\ \A k \in DOMAIN Bundle.id : Bundle.id[k] # None
  /\ Production <=> Bundle.id.status = "runtime-ready"

PluginFine ==
  /\ Readable(pkg.plugin) /\ pkg.plugin.no = Bundle.id.plugin
  /\ doc.symbols = pkg.plugin.exports /\ doc.symbols # None

PrefixFine ==
  /\ PrefixFiles \subseteq pkg.prefix
  /\ Severe => ~pkg.leaks

SymbolsFine ==
  LET exports == pkg.backendExportSymbols
  IN /\ \A k \in TextDiagnostics : Found(k) /\ pkg[k] # Garbled
     /\ doc.symbols # None =>
          /\ pkg.pluginDefinedSymbols = doc.symbols
          /\ exports \subseteq doc.symbols /\ Claimed(doc.symbols, exports)
     /\ exports = Manifest.exports

ProvenanceFine ==
  LET p == pkg.buildProvenance
  IN /\ Found("buildProvenance") => SameId(Bundle.id, p.id) /\ p.whole
     /\ Found("buildProvenance") => BaselineIs(p.baseline)

BaselineFine ==
  LET p == pkg.platformBaseline
  IN /\ Found("platformBaseline") /\ p # Garbled
     /\ p.target = Bundle.id.target
     /\ BaselineIs(p.baseline)

SourcesFine ==
  LET s == pkg.sourceProvenance
      m == Manifest
  IN /\ Found("sourceProvenance") /\ s # Garbled
     /\ m.source # None => s.source = m.source
     /\ DOMAIN s.patches = DOMAIN m.patches
     /\ \A p \in DOMAIN s.patches \cap DOMAIN m.patches : s.patches[p] = m.patches[p]

LifecycleFine ==
  Found("runtimeLifecycle") /\ pkg.runtimeLifecycle = "single-start-per-process"

ResultsFine == \A t \in Tests : ResultFine(t)

DependenciesFine ==
  LET d == pkg.dependencyManifest
  IN /\ Found("dependencyManifest") /\ d # Garbled
     /\ \A o \in DOMAIN d.objects : \A x \in d.objects[o] : ~(Severe /\ BadDependency(x))
     /\ PrefixFaults = {}

FoundAt(at) ==
  /\ at \in PastStart => BundleFine
  /\ at \in PastBundle => FieldsFine
  /\ at \in PastPlugin => PluginFine
  /\ at \in PastPrefix => PrefixFine
  /\ at \in PastSymbols => SymbolsFine
  /\ at \in PastProvenance => ProvenanceFine
  /\ at \in PastBaseline => BaselineFine
  /\ at \in PastSources => SourcesFine
  /\ at \in PastLifecycle => LifecycleFine
  /\ at \in PastConformance => ResultsFine
  /\ at \in PastExtensions => DependenciesFine

Judged == doc.errors = {} => FoundAt(doc.at)

\* Only a run without complaints ends well.
Verdict == At("accepted") => doc.errors = {}

IInv == Types /\ Judged /\ Verdict

\* What a check found stays as it is while the doctor is at work.
LEMMA FineStays ==
  ASSUME pkg' = pkg, doc'.strict = doc.strict
  PROVE  /\ BundleFine' <=> BundleFine
         /\ FieldsFine' <=> FieldsFine
         /\ PrefixFine' <=> PrefixFine
         /\ ProvenanceFine' <=> ProvenanceFine
         /\ BaselineFine' <=> BaselineFine
         /\ SourcesFine' <=> SourcesFine
         /\ LifecycleFine' <=> LifecycleFine
         /\ ResultsFine' <=> ResultsFine
         /\ DependenciesFine' <=> DependenciesFine
  <1>1. Bundle' = Bundle
    BY DEF Bundle
  <1>2. \A k : Found(k)' <=> Found(k)
    BY <1>1 DEF Found
  <1>3. Manifest' = Manifest
    BY <1>2 DEF Manifest, Content
  <1>4. (Production' <=> Production) /\ (Severe' <=> Severe)
    BY <1>1 DEF Production, Severe
  <1>5. PrefixFaults' = PrefixFaults
    BY <1>1, <1>4 DEF PrefixFaults
  <1>6. \A t : ResultFine(t)' <=> ResultFine(t)
    BY DEF ResultFine
  <1>7. BundleFine' <=> BundleFine
    BY DEF BundleFine
  <1>8. FieldsFine' <=> FieldsFine
    BY <1>1, <1>4 DEF FieldsFine
  <1>9. PrefixFine' <=> PrefixFine
    BY <1>4 DEF PrefixFine
  <1>10. ProvenanceFine' <=> ProvenanceFine
    BY <1>1, <1>2, <1>3 DEF ProvenanceFine, BaselineIs
  <1>11. BaselineFine' <=> BaselineFine
    BY <1>1, <1>2, <1>3 DEF BaselineFine, BaselineIs
  <1>12. SourcesFine' <=> SourcesFine
    BY <1>2, <1>3 DEF SourcesFine
  <1>13. LifecycleFine' <=> LifecycleFine
    BY <1>2 DEF LifecycleFine
  <1>14. ResultsFine' <=> ResultsFine
    BY <1>6 DEF ResultsFine
  <1>15. DependenciesFine' <=> DependenciesFine
    BY <1>2, <1>4, <1>5 DEF DependenciesFine
  <1> QED BY <1>7, <1>8, <1>9, <1>10, <1>11, <1>12, <1>13, <1>14, <1>15

LEMMA SymbolsStay ==
  ASSUME pkg' = pkg, doc'.symbols = doc.symbols
  PROVE  /\ PluginFine' <=> PluginFine
         /\ SymbolsFine' <=> SymbolsFine
  <1>1. Bundle' = Bundle
    BY DEF Bundle
  <1>2. \A k : Found(k)' <=> Found(k)
    BY <1>1 DEF Found
  <1>3. Manifest' = Manifest
    BY <1>2 DEF Manifest, Content
  <1>4. \A s, e : Claimed(s, e)' <=> Claimed(s, e)
    BY DEF Claimed
  <1>5. PluginFine' <=> PluginFine
    BY <1>1 DEF PluginFine
  <1>6. SymbolsFine' <=> SymbolsFine
    BY <1>2, <1>3, <1>4 DEF SymbolsFine
  <1> QED BY <1>5, <1>6

\* A check that only reports leads from finding to finding.
LEMMA CheckOver ==
  ASSUME Types, Judged, NEW next, NEW complaints, Report(next, complaints),
         doc.errors = {} /\ FoundAt(doc.at) /\ complaints = {} => FoundAt(next)
  PROVE  Judged'
  <1>1. /\ doc'.at = next /\ doc'.errors = doc.errors \cup complaints /\ pkg' = pkg
        /\ doc'.strict = doc.strict /\ doc'.symbols = doc.symbols
    BY Reported DEF Types
  <1>2. FoundAt(next)' <=> FoundAt(next)
    BY <1>1, FineStays, SymbolsStay DEF FoundAt
  <1>3. doc'.errors = {} => FoundAt(next)'
    BY <1>1, <1>2 DEF Judged
  <1>4. doc'.errors = {} => FoundAt(doc.at)'
    BY <1>1, <1>3 DEF FoundAt
  <1> QED BY <1>4 DEF Judged

\* Each finding takes the doctor one check further, and at the end it has them all.
LEMMA Findings ==
  /\ BundleFine => FoundAt("bundle")
  /\ FoundAt("bundle") /\ FieldsFine => FoundAt("plugin")
  /\ FoundAt("plugin") /\ PluginFine => FoundAt("prefix")
  /\ FoundAt("prefix") /\ PrefixFine => FoundAt("payload")
  /\ FoundAt("payload") => FoundAt("symbols")
  /\ FoundAt("symbols") /\ SymbolsFine => FoundAt("provenance")
  /\ FoundAt("provenance") /\ ProvenanceFine => FoundAt("baseline")
  /\ FoundAt("baseline") /\ BaselineFine => FoundAt("sources")
  /\ FoundAt("sources") /\ SourcesFine => FoundAt("lifecycle")
  /\ FoundAt("lifecycle") /\ LifecycleFine => FoundAt("conformance")
  /\ FoundAt("conformance") /\ ResultsFine => FoundAt("extensions")
  /\ FoundAt("extensions") /\ DependenciesFine => FoundAt("finish")
  /\ FoundAt("finish") => FoundAt("tested") /\ FoundAt("accepted")
  /\ FoundAt("tested") => FoundAt("accepted")
  /\ FoundAt("accepted") =>
       /\ BundleFine /\ FieldsFine /\ PluginFine /\ PrefixFine /\ SymbolsFine
       /\ ProvenanceFine /\ BaselineFine /\ SourcesFine /\ LifecycleFine
       /\ ResultsFine /\ DependenciesFine
  BY DEF FoundAt, PastStart, PastBundle, PastPlugin, PastPrefix, PastSymbols, PastProvenance,
         PastBaseline, PastSources, PastLifecycle, PastConformance, PastExtensions

\* The findings of the earlier checks that the later ones rely on.
LEMMA Earlier ==
  ASSUME NEW at \in PastBundle, FoundAt(at)
  PROVE  Bundle.names # None
  BY DEF FoundAt, FieldsFine

LEMMA StartDoctorJudges == ASSUME Types, Judged, StartDoctor PROVE Judged'
  <1> DEFINE complaints == Unless(Readable(pkg.bundle), "bundle")
  <1>1. Report("bundle", complaints)
    BY DEF StartDoctor
  <1>2. complaints = {} => BundleFine
    BY DEF Unless, BundleFine
  <1> HIDE DEF complaints
  <1> QED BY <1>1, <1>2, CheckOver, Findings

LEMMA ValidateBundleJudges == ASSUME Types, Judged, ValidateBundle PROVE Judged'
  <1>1. Report("plugin", BundleFaults) /\ doc.at = "bundle"
    BY DEF ValidateBundle, At
  <1>2. BundleFaults = {} => FieldsFine
    BY DEF BundleFaults, Unless, FieldsFine
  <1> QED BY <1>1, <1>2, CheckOver, Findings

LEMMA ValidatePluginJudges == ASSUME Types, Judged, ValidatePlugin PROVE Judged'
  <1> DEFINE symbols == ActualSymbols
             complaints ==
               IF symbols = None THEN {"plugin"}
               ELSE Unless(Readable(pkg.plugin) /\ pkg.plugin.no = Bundle.id.plugin,
                           "checksum") \cup
                    Unless(Abi \subseteq symbols, "ABI")
  <1>1. /\ doc' = [doc EXCEPT !.at = "prefix", !.symbols = symbols,
                              !.errors = @ \cup complaints]
        /\ doc.at = "plugin" /\ pkg' = pkg
    BY DEF ValidatePlugin, At
  <1>2. /\ doc'.at = "prefix" /\ doc'.symbols = symbols
        /\ doc'.errors = doc.errors \cup complaints /\ doc'.strict = doc.strict
    <2> HIDE DEF symbols, complaints
    <2> QED BY <1>1 DEF Types, DocFields
  <1> SUFFICES ASSUME doc'.errors = {} PROVE FoundAt("prefix")'
    BY <1>2 DEF Judged, FoundAt
  <1>3. doc.errors = {} /\ complaints = {}
    BY <1>2
  <1>4. symbols # None /\ Readable(pkg.plugin) /\ pkg.plugin.no = Bundle.id.plugin
    BY <1>3 DEF Unless
  <1>5. symbols = pkg.plugin.exports
    BY <1>4 DEF ActualSymbols, Readable
  <1>6. Bundle' = Bundle
    BY <1>1 DEF Bundle
  <1>7. PluginFine'
    BY <1>1, <1>2, <1>4, <1>5, <1>6 DEF PluginFine, Readable
  <1>8. BundleFine' /\ FieldsFine'
    BY <1>1, <1>2, <1>3, FineStays
       DEF Judged, FoundAt, PastStart, PastBundle, PastPlugin, PastPrefix, PastSymbols,
           PastProvenance, PastBaseline, PastSources, PastLifecycle, PastConformance,
           PastExtensions
  <1> QED BY <1>7, <1>8
       DEF FoundAt, PastStart, PastBundle, PastPlugin, PastPrefix, PastSymbols,
           PastProvenance, PastBaseline, PastSources, PastLifecycle, PastConformance,
           PastExtensions

LEMMA ValidatePostgresPrefixJudges == ASSUME Types, Judged, ValidatePostgresPrefix PROVE Judged'
  <1>1. Report("payload", LayoutFaults) /\ doc.at = "prefix"
    BY DEF ValidatePostgresPrefix, At
  <1>2. LayoutFaults = {} => PrefixFine
    BY DEF LayoutFaults, Unless, PrefixFine
  <1> QED BY <1>1, <1>2, CheckOver, Findings

LEMMA ValidateNativeOnlyPayloadJudges ==
  ASSUME Types, Judged, ValidateNativeOnlyPayload PROVE Judged'
  <1>1. Report("symbols", Unless(~pkg.alien, "payload")) /\ doc.at = "payload"
    BY DEF ValidateNativeOnlyPayload, At
  <1> QED BY <1>1, CheckOver, Findings

LEMMA ValidateDiagnosticsJudges == ASSUME Types, Judged, ValidateDiagnostics PROVE Judged'
  <1>1. Report("provenance", DiagnosticFaults) /\ doc.at = "symbols"
    BY DEF ValidateDiagnostics, At
  <1>2. ASSUME DiagnosticFaults = {} PROVE SymbolsFine
    <2>1. \A k \in TextDiagnostics : Found(k) /\ pkg[k] # Garbled
      BY <1>2 DEF DiagnosticFaults
    <2>2. ListedFine /\ ExportsFine
      BY <1>2, <2>1 DEF DiagnosticFaults, Unless, TextDiagnostics
    <2>3. \A k \in TextDiagnostics : \A d : Content(k, d) = pkg[k]
      BY <2>1 DEF Content
    <2> QED BY <2>1, <2>2, <2>3 DEF SymbolsFine, ListedFine, ExportsFine, TextDiagnostics
  <1> QED BY <1>1, <1>2, CheckOver, Findings

LEMMA ValidateBuildProvenanceJudges == ASSUME Types, Judged, ValidateBuildProvenance PROVE Judged'
  <1>1. Report("baseline", ProvenanceFaults) /\ doc.at = "provenance"
    BY DEF ValidateBuildProvenance, At
  <1>2. ProvenanceFaults = {} => ProvenanceFine
    BY DEF ProvenanceFaults, Unless, ProvenanceFine
  <1> QED BY <1>1, <1>2, CheckOver, Findings

LEMMA ValidatePlatformBaselineJudges == ASSUME Types, Judged, ValidatePlatformBaseline PROVE Judged'
  <1>1. Report("sources", BaselineFaults) /\ doc.at = "baseline"
    BY DEF ValidatePlatformBaseline, At
  <1>2. FoundAt("baseline") => Bundle.names # None
    BY Earlier DEF PastBundle, PastPlugin, PastPrefix, PastSymbols, PastProvenance
  <1>3. Bundle.names # None /\ BaselineFaults = {} => BaselineFine
    BY DEF BaselineFaults, Unless, Missed, BaselineFine
  <1> QED BY <1>1, <1>2, <1>3, CheckOver, Findings

LEMMA ValidateSourceProvenanceJudges == ASSUME Types, Judged, ValidateSourceProvenance PROVE Judged'
  <1>1. Report("lifecycle", SourceFaults) /\ doc.at = "sources"
    BY DEF ValidateSourceProvenance, At
  <1>2. FoundAt("sources") => Bundle.names # None
    BY Earlier DEF PastBundle, PastPlugin, PastPrefix, PastSymbols, PastProvenance,
                   PastBaseline
  <1>3. Bundle.names # None /\ SourceFaults = {} => SourcesFine
    BY DEF SourceFaults, Unless, Missed, SourcesFine
  <1> QED BY <1>1, <1>2, <1>3, CheckOver, Findings

LEMMA ValidateLifecycleJudges == ASSUME Types, Judged, ValidateLifecycle PROVE Judged'
  <1>1. Report("conformance", LifecycleFaults) /\ doc.at = "lifecycle"
    BY DEF ValidateLifecycle, At
  <1>2. FoundAt("lifecycle") => Bundle.names # None
    BY Earlier DEF PastBundle, PastPlugin, PastPrefix, PastSymbols, PastProvenance,
                   PastBaseline, PastSources
  <1>3. Bundle.names # None /\ LifecycleFaults = {} => LifecycleFine
    BY DEF LifecycleFaults, Unless, Missed, LifecycleFine
  <1> QED BY <1>1, <1>2, <1>3, CheckOver, Findings

LEMMA ValidateDependenciesJudges == ASSUME Types, Judged, ValidateDependencies PROVE Judged'
  <1>1. Report("finish", DependencyFaults) /\ doc.at = "extensions"
    BY DEF ValidateDependencies, At
  <1>2. FoundAt("extensions") => SymbolsFine /\ Bundle.names # None
    BY Earlier DEF FoundAt, PastBundle, PastPlugin, PastPrefix, PastSymbols, PastProvenance,
                   PastBaseline, PastSources, PastLifecycle, PastConformance
  <1>3. ASSUME SymbolsFine, Bundle.names # None, DependencyFaults = {} PROVE DependenciesFine
    <2>1. ScanFaults = {}
      BY <1>3 DEF DependencyFaults, SymbolsFine, TextDiagnostics
    <2>2. Found("dependencyManifest") /\ pkg.dependencyManifest # Garbled
      BY <1>3, <2>1 DEF ScanFaults, Missed, Unless
    <2>3. ManifestFaults = {} /\ PrefixFaults = {}
      BY <2>1, <2>2 DEF ScanFaults
    <2> QED BY <2>2, <2>3 DEF DependenciesFine, ManifestFaults, Unless
  <1> QED BY <1>1, <1>2, <1>3, CheckOver, Findings

LEMMA ValidateConformanceJudges == ASSUME Types, Judged, ValidateConformance PROVE Judged'
  <1> DEFINE faults == IF Bundle.names = None THEN {} ELSE {t \in Tests : ~ResultFine(t)}
             entries == Content("extensionInventory", {})
             missed == Missed("extensionInventory")
  <1>1. /\ doc' = [doc EXCEPT !.at = "extensions", !.todo = entries,
                              !.errors = @ \cup faults \cup missed]
        /\ doc.at = "conformance" /\ pkg' = pkg
    BY DEF ValidateConformance, At
  <1>2. /\ doc'.at = "extensions" /\ doc'.errors = doc.errors \cup faults \cup missed
        /\ doc'.strict = doc.strict /\ doc'.symbols = doc.symbols
    <2> HIDE DEF faults, entries, missed
    <2> QED BY <1>1 DEF Types, DocFields
  <1> SUFFICES ASSUME doc'.errors = {} PROVE FoundAt("extensions")'
    BY <1>2 DEF Judged, FoundAt
  <1>3. doc.errors = {} /\ faults = {}
    BY <1>2
  <1>4. FoundAt("conformance")
    BY <1>1, <1>3 DEF Judged
  <1>5. Bundle.names # None
    BY <1>4, Earlier DEF PastBundle, PastPlugin, PastPrefix, PastSymbols, PastProvenance,
                         PastBaseline, PastSources, PastLifecycle
  <1>6. ResultsFine
    BY <1>3, <1>5 DEF ResultsFine
  <1>7. FoundAt("extensions")
    BY <1>4, <1>6, Findings
  <1> QED BY <1>1, <1>2, <1>7, FineStays, SymbolsStay DEF FoundAt

\* The walk through the inventory only adds complaints.
LEMMA ComplainingKeeps ==
  ASSUME Judged, pkg' = pkg, doc'.at = doc.at, doc'.strict = doc.strict,
         doc'.symbols = doc.symbols, doc.errors \subseteq doc'.errors
  PROVE  Judged'
  <1>1. FoundAt(doc.at)' <=> FoundAt(doc.at)
    BY FineStays, SymbolsStay DEF FoundAt
  <1> QED BY <1>1 DEF Judged

LEMMA ExtensionsJudge ==
  ASSUME Types, Judged, TakeEntry \/ SearchPath \/ SearchAnswered PROVE Judged'
  <1>1. /\ pkg' = pkg /\ doc'.at = doc.at /\ doc'.strict = doc.strict
        /\ doc'.symbols = doc.symbols /\ doc.errors \subseteq doc'.errors
    <2>1. CASE TakeEntry
      BY <2>1 DEF TakeEntry, Types, DocFields
    <2>2. CASE SearchPath
      BY <2>2 DEF SearchPath
    <2>3. CASE SearchAnswered
      BY <2>3 DEF SearchAnswered, Types, DocFields
    <2> QED BY <2>1, <2>2, <2>3
  <1> QED BY <1>1, ComplainingKeeps

LEMMA VerdictJudges == ASSUME Types, Judged, SelfTest \/ Finish PROVE Judged'
  <1>1. CASE SelfTest
    <2>1. PICK failed : Report("tested", failed)
      BY <1>1 DEF SelfTest
    <2> QED BY <1>1, <2>1, CheckOver, Findings DEF SelfTest, At
  <1>2. CASE Finish
    <2>1. Report(IF doc.errors = {} THEN "accepted" ELSE "rejected", {})
      BY <1>2 DEF Finish
    <2>2. doc.at \in {"finish", "tested"}
      BY <1>2 DEF Finish, At
    <2>3. CASE doc.errors = {}
      BY <2>1, <2>2, <2>3, CheckOver, Findings
    <2>4. CASE doc.errors # {}
      BY <2>1, <2>4, CheckOver
    <2> QED BY <2>3, <2>4
  <1> QED BY <1>1, <1>2

\* Before the doctor starts there is nothing to find.
LEMMA PackagingJudges ==
  ASSUME Types, StageFault \/ Package \/ PackageRefused \/ PackageFault PROVE Judged'
  <1>1. doc'.at \in {"packager", "shipped", "refused"}
    BY DEF StageFault, Package, PackageRefused, PackageFault, At, Types, DocFields
  <1> QED BY <1>1 DEF Judged, FoundAt, PastStart, PastBundle, PastPlugin, PastPrefix,
       PastSymbols, PastProvenance, PastBaseline, PastSources, PastLifecycle, PastConformance,
       PastExtensions

LEMMA VerdictKept == ASSUME Types, Verdict, [Next]_vars PROVE Verdict'
  <1> USE DEF Verdict, At
  <1>1. CASE StageFault \/ Package \/ PackageRefused \/ PackageFault
    BY <1>1 DEF StageFault, Package, PackageRefused, PackageFault, Types, DocFields
  <1>2. CASE ReportStep
    BY <1>2, Reported DEF Types, ReportStep
  <1>3. CASE ValidatePlugin \/ ValidateConformance
    BY <1>3 DEF ValidatePlugin, ValidateConformance, Types, DocFields
  <1>4. CASE TakeEntry \/ SearchAnswered
    BY <1>4 DEF TakeEntry, SearchAnswered, Types, DocFields
  <1>5. CASE SearchPath \/ UNCHANGED vars
    BY <1>5 DEF SearchPath, vars
  <1> QED BY <1>1, <1>2, <1>3, <1>4, <1>5, Reporting DEF Next

LEMMA InitIInv == Init => IInv
  <1> SUFFICES ASSUME Init PROVE Judged /\ Verdict
    BY InitTypes DEF IInv
  <1>1. doc.at = "packager"
    BY DEF Init
  <1> QED BY <1>1 DEF Judged, Verdict, At, FoundAt, PastStart, PastBundle, PastPlugin,
       PastPrefix, PastSymbols, PastProvenance, PastBaseline, PastSources, PastLifecycle,
       PastConformance, PastExtensions

LEMMA NextIInv == IInv /\ [Next]_vars => IInv'
  <1> SUFFICES ASSUME Types, Judged, Verdict, [Next]_vars PROVE Judged'
    BY NextTypes, VerdictKept DEF IInv
  <1>1. CASE StageFault \/ Package \/ PackageRefused \/ PackageFault
    BY <1>1, PackagingJudges
  <1>2. CASE StartDoctor
    BY <1>2, StartDoctorJudges
  <1>3. CASE ValidateBundle
    BY <1>3, ValidateBundleJudges
  <1>4. CASE ValidatePlugin
    BY <1>4, ValidatePluginJudges
  <1>5. CASE ValidatePostgresPrefix
    BY <1>5, ValidatePostgresPrefixJudges
  <1>6. CASE ValidateNativeOnlyPayload
    BY <1>6, ValidateNativeOnlyPayloadJudges
  <1>7. CASE ValidateDiagnostics
    BY <1>7, ValidateDiagnosticsJudges
  <1>8. CASE ValidateBuildProvenance
    BY <1>8, ValidateBuildProvenanceJudges
  <1>9. CASE ValidatePlatformBaseline
    BY <1>9, ValidatePlatformBaselineJudges
  <1>10. CASE ValidateSourceProvenance
    BY <1>10, ValidateSourceProvenanceJudges
  <1>11. CASE ValidateLifecycle
    BY <1>11, ValidateLifecycleJudges
  <1>12. CASE ValidateConformance
    BY <1>12, ValidateConformanceJudges
  <1>13. CASE TakeEntry \/ SearchPath \/ SearchAnswered
    BY <1>13, ExtensionsJudge
  <1>14. CASE ValidateDependencies
    BY <1>14, ValidateDependenciesJudges
  <1>15. CASE SelfTest \/ Finish
    BY <1>15, VerdictJudges
  <1>16. CASE UNCHANGED vars
    BY <1>16, ComplainingKeeps DEF vars
  <1> QED BY <1>1, <1>2, <1>3, <1>4, <1>5, <1>6, <1>7, <1>8, <1>9, <1>10, <1>11, <1>12,
             <1>13, <1>14, <1>15, <1>16 DEF Next

\* What the invariant says of an accepted package.
LEMMA AllFine ==
  ASSUME IInv, Accepted
  PROVE  /\ BundleFine /\ FieldsFine /\ PluginFine /\ PrefixFine /\ SymbolsFine
         /\ ProvenanceFine /\ BaselineFine /\ SourcesFine /\ LifecycleFine
         /\ ResultsFine /\ DependenciesFine
         /\ Bundle = pkg.bundle /\ PkgOK(pkg)
  <1>1. FoundAt("accepted") /\ PkgOK(pkg)
    BY DEF IInv, Judged, Verdict, Types, Accepted, At
  <1>2. Bundle = pkg.bundle
    BY <1>1, Findings DEF Bundle, BundleFine
  <1> QED BY <1>1, <1>2, Findings

(***************************************************************************)
(* However many things go wrong with a package, together and in whatever   *)
(* order, the doctor accepts no package that lacks a file, or has one that *)
(* is unreadable, or whose results or build provenance are incomplete      *)
(* (doctor-native-plugin-package.py:131-157).                              *)
(***************************************************************************)
THEOREM AcceptsOnlyWhole == Spec => []AcceptedIsWhole
  <1>1. IInv => AcceptedIsWhole
    <2> SUFFICES ASSUME IInv, Accepted
                 PROVE  /\ \A f \in Files \ {"dependencyPrefix"} : Readable(pkg[f])
                        /\ pkg.bundle.id.mode = "production" \/
                              "dependencyPrefix" \in pkg.bundle.names =>
                            Readable(pkg.dependencyPrefix)
                        /\ pkg.prefix = PrefixFiles /\ pkg.buildProvenance.whole
                        /\ \A t \in Tests :
                             LET r == pkg.results[t] IN r.json.passed /\ r.json.log = r.log
      BY DEF AcceptedIsWhole
    <2>1. Readable(pkg.bundle) /\ Readable(pkg.plugin)
      BY AllFine DEF BundleFine, PluginFine
    <2>2. \A f \in TextDiagnostics : Readable(pkg[f])
      BY AllFine DEF SymbolsFine, Found, Readable
    <2>3. \A f \in JsonDiagnostics \ {"dependencyPrefix"} : Readable(pkg[f])
      BY AllFine DEF JsonDiagnostics, BaselineFine, SourcesFine, LifecycleFine,
                     DependenciesFine, Found, Readable
    <2>4. pkg.bundle.id.mode = "production" \/ "dependencyPrefix" \in pkg.bundle.names =>
            Readable(pkg.dependencyPrefix)
      BY AllFine DEF DependenciesFine, FieldsFine, PrefixFaults, Production, Unless, Readable
    <2>5. pkg.prefix = PrefixFiles
      BY AllFine DEF PrefixFine, PkgOK
    <2>6. pkg.buildProvenance.whole
      BY AllFine DEF SymbolsFine, ProvenanceFine, TextDiagnostics
    <2>7. \A t \in Tests : LET r == pkg.results[t] IN r.json.passed /\ r.json.log = r.log
      BY AllFine DEF ResultsFine, ResultFine
    <2> QED BY <2>1, <2>2, <2>3, <2>4, <2>5, <2>6, <2>7 DEF Files, Diagnostics
  <1> QED BY <1>1, InitIInv, NextIInv, PTL DEF Spec

(***************************************************************************)
(* Nor does it accept strictly what loads anything by a path of the build  *)
(* machine, out of the package, or that the scan could not resolve, when   *)
(* the scan in the package is of its files.  A path relative to the loader *)
(* may lead nowhere (doctor-native-plugin-package.py:985-1107).            *)
(***************************************************************************)
LEMMA PortableOrBad ==
  ASSUME NEW p \in Places, ~BadDependency([raw |-> p, class |-> Classes[p]])
  PROVE  p \in Portable \cup {"astray"}
  BY DEF Places, BadDependency, BadClasses, Escapes, Classes, Portable

THEOREM AcceptsOnlyRelocatable == Spec => []AcceptedIsRelocatable
  <1>1. IInv => AcceptedIsRelocatable
    <2> SUFFICES ASSUME IInv, Accepted, Strictly,
                        pkg.dependencyManifest.objects = Scan(pkg.deps)
                 PROVE  /\ \A o \in Objects : pkg.deps[o] \subseteq Portable \cup {"astray"}
                        /\ ~pkg.leaks
      BY DEF AcceptedIsRelocatable
    <2>1. Severe
      BY AllFine DEF Strictly, Severe, Production
    <2>2. ~pkg.leaks
      BY <2>1, AllFine DEF PrefixFine
    <2>3. ASSUME NEW o \in Objects, NEW p \in pkg.deps[o]
                 PROVE  p \in Portable \cup {"astray"}
      <3>1. p \in Places
        BY AllFine DEF PkgOK
      <3>2. [raw |-> p, class |-> Classes[p]] \in Scan(pkg.deps)[o]
        BY DEF Scan
      <3>3. DOMAIN Scan(pkg.deps) = Objects
        BY DEF Scan
      <3>4. ~BadDependency([raw |-> p, class |-> Classes[p]])
        BY <2>1, <3>2, <3>3, AllFine DEF DependenciesFine
      <3> QED BY <3>1, <3>4, PortableOrBad
    <2> QED BY <2>2, <2>3
  <1> QED BY <1>1, InitIInv, NextIInv, PTL DEF Spec

(***************************************************************************)
(* Nor one whose files are of different packages, as far as they say what  *)
(* they are of (doctor-native-plugin-package.py:198-740).                  *)
(***************************************************************************)
THEOREM AcceptsOnlyOnePackage == Spec => []AcceptedIsOfOnePackage
  <1>1. IInv => AcceptedIsOfOnePackage
    <2> SUFFICES ASSUME IInv, Accepted PROVE AcceptedIsOfOnePackage
      BY DEF AcceptedIsOfOnePackage
    <2> DEFINE b == pkg.bundle.id
               m == pkg.nativeLinkManifest
               p == pkg.buildProvenance
               l == pkg.platformBaseline
               s == pkg.sourceProvenance
    <2>1. \A k \in TextDiagnostics : Found(k) /\ pkg[k] # Garbled
      BY AllFine DEF SymbolsFine
    <2>2. Manifest = m
      BY <2>1 DEF Manifest, Content, TextDiagnostics
    <2>3. pkg.bundle \in Bundles
      BY AllFine DEF BundleFine, Readable, PkgOK, Odd
    <2>4. m \in Manifests /\ p \in Provenances
      BY <2>1, AllFine DEF PkgOK, Odd, Found, TextDiagnostics
    <2>5. l \in Baselines /\ s \in Sources
      BY AllFine DEF PkgOK, Odd, Found, BaselineFine, SourcesFine
    <2>6. b \in Ids(Nos \cup {None}) /\ p.id \in Ids(Nos)
      BY <2>3, <2>4 DEF Bundles, Provenances
    <2>7. \A k \in DOMAIN b : b[k] # None
      BY AllFine DEF FieldsFine
    <2>8. p.id = b
      <3>1. \A k \in DOMAIN b : p.id[k] = b[k]
        BY <2>1, <2>7, AllFine DEF ProvenanceFine, SameId, TextDiagnostics
      <3> HIDE DEF b, p
      <3> QED BY <2>6, <3>1 DEF Ids
    <2>9. b.plugin = pkg.plugin.no /\ b.status = RuntimeStatus(b.mode)
      BY <2>6, AllFine DEF PluginFine, FieldsFine, Production, RuntimeStatus, Ids, Modes, Statuses
    <2>10. BaselineIs(p.baseline) /\ BaselineIs(l.baseline)
      BY <2>1, AllFine DEF ProvenanceFine, BaselineFine, TextDiagnostics
    <2>11. p.baseline = l.baseline /\ (b.target = "darwin" => p.baseline = m.baseline)
      BY <2>2, <2>10, AllFine DEF BaselineIs
    <2>12. l = [target |-> b.target, baseline |-> p.baseline]
      <3>1. l.target = b.target
        BY AllFine DEF BaselineFine
      <3> HIDE DEF b, p, l
      <3> QED BY <2>5, <2>11, <3>1 DEF Baselines
    <2>13. /\ pkg.pluginDefinedSymbols = pkg.plugin.exports
           /\ pkg.backendExportSymbols = m.exports
           /\ m.exports \subseteq pkg.plugin.exports
           /\ Claimed(pkg.plugin.exports, m.exports)
      BY <2>2, AllFine DEF PluginFine, SymbolsFine
    <2>14. s = [source |-> m.source, patches |-> m.patches]
      <3>1. s.source = m.source \/ m.source = None
        BY <2>2, AllFine DEF SourcesFine
      <3>2. m.source # None
        BY <2>4 DEF Manifests, Nos
      <3>3. DOMAIN s.patches = DOMAIN m.patches
            /\ \A q \in DOMAIN s.patches : s.patches[q] = m.patches[q]
        BY <2>2, AllFine DEF SourcesFine
      <3> HIDE DEF s, m
      <3>4. s.patches = m.patches
        BY <2>4, <2>5, <3>3 DEF Sources, Manifests
      <3> QED BY <2>5, <3>1, <3>2, <3>4 DEF Sources
    <2> HIDE DEF b, m, p, l, s
    <2> QED BY <2>8, <2>9, <2>11, <2>12, <2>13, <2>14 DEF AcceptedIsOfOnePackage, b, m, p, l, s
  <1> QED BY <1>1, InitIInv, NextIInv, PTL DEF Spec

-------------------------------------------------------------------------------
(***************************************************************************)
(* InstallPath, for every set of versions, every script and every order.   *)
(* No induction is needed: what the search has seen lies in every closed   *)
(* set, and when nothing is pending it is one.                             *)
(***************************************************************************)

\* What is seen can be installed.
SeenIsInstallable ==
  \A S \in SUBSET Versions : base \subseteq S /\ Path!Closed(S) => seen \subseteq S

\* What was looked at has no upgrade that was not seen, none to the wanted version.
LookedAtIsDone ==
  /\ base \subseteq seen /\ pending \subseteq seen
  /\ \A v \in seen \ pending : Path!Upgrades(v) \subseteq seen
  /\ answer # "yes" => wanted \notin seen
  /\ answer = "no" => pending = {}

PathInv ==
  /\ Path!TypeOK
  /\ SeenIsInstallable
  /\ LookedAtIsDone
  /\ Path!AnswerIsRight

\* Before the first search nothing is wanted of no script at all.
LEMMA InitPath == Path!Init => PathInv
  <1> SUFFICES ASSUME Path!Init PROVE PathInv
    OBVIOUS
  <1>1. Path!Closed({})
    BY DEF Path!Closed
  <1>2. ~Path!Installable(wanted)
    BY <1>1 DEF Path!Init, Path!Installable
  <1> QED
    BY <1>2 DEF Path!Init, PathInv, Path!TypeOK, SeenIsInstallable, LookedAtIsDone,
                Path!AnswerIsRight

\* The invariant holds when a search starts: only base versions are seen.
LEMMA BeginKeeps ==
  ASSUME NEW b \in SUBSET Versions, NEW g \in SUBSET (Versions \X Versions),
         NEW v \in Versions, Path!Begin(b, g, v)
  PROVE  PathInv'
  BY DEF Path!Begin, PathInv, Path!TypeOK, SeenIsInstallable, LookedAtIsDone,
         Path!AnswerIsRight, Path!Installable

\* Looking at a version keeps the invariant.
LEMMA VisitKeeps == ASSUME PathInv, NEW v \in Versions, Path!Visit(v) PROVE PathInv'
  <1> USE DEF Path!Visit, Path!graph, Path!Ahead
  <1>1. base' = base /\ edges' = edges /\ wanted' = wanted /\ answer' = "searching"
    OBVIOUS
  <1>2. \A w : Path!Upgrades(w)' = Path!Upgrades(w)
    BY <1>1 DEF Path!Upgrades
  <1>3. \A S : Path!Closed(S)' <=> Path!Closed(S)
    BY <1>2 DEF Path!Closed
  <1>4. Path!TypeOK'
    BY <1>1 DEF PathInv, Path!TypeOK, Path!Upgrades
  <1>5. SeenIsInstallable'
    <2> SUFFICES ASSUME NEW S \in SUBSET Versions, base \subseteq S, Path!Closed(S)
                 PROVE  seen' \subseteq S
      BY <1>1, <1>3 DEF SeenIsInstallable
    <2>1. seen \subseteq S
      BY DEF PathInv, SeenIsInstallable
    <2>2. v \in S
      BY <2>1 DEF PathInv, LookedAtIsDone
    <2> QED BY <2>1, <2>2 DEF Path!Closed
  <1>6. LookedAtIsDone'
    <2>1. /\ base' \subseteq seen' /\ pending' \subseteq seen'
          /\ answer' # "yes" => wanted' \notin seen'
      BY <1>1 DEF PathInv, LookedAtIsDone
    <2>2. ASSUME NEW w \in seen' \ pending' PROVE Path!Upgrades(w)' \subseteq seen'
      <3>1. w \in seen /\ (w = v \/ w \notin pending)
        OBVIOUS
      <3> QED BY <1>2, <3>1 DEF PathInv, LookedAtIsDone
    <2> QED BY <1>1, <2>1, <2>2 DEF LookedAtIsDone
  <1> QED BY <1>1, <1>4, <1>5, <1>6 DEF PathInv, Path!AnswerIsRight

\* An upgrade to the wanted version makes it installable.
LEMMA ArriveKeeps == ASSUME PathInv, NEW v \in Versions, Path!Arrive(v) PROVE PathInv'
  <1> USE DEF Path!Arrive, Path!graph
  <1>1. UNCHANGED <<base, edges, wanted, seen, pending>> /\ answer' = "yes"
    OBVIOUS
  <1>2. \A w : Path!Upgrades(w)' = Path!Upgrades(w)
    BY <1>1 DEF Path!Upgrades
  <1>3. \A S : Path!Closed(S)' <=> Path!Closed(S)
    BY <1>2 DEF Path!Closed
  <1>4. ASSUME NEW S \in SUBSET Versions, base \subseteq S, Path!Closed(S) PROVE wanted \in S
    <2>1. v \in S
      BY <1>4 DEF PathInv, SeenIsInstallable, LookedAtIsDone
    <2> QED BY <1>4, <2>1 DEF Path!Closed
  <1>5. Path!AnswerIsRight'
    BY <1>1, <1>3, <1>4 DEF Path!AnswerIsRight, Path!Installable
  <1> QED
    BY <1>1, <1>2, <1>3, <1>5 DEF PathInv, Path!TypeOK, SeenIsInstallable, LookedAtIsDone

\* With nothing pending, what was seen is closed and lacks the wanted version.
LEMMA GiveUpKeeps == ASSUME PathInv, Path!GiveUp PROVE PathInv'
  <1> USE DEF Path!GiveUp, Path!graph
  <1>1. UNCHANGED <<base, edges, wanted, seen, pending>> /\ answer' = "no" /\ pending = {}
    OBVIOUS
  <1>2. \A w : Path!Upgrades(w)' = Path!Upgrades(w)
    BY <1>1 DEF Path!Upgrades
  <1>3. \A S : Path!Closed(S)' <=> Path!Closed(S)
    BY <1>2 DEF Path!Closed
  <1>4. seen \in SUBSET Versions /\ base \subseteq seen /\ Path!Closed(seen) /\ wanted \notin seen
    BY <1>1 DEF PathInv, Path!TypeOK, LookedAtIsDone, Path!Closed
  <1>5. Path!AnswerIsRight'
    BY <1>1, <1>3, <1>4 DEF Path!AnswerIsRight, Path!Installable
  <1> QED
    BY <1>1, <1>2, <1>3, <1>5 DEF PathInv, Path!TypeOK, SeenIsInstallable, LookedAtIsDone

\* No step of the search, and no stutter, disturbs the invariant.
LEMMA NextPath == PathInv /\ [Path!Next]_(Path!vars) => PathInv'
  <1> SUFFICES ASSUME PathInv, [Path!Next]_(Path!vars) PROVE PathInv'
    OBVIOUS
  <1>1. CASE Path!Next
    BY <1>1, BeginKeeps, VisitKeeps, ArriveKeeps, GiveUpKeeps DEF Path!Next, Path!Search
  <1>2. CASE UNCHANGED Path!vars
    BY <1>2 DEF Path!vars, Path!graph, PathInv, Path!TypeOK, SeenIsInstallable, LookedAtIsDone,
                Path!AnswerIsRight, Path!Installable, Path!Closed, Path!Upgrades
  <1> QED BY <1>1, <1>2

\* The search answers yes exactly to what PostgreSQL can install from the packaged
\* scripts, for every extension (doctor-native-plugin-package.py:1514-1552).
THEOREM SearchIsRight == Path!Spec => []Path!AnswerIsRight
  <1>1. PathInv => Path!AnswerIsRight
    BY DEF PathInv
  <1> QED BY InitPath, NextPath, <1>1, PTL DEF Path!Spec

\* Every step answers, finds a new version, or leaves fewer to look at.
THEOREM SearchEnds == Path!Spec => Path!SearchGetsOn
  <1>1. ASSUME PathInv, [Path!Next]_(Path!vars)
        PROVE  [answer = "searching" => Path!StepForward]_(Path!vars)
    <2>1. CASE Path!GiveUp
      BY <2>1 DEF Path!GiveUp, Path!StepForward
    <2>2. ASSUME NEW v \in Versions, Path!Arrive(v) PROVE Path!StepForward
      BY <2>2 DEF Path!Arrive, Path!StepForward
    <2>3. ASSUME NEW v \in Versions, Path!Visit(v) PROVE Path!StepForward
      <3>1. CASE Path!Ahead(v) = {}
        BY <2>3, <3>1 DEF Path!Visit, Path!StepForward
      <3>2. CASE Path!Ahead(v) # {}
        BY <2>3, <3>2 DEF Path!Visit, Path!Ahead, Path!StepForward
      <3> QED BY <3>1, <3>2
    <2>4. ASSUME NEW b, NEW g, NEW v, Path!Begin(b, g, v) PROVE answer # "searching"
      BY <2>4 DEF Path!Begin
    <2> QED BY <1>1, <2>1, <2>2, <2>3, <2>4 DEF Path!Next, Path!Search
  <1> QED BY InitPath, NextPath, <1>1, PTL DEF Path!Spec, Path!SearchGetsOn

-------------------------------------------------------------------------------
(***************************************************************************)
(* The doctor's searches are runs of InstallPath: what is proved there     *)
(* holds for every package.                                                *)
(***************************************************************************)

\* Between two entries no search is under way.
Idle == doc.entry = None => answer # "searching"

LEMMA InitSearches == Init => Path!Init /\ Idle
  BY DEF Init, Path!Init, Idle

LEMMA NextSearches ==
  ASSUME Types, Idle, [Next]_vars
  PROVE  [Path!Next]_(Path!vars) /\ Idle'
  <1> USE DEF Idle, search
  <1>1. ASSUME UNCHANGED search, doc'.entry = doc.entry
        PROVE  [Path!Next]_(Path!vars) /\ Idle'
    BY <1>1 DEF Path!vars, Path!graph
  <1>2. CASE StageFault \/ Package \/ PackageRefused \/ PackageFault
    <2>1. UNCHANGED search /\ doc'.entry = doc.entry
      BY <1>2 DEF StageFault, Package, PackageRefused, PackageFault, Types, DocFields
    <2> QED BY <1>1, <2>1
  <1>3. CASE ReportStep
    <2>1. UNCHANGED search /\ doc'.entry = doc.entry
      BY <1>3, Reported DEF Types, ReportStep
    <2> QED BY <1>1, <2>1
  <1>4. CASE ValidatePlugin \/ ValidateConformance
    <2>1. UNCHANGED search /\ doc'.entry = doc.entry
      BY <1>4 DEF ValidatePlugin, ValidateConformance, Types, DocFields
    <2> QED BY <1>1, <2>1
  <1>5. CASE TakeEntry
    <2> DEFINE i == CHOOSE i \in doc.todo : TRUE
               e == i.name
               go == Inspected(i) /\ Searchable(e)
    <2>1. /\ doc.entry = None /\ i \in doc.todo /\ PkgOK(pkg)
      BY <1>5 DEF TakeEntry, Types, At
    <2>2. /\ doc'.entry = IF go THEN e ELSE None
          /\ IF ~go THEN UNCHANGED search
             ELSE Path!Begin(pkg.scripts[e].base, pkg.scripts[e].edges, pkg.controls[e].default)
      BY <1>5 DEF TakeEntry, Types, DocFields
    <2>3. i \in Entries
      BY <2>1 DEF Types
    <2>4. CASE ~go
      BY <1>1, <2>1, <2>2, <2>4
    <2>5. CASE go
      <3>1. e \in Extensions /\ e # None
        BY <2>3, <2>5 DEF Entries, Inspected, Extensions
      <3>2. pkg.scripts[e] \in Scripts /\ pkg.controls[e] \in Controls /\ Searchable(e)
        BY <2>1, <2>5, <3>1 DEF PkgOK
      <3>3. /\ pkg.scripts[e].base \in SUBSET Versions
            /\ pkg.scripts[e].edges \in SUBSET (Versions \X Versions)
            /\ pkg.controls[e].default \in Versions
        BY <3>2 DEF Scripts, Controls, Searchable
      <3>4. Path!Begin(pkg.scripts[e].base, pkg.scripts[e].edges, pkg.controls[e].default)
        BY <2>2, <2>5 DEF Path!Begin
      <3>5. Path!Next
        BY <3>3, <3>4 DEF Path!Next
      <3>6. Idle'
        BY <2>2, <2>5, <3>1
      <3> QED BY <3>5, <3>6
    <2> QED BY <2>4, <2>5
  <1>6. CASE SearchPath
    <2>1. Path!Search
      BY <1>6 DEF SearchPath
    <2>2. doc.entry # None /\ doc' = doc
      BY <1>6 DEF SearchPath
    <2> QED BY <2>1, <2>2 DEF Path!Next
  <1>7. CASE SearchAnswered
    <2>1. UNCHANGED search /\ answer # "searching"
      BY <1>7 DEF SearchAnswered
    <2> QED BY <2>1 DEF Path!vars, Path!graph
  <1>8. CASE UNCHANGED vars
    BY <1>1, <1>8 DEF vars
  <1> QED BY <1>2, <1>3, <1>4, <1>5, <1>6, <1>7, <1>8, Reporting DEF Next

\* The doctor implements InstallPath.
THEOREM DoctorSearches == Spec => Path!Spec
  <1> QED BY InitTypes, NextTypes, InitSearches, NextSearches, PTL DEF Spec, Path!Spec

(***************************************************************************)
(* Whatever scripts a package has, the doctor's answer on each extension   *)
(* is PostgreSQL's, and each of its searches gets on to its end            *)
(* (doctor-native-plugin-package.py:1540-1552).                            *)
(***************************************************************************)
THEOREM InstallSearchesAreRight == Spec => []InstallSearchIsRight
  <1>1. Path!AnswerIsRight => InstallSearchIsRight
    BY DEF InstallSearchIsRight
  <1> QED BY <1>1, DoctorSearches, SearchIsRight, PTL

THEOREM InstallSearchesEnd == Spec => InstallSearchGetsOn
  BY DoctorSearches, SearchEnds, PTL DEF InstallSearchGetsOn, Path!SearchGetsOn

-------------------------------------------------------------------------------
(***************************************************************************)
(* The walk through the inventory: each entry it has left behind can be    *)
(* installed, or is the one whose search is under way.                     *)
(***************************************************************************)
CanInstall(e) ==
  \A S \in SUBSET Versions :
    /\ pkg.scripts[e].base \subseteq S
    /\ \A x \in pkg.scripts[e].edges : x[1] \in S => x[2] \in S
    => pkg.controls[e].default \in S

Walked(i) ==
  /\ FilesFine(i.name) /\ ProjFine(i)
  /\ (doc.entry # None /\ i.name = doc.entry) \/ CanInstall(i.name)

Searching(e) ==
  /\ base = pkg.scripts[e].base /\ edges = pkg.scripts[e].edges
  /\ wanted = pkg.controls[e].default
  /\ pkg.scripts[e] \in Scripts

Walking ==
  /\ doc.entry # None => At("extensions") /\ Searching(doc.entry)
  /\ doc.at \in PastExtensions => doc.todo = {} /\ doc.entry = None
  /\ doc.errors = {} /\ doc.at \in PastConformance =>
       \A i \in pkg.extensionInventory \ doc.todo : Inspected(i) => Walked(i)

\* A search that says yes is right about the extension.
LEMMA YesIsRight ==
  ASSUME InstallSearchIsRight, NEW e, Searching(e), answer = "yes" PROVE CanInstall(e)
  <1> SUFFICES ASSUME NEW S \in SUBSET Versions, pkg.scripts[e].base \subseteq S,
                      \A x \in pkg.scripts[e].edges : x[1] \in S => x[2] \in S
               PROVE  pkg.controls[e].default \in S
    BY DEF CanInstall
  <1>1. Path!Closed(S)
    BY DEF Searching, Path!Closed, Path!Upgrades
  <1> QED BY <1>1 DEF Searching, InstallSearchIsRight, Path!AnswerIsRight, Path!Installable

LEMMA WalkedStays ==
  ASSUME pkg' = pkg
  PROVE  /\ \A e : CanInstall(e)' <=> CanInstall(e)
         /\ \A i : FilesFine(i.name)' /\ ProjFine(i)' <=> FilesFine(i.name) /\ ProjFine(i)
  <1>1. \A e : CanInstall(e)' <=> CanInstall(e)
    BY DEF CanInstall
  <1>2. \A e : FilesFine(e)' <=> FilesFine(e)
    BY DEF FilesFine, Searchable, HasScripts, NamedModules
  <1>3. \A i : ProjFine(i)' <=> ProjFine(i)
    BY DEF ProjFine
  <1> QED BY <1>1, <1>2, <1>3

LEMMA NextWalks ==
  ASSUME IInv, Idle, Walking, InstallSearchIsRight, [Next]_vars PROVE Walking'
  <1> USE DEF At
  <1>1. CASE StageFault \/ Package \/ PackageRefused \/ PackageFault
    <2>1. /\ doc'.at \in {"packager", "shipped", "refused"} /\ doc'.entry = doc.entry
          /\ doc.at \in {"packager", "shipped"}
      BY <1>1 DEF StageFault, Package, PackageRefused, PackageFault, IInv, Types, DocFields
    <2> QED BY <2>1 DEF Walking, PastExtensions, PastConformance
  <1>2. CASE ReportStep
    <2>1. PICK next, complaints :
            /\ Report(next, complaints)
            /\ At("extensions") => doc.todo = {} /\ doc.entry = None
            /\ next # "extensions"
            /\ next \in {"finish", "tested", "accepted"} =>
                 doc.at \in {"extensions", "finish", "tested"}
      BY <1>2 DEF ReportStep
    <2>2. /\ doc'.at = next /\ doc'.errors = doc.errors \cup complaints
          /\ doc'.todo = doc.todo /\ doc'.entry = doc.entry /\ pkg' = pkg
      BY <2>1, Reported DEF IInv, Types
    <2>3. doc.entry = None
      BY <2>1 DEF Walking
    <2>4. doc'.at \in PastConformance => doc.at \in PastConformance /\ doc.todo = {}
      BY <2>1, <2>2 DEF PastConformance, PastExtensions, Walking
    <2>5. \A i : Walked(i)' <=> Walked(i)
      BY <2>2, WalkedStays DEF Walked
    <2> QED BY <2>2, <2>3, <2>4, <2>5 DEF Walking, Inspected, PastConformance
  <1>3. CASE ValidatePlugin
    <2>1. doc'.at = "prefix" /\ doc'.entry = doc.entry /\ doc.at = "plugin"
      BY <1>3 DEF ValidatePlugin, IInv, Types, DocFields
    <2> QED BY <2>1 DEF Walking, PastExtensions, PastConformance
  <1>4. CASE ValidateConformance
    <2>1. /\ doc'.at = "extensions" /\ doc'.entry = doc.entry /\ doc.at = "conformance"
          /\ doc'.todo = Content("extensionInventory", {}) /\ doc.errors \subseteq doc'.errors
          /\ pkg' = pkg
      BY <1>4 DEF ValidateConformance, IInv, Types, DocFields
    <2>2. doc.errors = {} => doc'.todo = pkg.extensionInventory
      BY <2>1 DEF IInv, Judged, FoundAt, SymbolsFine, TextDiagnostics, Content, PastSymbols,
                  PastProvenance, PastBaseline, PastSources, PastLifecycle
    <2> QED BY <2>1, <2>2 DEF Walking, PastExtensions
  <1>5. CASE TakeEntry
    <2>0. PICK i : i = CHOOSE j \in doc.todo : TRUE
      OBVIOUS
    <2>e. PICK e : e = i.name
      OBVIOUS
    <2>g. PICK go \in BOOLEAN : go <=> Inspected(i) /\ Searchable(e)
      OBVIOUS
    <2>1. /\ doc.at = "extensions" /\ doc.entry = None /\ i \in doc.todo /\ PkgOK(pkg)
          /\ pkg' = pkg
      BY <1>5, <2>0 DEF TakeEntry, IInv, Types
    <2>2. /\ doc'.at = doc.at /\ doc'.entry = (IF go THEN e ELSE None)
          /\ doc'.todo = doc.todo \ {i} /\ doc.errors \subseteq doc'.errors
          /\ go => Path!Begin(pkg.scripts[e].base, pkg.scripts[e].edges, pkg.controls[e].default)
      BY <1>5, <2>0, <2>e, <2>g DEF TakeEntry, IInv, Types, DocFields
    <2>3. Inspected(i) /\ doc'.errors = {} => FilesFine(e) /\ ProjFine(i)
      <3>1. Inspected(i) => Unless(FilesFine(e) /\ ProjFine(i), "files") \subseteq doc'.errors
        BY <1>5, <2>0, <2>e DEF TakeEntry, IInv, Types, DocFields
      <3> QED BY <3>1 DEF Unless
    <2>4. go => e \in Extensions
      BY <2>1, <2>e, <2>g DEF IInv, Types, Entries, Inspected
    <2>5. go => Searching(e)'
      BY <2>1, <2>2, <2>4 DEF Searching, Path!Begin, PkgOK
    <2>6. doc'.entry # None => Searching(doc.entry)'
      BY <2>2, <2>5 DEF Searching
    <2>7. ASSUME doc'.errors = {}, NEW j \in pkg.extensionInventory \ doc'.todo, Inspected(j)
          PROVE  Walked(j)'
      <3>1. CASE j = i
        <4>1. FilesFine(j.name) /\ ProjFine(j)
          BY <2>3, <2>7, <2>e, <3>1
        <4>2. doc'.entry # None /\ doc'.entry = j.name
          BY <2>2, <2>4, <2>7, <2>e, <2>g, <3>1, <4>1 DEF FilesFine, Extensions
        <4> QED BY <2>1, <4>1, <4>2, WalkedStays DEF Walked
      <3>2. CASE j # i
        <4>1. Walked(j) /\ doc.entry = None
          BY <2>1, <2>2, <2>7, <3>2 DEF Walking, PastConformance
        <4> QED BY <2>1, <4>1, WalkedStays DEF Walked
      <3> QED BY <3>1, <3>2
    <2> QED BY <2>1, <2>2, <2>6, <2>7 DEF Walking, PastExtensions, Inspected
  <1>6. CASE SearchPath
    <2>1. /\ pkg' = pkg /\ doc' = doc /\ base' = base /\ edges' = edges /\ wanted' = wanted
      BY <1>6 DEF SearchPath, Path!Search, Path!GiveUp, Path!Visit, Path!Arrive, Path!graph
    <2>2. \A i : Walked(i)' <=> Walked(i)
      BY <2>1, WalkedStays DEF Walked
    <2>3. \A e : Searching(e)' <=> Searching(e)
      BY <2>1 DEF Searching
    <2> QED BY <2>1, <2>2, <2>3 DEF Walking, Inspected
  <1>7. CASE SearchAnswered
    <2>1. /\ pkg' = pkg /\ doc.entry # None /\ doc'.entry = None /\ doc'.at = doc.at
          /\ doc'.todo = doc.todo /\ doc'.errors = doc.errors \cup Unless(answer = "yes", "path")
          /\ doc.at = "extensions"
      BY <1>7 DEF SearchAnswered, IInv, Types, DocFields
    <2>2. doc'.errors = {} => doc.errors = {} /\ CanInstall(doc.entry)
      BY <2>1, YesIsRight DEF Unless, Walking
    <2>3. \A i : doc'.errors = {} /\ Walked(i) => Walked(i)'
      BY <2>1, <2>2, WalkedStays DEF Walked
    <2> QED BY <2>1, <2>2, <2>3 DEF Walking, Inspected, PastExtensions
  <1>8. CASE UNCHANGED vars
    <2>1. \A i : Walked(i)' <=> Walked(i)
      BY <1>8, WalkedStays DEF Walked, vars
    <2>2. \A e : Searching(e)' <=> Searching(e)
      BY <1>8 DEF Searching, vars, search
    <2> QED BY <1>8, <2>1, <2>2 DEF Walking, Inspected, vars
  <1> QED BY <1>1, <1>2, <1>3, <1>4, <1>5, <1>6, <1>7, <1>8, Reporting DEF Next

LEMMA InitWalks == Init => Walking
  <1> SUFFICES ASSUME Init PROVE Walking
    OBVIOUS
  <1>1. doc.at = "packager" /\ doc.entry = None
    BY DEF Init
  <1> QED BY <1>1 DEF Walking, PastExtensions, PastConformance

(***************************************************************************)
(* What the inventory of an accepted package lists as present can be       *)
(* installed, for every set of versions and scripts                        *)
(* (doctor-native-plugin-package.py:867-983).                              *)
(***************************************************************************)
THEOREM AcceptsOnlyInstallable == Spec => []AcceptedExtensionsInstall
  <1>1. IInv /\ Walking => AcceptedExtensionsInstall
    <2> SUFFICES ASSUME IInv, Walking, Accepted,
                        NEW i \in pkg.extensionInventory, Inspected(i)
                 PROVE  Installs(i.name) /\ (i.name = "postgis" => pkg.proj = TRUE)
      BY DEF AcceptedExtensionsInstall
    <2>1. /\ FilesFine(i.name) /\ ProjFine(i) /\ CanInstall(i.name)
      BY DEF IInv, Verdict, Walking, Walked, Accepted, At, PastConformance, PastExtensions
    <2>2. i \in Entries
      BY AllFine DEF SymbolsFine, TextDiagnostics, Found, PkgOK, Odd
    <2>3. Installs(i.name)
      BY <2>1 DEF Installs, CanInstall, FilesFine, Searchable, NamedModules
    <2>4. i.name = "postgis" => pkg.proj = TRUE
      BY <2>1, <2>2 DEF ProjFine, Entries
    <2> QED BY <2>3, <2>4
  <1> QED BY <1>1, InitIInv, NextIInv, InitTypes, InitSearches, NextSearches, InitWalks,
             NextWalks, InstallSearchesAreRight, PTL DEF Spec, IInv

-------------------------------------------------------------------------------
(***************************************************************************)
(* The converse: a sound package that nothing happened to.  Each of its    *)
(* files is there and can be read, the doctor finds it, and no check has   *)
(* anything to complain of.                                                *)
(***************************************************************************)

\* The inventory is one of the packager's, or has an extension that is not pinned.
KnownInventory ==
  \/ stage.inventory \in {Inventory("present"), Inventory("missing")}
  \/ \E i \in stage.inventory : ~i.pinned

LEMMA PackedBundle ==
  ASSUME StageOK(stage), pkg = Packed(stage)
  PROVE  /\ pkg.bundle \in Bundles /\ Bundle = pkg.bundle
         /\ Bundle.names = Named(stage) /\ Named(stage) # None
         /\ Bundle.layout = TRUE
         /\ Bundle.id = [target |-> stage.target, release |-> stage.release,
                         mode |-> stage.mode, status |-> RuntimeStatus(stage.mode),
                         plugin |-> stage.plugin.no]
         /\ Production <=> stage.mode = "production"
  <1> DEFINE id == [target |-> stage.target, release |-> stage.release, mode |-> stage.mode,
                    status |-> RuntimeStatus(stage.mode), plugin |-> stage.plugin.no]
  <1>1. pkg.bundle = [id |-> id, layout |-> TRUE, names |-> Named(stage)]
    BY DEF Packed
  <1>2. pkg.bundle \in Bundles
    BY PackedHolds
  <1>3. Named(stage) # None
    <2>1. Named(stage) \in SUBSET Diagnostics
      BY DEF Named
    <2> QED BY <2>1, AbsenceAssumption
  <1>4. Bundle = pkg.bundle
    BY <1>2, AbsenceAssumption DEF Readable, Bundle
  <1>5. Bundle.names = Named(stage) /\ Bundle.layout = TRUE /\ Bundle.id = id
    <2> HIDE DEF id
    <2> QED BY <1>1, <1>4
  <1> QED BY <1>2, <1>3, <1>4, <1>5 DEF Production

LEMMA PackedReads ==
  ASSUME StageOK(stage), KnownInventory, \A i \in stage.inventory : i.pinned,
         pkg = Packed(stage), NEW k \in (Diagnostics \ {"dependencyPrefix"}) \cup {"plugin"}
  PROVE  Readable(pkg[k])
  <1> USE AbsenceAssumption DEF Readable
  <1>1. CASE k = "buildProvenance"
    BY <1>1, PackedHolds
  <1>2. CASE k = "nativeLinkManifest"
    BY <1>2, PackedHolds
  <1>3. CASE k = "extensionInventory"
    <2>1. pkg.extensionInventory = stage.inventory
      BY DEF Packed
    <2> QED BY <1>3, <2>1 DEF KnownInventory
  <1>4. CASE k \in {"pluginDefinedSymbols", "backendExportSymbols"}
    <2>1. pkg[k] \in SUBSET (Abi \cup Unlisted \cup Backend)
      BY <1>4 DEF Packed, StageOK, Plugins
    <2> QED BY <2>1
  <1>5. CASE k = "dependencies"
    BY <1>5, PackedHolds
  <1>6. CASE k = "dependencyManifest"
    BY <1>6, PackedHolds
  <1>7. CASE k = "platformBaseline"
    BY <1>7, PackedHolds
  <1>8. CASE k = "sourceProvenance"
    BY <1>8, PackedHolds
  <1>9. CASE k = "runtimeLifecycle"
    <2>1. pkg.runtimeLifecycle = "single-start-per-process"
      BY DEF Packed
    <2>2. "single-start-per-process" \notin {None, Garbled}
      BY DoctorAssumption
    <2> QED BY <1>9, <2>1, <2>2
  <1>10. CASE k = "plugin"
    BY <1>10 DEF Packed, StageOK
  <1> QED BY <1>1, <1>2, <1>3, <1>4, <1>5, <1>6, <1>7, <1>8, <1>9, <1>10
             DEF Diagnostics, TextDiagnostics, JsonDiagnostics

\* The bundle names them all, so that the doctor finds them.
LEMMA PackedFound ==
  ASSUME StageOK(stage), KnownInventory, \A i \in stage.inventory : i.pinned,
         pkg = Packed(stage), NEW k \in Diagnostics \ {"dependencyPrefix"}
  PROVE  /\ Found(k) /\ pkg[k] # None /\ pkg[k] # Garbled /\ Missed(k) = {}
         /\ \A d : Content(k, d) = pkg[k]
  <1>1. Readable(pkg[k])
    BY PackedReads
  <1>2. k \in Named(stage)
    BY DEF Named
  <1> QED BY <1>1, <1>2, PackedBundle DEF Found, Missed, Unless, Readable, Content
-------------------------------------------------------------------------------
\* What no check has anything to complain of, check by check.
Fresh ==
  /\ StageOK(stage) /\ KnownInventory /\ PackagerAccepts(stage) /\ stage.exports = Backend
  /\ pkg = Packed(stage) /\ Sound

LEMMA FreshFound ==
  ASSUME Fresh, NEW k \in Diagnostics \ {"dependencyPrefix"}
  PROVE  /\ Found(k) /\ pkg[k] # None /\ pkg[k] # Garbled /\ Missed(k) = {}
         /\ \A d : Content(k, d) = pkg[k]
  <1>1. \A i \in stage.inventory : i.pinned
    BY DEF Fresh, Sound
  <1> QED BY <1>1, PackedFound DEF Fresh

LEMMA FreshManifest ==
  ASSUME Fresh
  PROVE  /\ Manifest = [source |-> stage.source, patches |-> stage.prepared,
                        baseline |-> stage.baseline, exports |-> stage.exports]
  <1>1. Manifest = pkg.nativeLinkManifest
    BY FreshFound DEF Manifest, Diagnostics, TextDiagnostics
  <1> QED BY <1>1 DEF Fresh, Packed

LEMMA BundlePasses == ASSUME Fresh PROVE Readable(pkg.bundle) /\ BundleFaults = {}
  <1>1. pkg.bundle \in Bundles /\ Bundle.names # None
    BY PackedBundle DEF Fresh
  <1>2. Readable(pkg.bundle)
    BY <1>1, AbsenceAssumption DEF Readable
  <1>3. \A k \in DOMAIN Bundle.id : Bundle.id[k] # None
    <2>1. /\ stage.target # None /\ stage.release # None /\ stage.mode # None
          /\ stage.plugin.no # None
      BY AbsenceAssumption DEF Fresh, StageOK, Plugins
    <2>2. RuntimeStatus(stage.mode) # None
      BY AbsenceAssumption DEF RuntimeStatus, Statuses
    <2> QED BY <2>1, <2>2, PackedBundle DEF Fresh
  <1>4. Production <=> Bundle.id.status = "runtime-ready"
    BY PackedBundle DEF Fresh, RuntimeStatus
  <1> QED BY <1>1, <1>2, <1>3, <1>4 DEF BundleFaults, Unless

LEMMA PluginPasses ==
  ASSUME Fresh
  PROVE  /\ ActualSymbols = stage.plugin.exports /\ stage.plugin.exports # None
         /\ Readable(pkg.plugin) /\ pkg.plugin.no = Bundle.id.plugin
         /\ Abi \subseteq stage.plugin.exports
  <1>1. pkg.plugin = stage.plugin /\ stage.plugin \in Plugins
    BY DEF Fresh, Packed, StageOK
  <1>2. Readable(pkg.plugin)
    BY <1>1, AbsenceAssumption DEF Readable
  <1>3. stage.plugin.exports \in SUBSET (Abi \cup Unlisted \cup Backend)
    BY <1>1 DEF Plugins
  <1>4. stage.plugin.no \in Nos
    BY <1>1 DEF Plugins
  <1>5. Bundle.id.plugin = stage.plugin.no
    BY PackedBundle DEF Fresh
  <1>6. ActualSymbols = stage.plugin.exports
    BY <1>1, <1>2, <1>4, <1>5, AbsenceAssumption DEF ActualSymbols, Readable
  <1>7. Abi \subseteq stage.plugin.exports
    BY DEF Fresh, PackagerAccepts, ExportsAccepted
  <1> QED BY <1>1, <1>2, <1>3, <1>5, <1>6, <1>7, AbsenceAssumption

LEMMA LayoutPasses == ASSUME Fresh PROVE LayoutFaults = {} /\ ~pkg.alien
  <1>1. pkg.prefix = PrefixFiles /\ pkg.leaks = stage.leaks /\ pkg.alien = stage.alien
    BY DEF Fresh, Packed
  <1>2. Bundle.layout = TRUE /\ (Production <=> stage.mode = "production")
    BY PackedBundle DEF Fresh
  <1>3. Severe => ~pkg.leaks
    BY <1>1, <1>2 DEF Fresh, Sound, Severe
  <1>4. TRUE # None
    BY AbsenceAssumption
  <1> QED BY <1>1, <1>2, <1>3, <1>4 DEF LayoutFaults, Unless, Fresh, Sound

LEMMA DiagnosticsPass ==
  ASSUME Fresh, doc.symbols = stage.plugin.exports PROVE DiagnosticFaults = {}
  <1>1. \A k \in TextDiagnostics : Found(k) /\ pkg[k] # Garbled
    BY FreshFound DEF Diagnostics, TextDiagnostics
  <1>2. /\ Content("pluginDefinedSymbols", {}) = stage.plugin.exports
        /\ Content("backendExportSymbols", {}) = stage.exports
    <2>1. /\ pkg.pluginDefinedSymbols = stage.plugin.exports
          /\ pkg.backendExportSymbols = stage.exports
      BY DEF Fresh, Packed
    <2> QED BY <2>1, FreshFound DEF Diagnostics, TextDiagnostics
  <1>3. ListedFine
    BY <1>2, PluginPasses DEF ListedFine
  <1>4. Bundle.id.target = stage.target /\ Bundle.names # None
    BY PackedBundle DEF Fresh
  <1>5. ExportsFine
    <2>1. stage.exports # {}
      BY DoctorAssumption DEF Fresh
    <2>2. stage.exports \subseteq doc.symbols /\ Claimed(doc.symbols, stage.exports)
      BY DEF Fresh, Sound
    <2>3. stage.exports = Manifest.exports
      BY FreshManifest
    <2>4. stage.target = "linux" => stage.plugin.exports \subseteq Abi \cup stage.exports
      BY DEF Fresh, PackagerAccepts, ExportsAccepted
    <2> QED BY <1>2, <1>4, <2>1, <2>2, <2>3, <2>4 DEF ExportsFine
  <1> QED BY <1>1, <1>3, <1>4, <1>5 DEF DiagnosticFaults, Unless
LEMMA ProvenancePasses == ASSUME Fresh PROVE ProvenanceFaults = {} /\ BaselineFaults = {}
  <1> DEFINE p == pkg.buildProvenance
  <1>1. /\ p.id = Bundle.id /\ p.names = Bundle.names /\ p.whole = TRUE
        /\ p.baseline = stage.baseline
        /\ pkg.platformBaseline = [target |-> stage.target, baseline |-> stage.baseline]
    BY PackedBundle DEF Fresh, Packed
  <1>2. SameId(Bundle.id, p.id)
    BY <1>1 DEF SameId
  <1>3. BaselineIs(stage.baseline) /\ Bundle.id.target = stage.target
    <2>1. Bundle.id.target = stage.target
      BY PackedBundle DEF Fresh
    <2>2. stage.target # "darwin" => stage.target = "linux"
      BY DEF Fresh, StageOK, Targets
    <2>3. Manifest.baseline = stage.baseline
      BY FreshManifest
    <2>4. stage.target = "linux" => stage.baseline = 1
      BY DEF Fresh, Sound
    <2> QED BY <2>1, <2>2, <2>3, <2>4 DEF BaselineIs
  <1>4. /\ Found("buildProvenance") /\ p # Garbled
        /\ Found("platformBaseline") /\ pkg.platformBaseline # Garbled
    BY FreshFound DEF Diagnostics, TextDiagnostics, JsonDiagnostics
  <1>5. ProvenanceFaults = {}
    BY <1>1, <1>2, <1>3, <1>4 DEF ProvenanceFaults, Unless
  <1>6. BaselineFaults = {}
    BY <1>1, <1>3, <1>4 DEF BaselineFaults, Unless
  <1> QED BY <1>5, <1>6

LEMMA SourcesPass == ASSUME Fresh PROVE SourceFaults = {}
  <1>1. pkg.sourceProvenance = [source |-> stage.source, patches |-> stage.prepared]
    BY DEF Fresh, Sound, Packed
  <1>2. /\ Found("sourceProvenance") /\ pkg.sourceProvenance # Garbled
        /\ Missed("nativeLinkManifest") = {}
    BY FreshFound DEF Diagnostics, TextDiagnostics, JsonDiagnostics
  <1>3. Manifest.source = stage.source /\ Manifest.patches = stage.prepared
    BY FreshManifest
  <1>4. /\ pkg.sourceProvenance.source = Manifest.source
        /\ pkg.sourceProvenance.patches = Manifest.patches
    BY <1>1, <1>3
  <1> QED BY <1>2, <1>4 DEF SourceFaults, Unless

LEMMA LifecyclePasses == ASSUME Fresh PROVE LifecycleFaults = {}
  <1>1. pkg.runtimeLifecycle = "single-start-per-process"
    BY DEF Fresh, Packed
  <1>2. Found("runtimeLifecycle")
    BY FreshFound DEF Diagnostics, JsonDiagnostics
  <1> QED BY <1>1, <1>2 DEF LifecycleFaults, Unless

LEMMA DependenciesPass == ASSUME Fresh PROVE DependencyFaults = {}
  <1> DEFINE d == pkg.dependencies
             m == pkg.dependencyManifest
  <1>1. /\ d = [tool |-> TRUE, objects |-> Objects,
                places |-> UNION {pkg.deps[o] : o \in Objects}]
        /\ m = [platform |-> Platform(stage.target), tool |-> Tool(stage.target),
                objects |-> Scan(pkg.deps)]
    BY DEF Fresh, Packed
  <1>2. /\ Found("dependencies") /\ d # Garbled /\ Found("dependencyManifest") /\ m # Garbled
    BY FreshFound DEF Diagnostics, TextDiagnostics, JsonDiagnostics
  <1>3. Bundle.id.target = stage.target /\ (Production <=> stage.mode = "production")
    BY PackedBundle DEF Fresh
  <1>4. Severe => \A o \in Objects : pkg.deps[o] \subseteq Portable
    BY <1>3 DEF Severe, Fresh, Sound
  <1>5. Severe => d.places \cap BuildPaths = {}
    BY <1>1, <1>4 DEF Portable, BuildPaths
  <1>6. ManifestFaults = {}
    <2>1. ASSUME Severe, NEW o \in Objects, NEW x \in m.objects[o] PROVE ~BadDependency(x)
      <3>1. PICK p \in pkg.deps[o] : x = [raw |-> p, class |-> Classes[p]]
        BY <1>1, <2>1 DEF Scan
      <3>2. p \in Portable
        BY <1>4, <2>1
      <3> QED BY <3>1, <3>2
              DEF BadDependency, BadClasses, Escapes, Classes, Portable, Places
    <2>2. DOMAIN m.objects = Objects /\ d.objects = Objects /\ Objects # {}
      BY <1>1 DEF Scan, Objects
    <2>3. m.platform = Platform(Bundle.id.target) /\ m.tool = Tool(Bundle.id.target)
      BY <1>1, <1>3
    <2> QED BY <2>1, <2>2, <2>3 DEF ManifestFaults, Unless
  <1>7. PrefixFaults = {}
    <2>1. /\ pkg.dependencyPrefix = IF stage.controlled THEN [complete |-> TRUE] ELSE None
          /\ Bundle.names = Named(stage) /\ Bundle.names # None
      BY PackedBundle DEF Fresh, Packed
    <2>2. [complete |-> TRUE] \notin {None, Garbled}
      BY AbsenceAssumption
    <2>3. CASE stage.controlled
      BY <2>1, <2>2, <2>3 DEF PrefixFaults, Unless, Named, Diagnostics, JsonDiagnostics
    <2>4. CASE ~stage.controlled
      <3>1. ~Production
        BY <1>3, <2>4 DEF Fresh, PackagerAccepts
      <3> QED BY <2>1, <2>4, <3>1 DEF PrefixFaults, Unless, Named
    <2> QED BY <2>3, <2>4
  <1>8. ScanFaults = {}
    BY <1>2, <1>6, <1>7 DEF ScanFaults
  <1>9. d.tool = TRUE
    BY <1>1
  <1> QED BY <1>2, <1>5, <1>8, <1>9 DEF DependencyFaults, Unless

\* An entry of the inventory that can be installed has all the files the doctor asks for.
LEMMA EntryPasses ==
  ASSUME Fresh, NEW i \in stage.inventory
  PROVE  /\ i.pinned
         /\ Inspected(i) => FilesFine(i.name) /\ ProjFine(i) /\ Installs(i.name)
         /\ i.status = "missing" => ~Production
  <1>1. i.pinned /\ i \in Entries
    BY DEF Fresh, Sound, StageOK
  <1>2. ASSUME Inspected(i) PROVE FilesFine(i.name) /\ ProjFine(i) /\ Installs(i.name)
    <2> DEFINE e == i.name
    <2>1. Installs(e) /\ (e = "postgis" => stage.proj = TRUE)
      BY <1>2 DEF Fresh, Sound
    <2>2. e \in Extensions
      BY <1>1, <1>2 DEF Entries, Inspected
    <2>3. HasScripts(e)
      <3>1. ASSUME pkg.scripts[e].base = {} PROVE FALSE
        <4>1. \A x \in pkg.scripts[e].edges : x[1] \in {} => x[2] \in {}
          OBVIOUS
        <4>2. pkg.controls[e].default \in {}
          BY <2>1, <3>1, <4>1 DEF Installs
        <4> QED BY <4>2
      <3> QED BY <3>1 DEF HasScripts
    <2>4. pkg.libs[e] # None
      <3>1. pkg.libs = stage.needs
        BY DEF Fresh, Packed
      <3> QED BY <2>2, <3>1 DEF Fresh, Sound, Libs
    <2>5. FilesFine(e)
      BY <2>1, <2>3, <2>4 DEF FilesFine, Searchable, NamedModules, Installs
    <2>6. ProjFine(i)
      BY <2>1 DEF ProjFine, Fresh, Packed
    <2> QED BY <2>1, <2>5, <2>6
  <1>3. ASSUME i.status = "missing" PROVE ~Production
    <2>1. stage.inventory # Inventory("present")
      BY <1>3 DEF Inventory
    <2> QED BY <2>1, PackedBundle DEF Fresh, Sound
  <1> QED BY <1>1, <1>2, <1>3
-------------------------------------------------------------------------------
(***************************************************************************)
(* The invariant: an untouched package of a sound stage gets through, and  *)
(* until then nothing has been complained of.                              *)
(***************************************************************************)
Unshipped == {"packager", "refused"}
Ended == {"tested", "accepted", "rejected"}

Untouched == pkg # None /\ pkg = Packed(stage) /\ Sound

NoComplaints ==
  /\ doc.errors \subseteq SelfTests
  /\ doc.at \notin Ended => doc.errors = {}
  /\ doc.at \in PastPlugin => doc.symbols = stage.plugin.exports
  /\ At("extensions") =>
       doc.todo \subseteq stage.inventory /\ (doc.entry # None => Installs(doc.entry))

Passing ==
  /\ stage.exports = Backend /\ KnownInventory
  /\ doc.at \in Unshipped => pkg = None
  /\ doc.at \notin Unshipped => PackagerAccepts(stage)
  /\ doc.at \in Unshipped \cup {"shipped"} => doc.errors = {}
  /\ Untouched /\ doc.at \notin Unshipped \cup {"shipped"} => NoComplaints

LEMMA InitPasses == Init => Passing
  <1> SUFFICES ASSUME Init PROVE Passing
    OBVIOUS
  <1>1. PICK target \in Targets, mode \in Modes : stage = Honest(target, mode)
    BY DEF Init, Targets, Modes
  <1>2. stage.exports = Backend /\ KnownInventory
    BY <1>1 DEF Honest, KnownInventory
  <1>3. doc.at = "packager" /\ doc.errors = {} /\ pkg = None
    BY DEF Init
  <1> QED BY <1>2, <1>3 DEF Passing, Unshipped

LEMMA StageFaultPasses == ASSUME Types, Passing, StageFault PROVE Passing'
  <1>1. stage'.exports = stage.exports
    BY DEF StageFault, OddBinaries, OddSources, OddExtensions, OddResults, Types, StageOK,
           StageFields
  <1>2. KnownInventory'
    <2>1. CASE stage'.inventory = stage.inventory
      BY <2>1 DEF KnownInventory, Passing
    <2>2. CASE stage' = [stage EXCEPT !.inventory = Inventory("missing")]
      BY <2>2 DEF KnownInventory, Types, StageOK, StageFields
    <2>3. CASE \E i \in stage.inventory :
                 stage' = [stage EXCEPT !.inventory =
                             (@ \ {i}) \cup {[i EXCEPT !.pinned = FALSE]}]
      <3>1. PICK i \in stage.inventory :
              stage' = [stage EXCEPT !.inventory =
                          (@ \ {i}) \cup {[i EXCEPT !.pinned = FALSE]}]
        BY <2>3
      <3>2. [i EXCEPT !.pinned = FALSE] \in stage'.inventory
        BY <3>1 DEF Types, StageOK, StageFields
      <3>3. "pinned" \in DOMAIN i
        BY DEF Types, StageOK, Entries
      <3> QED BY <3>2, <3>3 DEF KnownInventory
    <2> QED BY <2>1, <2>2, <2>3
            DEF StageFault, OddBinaries, OddSources, OddExtensions, OddResults, Types, StageOK,
                StageFields
  <1>3. doc' = doc /\ pkg' = pkg /\ doc.at = "packager"
    BY DEF StageFault, At
  <1> QED BY <1>1, <1>2, <1>3 DEF Passing, Unshipped

\* Once the package is on its way, neither it nor what it was made of changes.
LEMMA SoundStays ==
  ASSUME UNCHANGED <<stage, pkg>>, doc'.strict = doc.strict
  PROVE  /\ Sound' <=> Sound
         /\ KnownInventory' <=> KnownInventory
         /\ \A e : Installs(e)' <=> Installs(e)
  <1>1. \A e : Installs(e)' <=> Installs(e)
    BY DEF Installs
  <1>2. \A t : ResultFine(t)' <=> ResultFine(t)
    BY DEF ResultFine
  <1>3. Claimed(stage.plugin.exports, stage.exports)' <=>
          Claimed(stage.plugin.exports, stage.exports)
    BY DEF Claimed
  <1> QED BY <1>1, <1>2, <1>3 DEF Sound, KnownInventory, Inspected

LEMMA FreshPackage ==
  ASSUME Types, Passing, Untouched, doc.at \notin Unshipped PROVE Fresh
  BY DEF Types, Passing, Untouched, Fresh

\* A check without complaints about a fresh package.
LEMMA ReportPasses ==
  ASSUME Types, Passing, NEW next, NEW complaints, Report(next, complaints),
         doc.at \notin Unshipped, next \notin Unshipped \cup {"shipped", "extensions"},
         Untouched => complaints \subseteq SelfTests /\ (next \notin Ended => complaints = {}),
         next \notin Ended => doc.at \notin Ended,
         next \in PastPlugin => doc.at \in PastPlugin
  PROVE  Passing'
  <1>1. /\ doc'.at = next /\ doc'.errors = doc.errors \cup complaints
        /\ doc'.strict = doc.strict /\ doc'.symbols = doc.symbols
        /\ UNCHANGED <<stage, pkg>>
    BY Reported DEF Types
  <1>2. /\ Untouched' <=> Untouched
        /\ KnownInventory' /\ stage'.exports = Backend /\ PackagerAccepts(stage)'
    BY <1>1, SoundStays DEF Untouched, Passing, PackagerAccepts, ExportsAccepted
  <1>3. ASSUME Untouched PROVE NoComplaints'
    <2>1. doc.errors \subseteq SelfTests /\ (doc.at \notin Ended => doc.errors = {})
      BY <1>3 DEF NoComplaints, Passing
    <2>2. doc'.at \in PastPlugin => doc'.symbols = stage'.plugin.exports
      <3>1. doc.at \in PastPlugin => doc.at # "shipped"
        BY DEF PastPlugin, PastPrefix, PastSymbols, PastProvenance, PastBaseline, PastSources,
               PastLifecycle, PastConformance, PastExtensions
      <3> QED BY <1>1, <1>3, <3>1 DEF NoComplaints, Passing
    <2> QED BY <1>1, <1>3, <2>1, <2>2 DEF NoComplaints, At
  <1> QED BY <1>1, <1>2, <1>3 DEF Passing

LEMMA ChecksPass ==
  ASSUME Types, Passing,
         \/ StartDoctor \/ ValidateBundle \/ ValidatePostgresPrefix
         \/ ValidateNativeOnlyPayload \/ ValidateDiagnostics \/ ValidateBuildProvenance
         \/ ValidatePlatformBaseline \/ ValidateSourceProvenance \/ ValidateLifecycle
         \/ ValidateDependencies \/ SelfTest \/ Finish
  PROVE  Passing'
  <1> USE FreshPackage
      DEF At, Unshipped, Ended, PastPlugin, PastPrefix, PastSymbols, PastProvenance,
          PastBaseline, PastSources, PastLifecycle, PastConformance, PastExtensions
  <1>1. CASE StartDoctor
    BY <1>1, ReportPasses, BundlePasses DEF StartDoctor, Unless
  <1>2. CASE ValidateBundle
    BY <1>2, ReportPasses, BundlePasses DEF ValidateBundle
  <1>3. CASE ValidatePostgresPrefix
    BY <1>3, ReportPasses, LayoutPasses DEF ValidatePostgresPrefix
  <1>4. CASE ValidateNativeOnlyPayload
    BY <1>4, ReportPasses, LayoutPasses DEF ValidateNativeOnlyPayload, Unless
  <1>5. CASE ValidateDiagnostics
    <2>1. Untouched => doc.symbols = stage.plugin.exports
      BY <1>5 DEF ValidateDiagnostics, Passing, NoComplaints
    <2> QED BY <1>5, <2>1, ReportPasses, DiagnosticsPass DEF ValidateDiagnostics
  <1>6. CASE ValidateBuildProvenance
    BY <1>6, ReportPasses, ProvenancePasses DEF ValidateBuildProvenance
  <1>7. CASE ValidatePlatformBaseline
    BY <1>7, ReportPasses, ProvenancePasses DEF ValidatePlatformBaseline
  <1>8. CASE ValidateSourceProvenance
    BY <1>8, ReportPasses, SourcesPass DEF ValidateSourceProvenance
  <1>9. CASE ValidateLifecycle
    BY <1>9, ReportPasses, LifecyclePasses DEF ValidateLifecycle
  <1>10. CASE ValidateDependencies
    BY <1>10, ReportPasses, DependenciesPass DEF ValidateDependencies
  <1>11. CASE SelfTest
    BY <1>11, ReportPasses DEF SelfTest
  <1>12. CASE Finish
    BY <1>12, ReportPasses DEF Finish
  <1> QED BY <1>1, <1>2, <1>3, <1>4, <1>5, <1>6, <1>7, <1>8, <1>9, <1>10, <1>11, <1>12
LEMMA ValidatePluginPasses == ASSUME Types, Passing, ValidatePlugin PROVE Passing'
  <1>1. /\ doc.at = "plugin" /\ doc'.at = "prefix" /\ UNCHANGED <<stage, pkg>>
        /\ doc'.symbols = ActualSymbols /\ doc'.strict = doc.strict
        /\ doc'.errors = doc.errors \cup
             (IF ActualSymbols = None THEN {"plugin"}
              ELSE Unless(Readable(pkg.plugin) /\ pkg.plugin.no = Bundle.id.plugin,
                          "checksum") \cup
                   Unless(Abi \subseteq ActualSymbols, "ABI"))
    BY DEF ValidatePlugin, At, Types, DocFields
  <1>2. /\ Untouched' <=> Untouched
        /\ KnownInventory' /\ stage'.exports = Backend /\ PackagerAccepts(stage)'
    BY <1>1, SoundStays DEF Untouched, Passing, PackagerAccepts, ExportsAccepted, Unshipped
  <1>3. ASSUME Untouched PROVE NoComplaints'
    <2>1. Fresh /\ doc.errors = {}
      BY <1>1, <1>3, FreshPackage DEF Passing, NoComplaints, Unshipped, Ended
    <2>2. doc'.errors = {} /\ doc'.symbols = stage'.plugin.exports
      BY <1>1, <2>1, PluginPasses DEF Unless
    <2> QED BY <1>1, <2>2 DEF NoComplaints, At
  <1> QED BY <1>1, <1>2, <1>3 DEF Passing, Unshipped

LEMMA ValidateConformancePasses ==
  ASSUME Types, Passing, Walking, ValidateConformance PROVE Passing'
  <1>1. /\ doc.at = "conformance" /\ doc'.at = "extensions" /\ UNCHANGED <<stage, pkg>>
        /\ doc'.todo = Content("extensionInventory", {}) /\ doc'.entry = doc.entry
        /\ doc'.symbols = doc.symbols /\ doc'.strict = doc.strict
        /\ doc'.errors = doc.errors \cup
             (IF Bundle.names = None THEN {} ELSE {t \in Tests : ~ResultFine(t)}) \cup
             Missed("extensionInventory")
    BY DEF ValidateConformance, At, Types, DocFields
  <1>2. /\ Untouched' <=> Untouched
        /\ KnownInventory' /\ stage'.exports = Backend /\ PackagerAccepts(stage)'
    BY <1>1, SoundStays DEF Untouched, Passing, PackagerAccepts, ExportsAccepted, Unshipped
  <1>3. ASSUME Untouched PROVE NoComplaints'
    <2>1. /\ Fresh /\ doc.errors = {} /\ doc.symbols = stage.plugin.exports
      BY <1>1, <1>3, FreshPackage DEF Passing, NoComplaints, Unshipped, Ended, PastPlugin,
         PastPrefix, PastSymbols, PastProvenance, PastBaseline, PastSources, PastLifecycle
    <2>2. Missed("extensionInventory") = {} /\ doc'.todo = stage.inventory
      <3>1. pkg.extensionInventory = stage.inventory
        BY <2>1 DEF Fresh, Packed
      <3> QED BY <1>1, <2>1, <3>1, FreshFound DEF Diagnostics, TextDiagnostics
    <2>3. \A t \in Tests : ResultFine(t)
      BY <2>1 DEF Fresh, Sound
    <2>4. doc'.entry = None
      BY <1>1 DEF Walking, At
    <2>5. doc'.errors = {}
      BY <1>1, <2>1, <2>2, <2>3
    <2> QED BY <1>1, <2>1, <2>2, <2>4, <2>5 DEF NoComplaints, At
  <1> QED BY <1>1, <1>2, <1>3 DEF Passing, Unshipped

LEMMA TakeEntryPasses == ASSUME Types, Passing, TakeEntry PROVE Passing'
  <1>0. PICK i : i = CHOOSE j \in doc.todo : TRUE
    OBVIOUS
  <1>g. PICK go \in BOOLEAN : go <=> Inspected(i) /\ Searchable(i.name)
    OBVIOUS
  <1>1. /\ doc.at = "extensions" /\ doc'.at = "extensions" /\ UNCHANGED <<stage, pkg>>
        /\ i \in doc.todo /\ doc'.todo = doc.todo \ {i}
        /\ doc'.entry = (IF go THEN i.name ELSE None)
        /\ doc'.symbols = doc.symbols /\ doc'.strict = doc.strict
        /\ doc'.errors = doc.errors \cup Unless(i.pinned, "pin") \cup
             (IF Inspected(i) THEN Unless(FilesFine(i.name) /\ ProjFine(i), "files")
              ELSE Unless(i.status = "missing" => ~Production, "missing"))
    BY <1>0, <1>g DEF TakeEntry, At, Types, DocFields
  <1>2. /\ Untouched' <=> Untouched
        /\ KnownInventory' /\ stage'.exports = Backend /\ PackagerAccepts(stage)'
        /\ \A e : Installs(e)' <=> Installs(e)
    BY <1>1, SoundStays DEF Untouched, Passing, PackagerAccepts, ExportsAccepted, Unshipped
  <1>3. ASSUME Untouched PROVE NoComplaints'
    <2>1. /\ Fresh /\ doc.errors = {} /\ i \in stage.inventory /\ doc.todo \subseteq stage.inventory
          /\ doc.symbols = stage.plugin.exports
      BY <1>1, <1>3, FreshPackage DEF Passing, NoComplaints, Unshipped, Ended, At, PastPlugin,
         PastPrefix, PastSymbols, PastProvenance, PastBaseline, PastSources, PastLifecycle,
         PastConformance
    <2>2. doc'.errors = {}
      BY <1>1, <2>1, EntryPasses DEF Unless
    <2>3. doc'.entry # None => Installs(doc'.entry)
      BY <1>1, <1>g, <2>1, EntryPasses
    <2> QED BY <1>1, <1>2, <2>1, <2>2, <2>3 DEF NoComplaints, At
  <1> QED BY <1>1, <1>2, <1>3 DEF Passing, Unshipped

\* The search answers yes to an extension that can be installed.
LEMMA SearchAnsweredPasses ==
  ASSUME Types, Passing, Walking, PathInv, SearchAnswered PROVE Passing'
  <1>1. /\ doc.at = "extensions" /\ doc'.at = "extensions" /\ UNCHANGED <<stage, pkg>>
        /\ doc.entry # None /\ doc'.entry = None /\ doc'.todo = doc.todo
        /\ doc'.symbols = doc.symbols /\ doc'.strict = doc.strict
        /\ doc'.errors = doc.errors \cup Unless(answer = "yes", "path")
        /\ answer # "searching"
    BY DEF SearchAnswered, At, Types, DocFields
  <1>2. /\ Untouched' <=> Untouched
        /\ KnownInventory' /\ stage'.exports = Backend /\ PackagerAccepts(stage)'
    BY <1>1, SoundStays DEF Untouched, Passing, PackagerAccepts, ExportsAccepted, Unshipped
  <1>3. ASSUME Untouched PROVE NoComplaints'
    <2>1. /\ doc.errors = {} /\ doc.todo \subseteq stage.inventory /\ Installs(doc.entry)
          /\ doc.symbols = stage.plugin.exports
      BY <1>1, <1>3 DEF Passing, NoComplaints, Unshipped, Ended, At, PastPlugin,
         PastPrefix, PastSymbols, PastProvenance, PastBaseline, PastSources, PastLifecycle,
         PastConformance
    <2>2. answer = "yes"
      <3>1. Searching(doc.entry)
        BY <1>1 DEF Walking
      <3>2. Path!Installable(wanted)
        <4> SUFFICES ASSUME NEW S \in SUBSET Versions, base \subseteq S, Path!Closed(S)
                     PROVE  wanted \in S
          BY DEF Path!Installable
        <4>1. \A x \in edges : x[1] \in S => x[2] \in S
          BY <3>1 DEF Path!Closed, Path!Upgrades, Searching, Scripts
        <4> QED BY <2>1, <3>1, <4>1 DEF Installs, Searching
      <3> QED BY <1>1, <3>2 DEF PathInv, Path!TypeOK, Path!AnswerIsRight
    <2> QED BY <1>1, <2>1, <2>2 DEF NoComplaints, At, Unless
  <1> QED BY <1>1, <1>2, <1>3 DEF Passing, Unshipped

LEMMA NextPasses ==
  ASSUME Types, Passing, Walking, PathInv, [Next]_vars PROVE Passing'
  <1>1. CASE StageFault
    BY <1>1, StageFaultPasses
  <1>2. CASE Package
    <2>1. /\ doc.at = "packager" /\ doc'.at = "shipped" /\ doc'.errors = doc.errors
          /\ PackagerAccepts(stage) /\ stage' = stage
      BY <1>2 DEF Package, At, Types, DocFields
    <2> QED BY <2>1 DEF Passing, Unshipped, KnownInventory, PackagerAccepts, ExportsAccepted
  <1>3. CASE PackageRefused
    <2>1. /\ doc.at = "packager" /\ doc'.at = "refused" /\ doc'.errors = doc.errors
          /\ UNCHANGED <<stage, pkg>>
      BY <1>3 DEF PackageRefused, At, Types, DocFields
    <2> QED BY <2>1 DEF Passing, Unshipped, KnownInventory
  <1>4. CASE PackageFault
    <2>1. doc.at = "shipped" /\ doc' = doc /\ stage' = stage
      BY <1>4 DEF PackageFault, At
    <2> QED BY <2>1 DEF Passing, Unshipped, KnownInventory, PackagerAccepts, ExportsAccepted
  <1>5. CASE SearchPath \/ UNCHANGED vars
    <2>1. UNCHANGED <<stage, pkg, doc>>
      BY <1>5 DEF SearchPath, vars
    <2> QED BY <2>1, SoundStays DEF Passing, Untouched, NoComplaints, At, PackagerAccepts,
            ExportsAccepted
  <1> QED BY <1>1, <1>2, <1>3, <1>4, <1>5, ChecksPass, ValidatePluginPasses,
             ValidateConformancePasses, TakeEntryPasses, SearchAnsweredPasses DEF Next

(***************************************************************************)
(* The doctor rejects no sound package that nothing happened to, for every *)
(* set of symbols, patches, versions and tests                             *)
(* (package-native-plugin-release.sh:330-604).                             *)
(***************************************************************************)
THEOREM SoundOnesPass == Spec => []SoundPackagesPass
  <1>1. Passing => SoundPackagesPass
    BY DEF Passing, SoundPackagesPass, Untouched, NoComplaints, Unshipped
  <1>2. Spec => []PathInv
    BY DoctorSearches, InitPath, NextPath, PTL DEF Path!Spec
  <1>3. PathInv => InstallSearchIsRight
    BY DEF PathInv, InstallSearchIsRight
  <1> QED BY <1>1, <1>2, <1>3, InitTypes, NextTypes, InitIInv, NextIInv, InitSearches,
             NextSearches, InitWalks, NextWalks, InitPasses, NextPasses, PTL DEF Spec, IInv
================================================================================
