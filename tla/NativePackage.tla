------------------------------ MODULE NativePackage -----------------------------
(***************************************************************************)
(* From a prepared build to a release: prepare-native-pglite-link.sh (only *)
(* what it leaves; NativeBuild has the rest), the plugin's final link,     *)
(* package-native-plugin-release.sh with the package doctor, and the       *)
(* preflight that runs them in a row and tests what comes out.  Each       *)
(* script also runs alone, and may fail or be killed anywhere.  Which      *)
(* plugin, PostgreSQL prefix, link manifest and test results meet in a     *)
(* package, and which symbols they define, need and list?                  *)
(*                                                                         *)
(* One script runs at a time, with one output directory and one release    *)
(* version.  External: the compilers, linkers, cargo, tar, and the tests.  *)
(***************************************************************************)
EXTENDS Naturals, Sequences

CONSTANTS System,      \* "Darwin" or "Linux"
          Backend,     \* backend symbols that extension modules may refer to
          None,        \* not there
          Torn,        \* a file that is half written
          MaxBuilds,   \* bound: different PostgreSQL builds
          MaxPackages, \* bound: packages written
          MaxStops     \* bound: runs that fail or are killed

ASSUME NativePackageAssumption ==
  /\ System \in {"Darwin", "Linux"} /\ None # Torn
  /\ MaxBuilds \in Nat /\ MaxPackages \in Nat /\ MaxStops \in Nat

VARIABLES
  live,     \* what prepare and link have left in the target directory
  evidence, \* the conformance results somebody kept
  run,      \* how far which script has come, and its package
  out,      \* the output directory
  left      \* builds, packages and stops that may still happen

vars == <<live, evidence, run, out, left>>

OrNone(S) == S \cup {None}

\* The plugin's C functions as the scripts list them, and as the host looks them up.
ListedAbi == {"abi_version", "buffer_free", "create", "destroy", "exec_protocol_raw", "shutdown"}
HostAbi == ListedAbi \cup {"take_backend_output"}

\* A build: the backend symbols its extension modules need and its archives define.
Builds == [no : 1..MaxBuilds, needs : SUBSET Backend, defined : SUBSET Backend]
Manifests == [no : 1..MaxBuilds, exports : SUBSET Backend]
Plugins == [no : 1..MaxBuilds, exports : SUBSET (HostAbi \cup Backend), manifest : Manifests]
Results == [plugin : Plugins, prefix : Builds]
Packages == [plugin : Plugins, prefix : Builds, manifest : Manifests, results : Results]

ASSUME NoneAssumption ==
  /\ None \notin Builds /\ None \notin Manifests /\ None \notin Plugins
  /\ None \notin Results /\ None \notin Packages /\ {None, Torn} \cap Nat = {}

\* "source" stands for the four assets written after the binary one.
Assets == <<"binary", "source">>
AssetNames == {Assets[i] : i \in DOMAIN Assets}
NoOut == [files |-> [a \in AssetNames |-> None], package |-> None, sums |-> <<>>,
          status |-> "open"]
NoRun == [at |-> "idle", preflight |-> FALSE, results |-> None, stage |-> None,
          no |-> 0, asset |-> 0]

Init ==
  /\ live = [archives |-> None, prefix |-> None, manifest |-> None, plugin |-> None]
  /\ evidence = {}
  /\ run = NoRun
  /\ out = NoOut
  /\ left = [builds |-> MaxBuilds, packages |-> MaxPackages, stops |-> MaxStops]

At(p) == run.at = p
Go(p) == run' = [run EXCEPT !.at = p]
EndRun == run' = NoRun
\* The preflight goes on to p; a script that runs alone is done.
Then(p) == run' = IF run.preflight THEN [run EXCEPT !.at = p] ELSE NoRun

StartPreflight ==
  /\ At("idle")
  /\ run' = [NoRun EXCEPT !.at = "archives", !.preflight = TRUE]
  /\ UNCHANGED <<live, evidence, out, left>>

StartAlone ==
  /\ At("idle")
  /\ \/ \E p \in {"archives", "link"} : run' = [NoRun EXCEPT !.at = p]
     \/ \E r \in evidence : run' = [NoRun EXCEPT !.at = "assemble", !.results = r]
  /\ UNCHANGED <<live, evidence, out, left>>

\* A script fails in an external step, or is killed.
Stop ==
  /\ ~At("idle") /\ left.stops > 0
  /\ left' = [left EXCEPT !.stops = @ - 1]
  /\ EndRun
  /\ UNCHANGED <<live, evidence, out>>

-------------------------------------------------------------------------------
(***************************************************************************)
(* prepare-native-pglite-link.sh: the archives first, then the prefix with *)
(* its extension modules, and the manifest last, emptied and written.      *)
(***************************************************************************)
KeepArchives ==
  /\ At("archives") /\ live.archives # None
  /\ Go("install")
  /\ UNCHANGED <<live, evidence, out, left>>

BuildArchives ==
  /\ At("archives") /\ left.builds > 0
  /\ \E b \in Builds : /\ b.no = MaxBuilds - left.builds + 1
                       /\ live' = [live EXCEPT !.archives = b]
  /\ left' = [left EXCEPT !.builds = @ - 1]
  /\ Go("install")
  /\ UNCHANGED <<evidence, out>>

InstallPrefix ==
  /\ At("install")
  /\ live' = [live EXCEPT !.prefix = live.archives]
  /\ Go("manifest")
  /\ UNCHANGED <<evidence, out, left>>

EmptyManifest ==
  /\ At("manifest")
  /\ live' = [live EXCEPT !.manifest = None]
  /\ Go("symbols")
  /\ UNCHANGED <<evidence, out, left>>

\* The symbols some module needs and the archives define.
RequiredSymbols == live.prefix.needs \cap live.archives.defined

WriteManifest ==
  /\ At("symbols")
  /\ live' = [live EXCEPT !.manifest = [no |-> live.archives.no, exports |-> RequiredSymbols]]
  /\ Then("link")
  /\ UNCHANGED <<evidence, out, left>>

-------------------------------------------------------------------------------
(***************************************************************************)
(* The final link.  On Linux the version script hides what it does not     *)
(* list; on macOS the crate's C functions are exported with the manifest's *)
(* symbols, and cargo links again when the manifest has changed.           *)
(***************************************************************************)
LinkInputs ==
  /\ live.manifest # None /\ live.archives # None
  /\ live.manifest.exports \subseteq live.archives.defined
  /\ System = "Linux" => live.manifest.exports # {}

LinkedAbi == IF System = "Linux" THEN ListedAbi ELSE HostAbi

\* Mutant: without rerun-if-changed, any plugin will do.
AnyPlugin == System = "Darwin" /\ live.plugin # None
StillLinked == System = "Darwin" /\ live.plugin # None /\ live.plugin.manifest = live.manifest

LinkRefused ==
  /\ At("link") /\ ~LinkInputs
  /\ EndRun
  /\ UNCHANGED <<live, evidence, out, left>>

LinkKept ==
  /\ At("link") /\ LinkInputs /\ StillLinked
  /\ Then("boundary")
  /\ UNCHANGED <<live, evidence, out, left>>

Link ==
  /\ At("link") /\ LinkInputs /\ ~StillLinked
  /\ live' = [live EXCEPT !.plugin = [no |-> live.archives.no,
                                      exports |-> LinkedAbi \cup live.manifest.exports,
                                      manifest |-> live.manifest]]
  /\ Then("boundary")
  /\ UNCHANGED <<evidence, out, left>>

\* The preflight's own look at the symbols, with any libpglite_plugin_ name allowed.
Boundary ==
  /\ At("boundary")
  /\ IF live.plugin.exports \ HostAbi \subseteq live.manifest.exports
       THEN Go("conformance") ELSE EndRun
  /\ UNCHANGED <<live, evidence, out, left>>

\* External: the host's tests with the plugin, which fail at least when it cannot
\* be loaded.
HostLoads(p) == HostAbi \subseteq p.exports

Conformance ==
  /\ At("conformance")
  /\ \/ /\ HostLoads(live.plugin)
        /\ run' = [run EXCEPT !.at = "clear",
                              !.results = [plugin |-> live.plugin, prefix |-> live.prefix]]
        /\ evidence' = evidence \cup {run'.results}
     \/ /\ EndRun
        /\ UNCHANGED evidence
  /\ UNCHANGED <<live, out, left>>

\* rm -rf of the output directory, by the preflight only: all of it, or some first.
ClearOut ==
  /\ At("clear")
  /\ \/ /\ \E f \in [AssetNames -> {None, Torn} \cup 1..MaxPackages] :
             /\ \A a \in AssetNames : f[a] \in {out.files[a], None}
             /\ out' = [out EXCEPT !.files = f, !.status = "open",
                                   !.package = IF f["binary"] = None THEN None ELSE @]
        /\ out' # out
        /\ UNCHANGED run
     \/ /\ out' = NoOut
        /\ Go("assemble")
  /\ UNCHANGED <<live, evidence, left>>

-------------------------------------------------------------------------------
(***************************************************************************)
(* package-native-plugin-release.sh: its own look at the symbols, the      *)
(* staged package, the doctor, and then the assets, written in place under *)
(* the release's names, and their checksums.                               *)
(***************************************************************************)
ExportsAccepted(p, m) ==
  /\ ListedAbi \subseteq p.exports
  /\ System = "Linux" => p.exports \subseteq ListedAbi \cup m.exports

Assembled == /\ live.plugin # None /\ live.prefix # None /\ live.manifest # None
             /\ ExportsAccepted(live.plugin, live.manifest)

AssembleRefused ==
  /\ At("assemble") /\ ~Assembled
  /\ EndRun
  /\ UNCHANGED <<live, evidence, out, left>>

Assemble ==
  /\ At("assemble") /\ Assembled /\ left.packages > 0
  /\ left' = [left EXCEPT !.packages = @ - 1]
  /\ run' = [run EXCEPT !.at = "doctor", !.no = MaxPackages - left.packages + 1,
                        !.stage = [plugin |-> live.plugin, prefix |-> live.prefix,
                                   manifest |-> live.manifest, results |-> run.results]]
  /\ UNCHANGED <<live, evidence, out>>

\* doctor-native-plugin-package.py on the symbols of the plugin, of the manifest,
\* and of the modules, as far as the plugin exports them.
DoctorAccepts(p) ==
  /\ ExportsAccepted(p.plugin, p.manifest)
  /\ p.manifest.exports # {}
  /\ p.manifest.exports \subseteq p.plugin.exports
  /\ p.prefix.needs \cap p.plugin.exports \subseteq p.manifest.exports

Doctor ==
  /\ At("doctor")
  /\ run' = IF DoctorAccepts(run.stage) THEN [run EXCEPT !.at = "open", !.asset = 1] ELSE NoRun
  /\ UNCHANGED <<live, evidence, out, left>>

Asset == Assets[run.asset]
\* Mutant: one more than there are.
NextAssetTooFar(p, done) ==
  IF run.asset <= Len(Assets) THEN [run EXCEPT !.at = p, !.asset = @ + 1]
  ELSE [run EXCEPT !.at = done, !.asset = 1]
NextAsset(p, done) ==
  IF run.asset < Len(Assets) THEN [run EXCEPT !.at = p, !.asset = @ + 1]
  ELSE [run EXCEPT !.at = done, !.asset = 1]

\* Mutant: an asset that is there is not written again.
OpenMissing ==
  /\ At("open")
  /\ IF out.files[Asset] = None
       THEN Go("fill") /\ out' = [out EXCEPT !.files[Asset] = Torn, !.status = "open"]
       ELSE run' = NextAsset("open", "truncate") /\ UNCHANGED out
  /\ UNCHANGED <<live, evidence, left>>
OpenAsset ==
  /\ At("open")
  /\ out' = [out EXCEPT !.files[Asset] = Torn, !.status = "open"]
  /\ Go("fill")
  /\ UNCHANGED <<live, evidence, left>>

FillAsset ==
  /\ At("fill")
  /\ out' = [out EXCEPT !.files[Asset] = run.no,
                        !.package = IF Asset = "binary" THEN run.stage ELSE @]
  /\ run' = NextAsset("open", "truncate")
  /\ UNCHANGED <<live, evidence, left>>

\* Mutant: the checksums are added to what is there.
KeptSums == out.sums
EmptiedSums == <<>>

TruncateSums ==
  /\ At("truncate")
  /\ out' = [out EXCEPT !.sums = EmptiedSums]
  /\ Go("sum")
  /\ UNCHANGED <<live, evidence, left>>

Sum ==
  /\ At("sum")
  /\ out' = [out EXCEPT !.sums = Append(@, [asset |-> Asset, of |-> out.files[Asset]])]
  /\ run' = NextAsset("sum", "written")
  /\ UNCHANGED <<live, evidence, left>>

PackageWritten ==
  /\ At("written")
  /\ out' = [out EXCEPT !.status = "written"]
  /\ Then("selftest")
  /\ UNCHANGED <<live, evidence, left>>

\* The preflight's last step: the doctor again, and tests from the extracted archive.
SelfTest ==
  /\ At("selftest")
  /\ \/ /\ DoctorAccepts(out.package) /\ HostLoads(out.package.plugin)
        /\ out' = [out EXCEPT !.status = "passed"]
     \/ UNCHANGED out
  /\ EndRun
  /\ UNCHANGED <<live, evidence, left>>

Next ==
  \/ StartPreflight \/ StartAlone \/ Stop
  \/ KeepArchives \/ BuildArchives \/ InstallPrefix \/ EmptyManifest \/ WriteManifest
  \/ LinkRefused \/ LinkKept \/ Link \/ Boundary \/ Conformance \/ ClearOut
  \/ AssembleRefused \/ Assemble \/ Doctor \/ OpenAsset \/ FillAsset \/ TruncateSums
  \/ Sum \/ PackageWritten \/ SelfTest

Spec == Init /\ [][Next]_vars

-------------------------------------------------------------------------------
TypeOK ==
  /\ live \in [archives : OrNone(Builds), prefix : OrNone(Builds),
               manifest : OrNone(Manifests), plugin : OrNone(Plugins)]
  /\ evidence \subseteq Results
  /\ run.results \in OrNone(Results) /\ run.stage \in OrNone(Packages)
  /\ run.no \in 0..MaxPackages /\ run.asset \in 0..Len(Assets)
  /\ out.files \in [AssetNames -> {None, Torn} \cup 1..MaxPackages]
  /\ out.package \in OrNone(Packages)
  /\ out.status \in {"open", "written", "passed"}

(***************************************************************************)
(* What a preflight has passed is of one piece: plugin, prefix and link    *)
(* manifest come from one build, the packaged test results are about them, *)
(* and no symbol the plugin could give to its modules is hidden, whatever  *)
(* earlier runs left in the target and output directories                  *)
(* (preflight-native-plugin-release.sh:224-293, plugin/build.rs:66,        *)
(* doctor-native-plugin-package.py:363-419).                               *)
(***************************************************************************)
PreflightShipsOneBuild ==
  out.status = "passed" =>
    LET p == out.package IN
      /\ p.plugin.no = p.prefix.no /\ p.manifest.no = p.prefix.no
      /\ p.results = [plugin |-> p.plugin, prefix |-> p.prefix]
      /\ p.prefix.needs \cap p.prefix.defined \subseteq p.plugin.exports

\* The first checksum with the asset's name is that of the file.
Verifies(a) ==
  \E i \in DOMAIN out.sums :
    /\ out.sums[i] = [asset |-> a, of |-> out.files[a]]
    /\ \A j \in 1 .. i - 1 : out.sums[j].asset # a

(***************************************************************************)
(* After a package run that came to its end, each asset is whole and of    *)
(* that run, and the host, which takes the first line with the asset's     *)
(* name (release.rs:283-296), finds its checksum, whatever killed runs     *)
(* left under the same names (package-native-plugin-release.sh:605-653).   *)
(***************************************************************************)
WrittenPackageVerifies ==
  out.status # "open" =>
    /\ \A a, b \in AssetNames : out.files[a] = out.files[b]
    /\ \A a \in AssetNames : Verifies(a)

\* What the directory offers at any moment, and what is still to come.
Made == MaxPackages - left.packages
Pending ==
  IF At("sum") THEN {Assets[i] : i \in run.asset .. Len(Assets)}
  ELSE IF run.at \in {"doctor", "open", "fill", "truncate"} THEN AssetNames
  ELSE {}
Offered ==
  [a \in AssetNames |->
     IF out.files[a] \in 1..MaxPackages /\ Verifies(a) THEN out.files[a] ELSE None]

Release == INSTANCE AtomicRelease
           WITH Names <- AssetNames, made <- Made, pending <- Pending, offered <- Offered

(***************************************************************************)
(* Not only at the end of a run but between any two writes, and after any  *)
(* that was the last: what the directory offers under checksums is of one  *)
(* package, the assets of a package come up once, in place of nothing, and *)
(* no older package comes back, though all are written in place under the  *)
(* same names (package-native-plugin-release.sh:605-653, and the           *)
(* preflight's rm -rf, preflight-native-plugin-release.sh:373-374).        *)
(***************************************************************************)
ImplementsAtomicRelease == Release!Spec

(***************************************************************************)
(* The plugin that the final link makes has every function the host needs. *)
(* On Linux TLC refutes it: neither version script lists the host's        *)
(* seventh function, which the host requires (dynamic.rs:221-223).         *)
(***************************************************************************)
LinkedPluginsLoad == live.plugin # None => HostLoads(live.plugin)

(***************************************************************************)
(* Not among the runs: TLC refutes it.  The doctor looks for module        *)
(* symbols that the plugin exports without listing them, and never for     *)
(* those it does not export at all: after a prepare that was killed before *)
(* its manifest, new modules are packaged with an old plugin               *)
(* (doctor-native-plugin-package.py:400-419).                              *)
(***************************************************************************)
PackagedModulesResolve ==
  out.package # None =>
    LET p == out.package IN p.prefix.needs \cap p.prefix.defined \subseteq p.plugin.exports

(***************************************************************************)
(* Not among the runs: TLC refutes it.  The results in                     *)
(* LIBPGLITE_CONFORMANCE_DIR may be of any earlier plugin.                 *)
(***************************************************************************)
ResultsAreOfThePlugin ==
  out.package # None => out.package.results.plugin = out.package.plugin
===============================================================================
