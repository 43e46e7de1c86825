-------------------------- MODULE NativePackageProofs --------------------------
(***************************************************************************)
(* Proofs about NativePackage, for both systems, any set of symbols and    *)
(* any number of builds, packages and stops.  What a preflight passes is   *)
(* what its own scripts have made or found to be of the same build: the    *)
(* builds are numbered, and a plugin that cargo keeps is of a manifest     *)
(* that no older build can have.                                           *)
(***************************************************************************)
EXTENDS NativePackage, SequenceTheorems, TLAPS

Points == {"idle", "archives", "install", "manifest", "symbols", "link", "boundary",
           "conformance", "clear", "assemble", "doctor", "open", "fill", "truncate", "sum",
           "written", "selftest"}
Packaging == {"doctor", "open", "fill", "truncate", "sum", "written", "selftest"}

Lines == [asset : AssetNames, of : {None, Torn} \cup 1..MaxPackages]

LiveTypes ==
  live \in [archives : OrNone(Builds), prefix : OrNone(Builds),
            manifest : OrNone(Manifests), plugin : OrNone(Plugins)]
RunTypes ==
  run \in [at : Points, preflight : BOOLEAN, results : OrNone(Results),
           stage : OrNone(Packages), no : 0..MaxPackages, asset : 0..2]
OutTypes ==
  out \in [files : [AssetNames -> {None, Torn} \cup 1..MaxPackages],
           package : OrNone(Packages), sums : Seq(Lines),
           status : {"open", "written", "passed"}]
LeftTypes ==
  left \in [builds : 0..MaxBuilds, packages : 0..MaxPackages, stops : 0..MaxStops]

Types == LiveTypes /\ evidence \subseteq Results /\ RunTypes /\ OutTypes /\ LeftTypes

\* Builds are numbered in the order in which they are made; a plugin is linked from
\* archives that are at least as new as its manifest, and exports what that lists.
BuildsAreNumbered ==
  /\ live.archives # None => live.archives.no <= MaxBuilds - left.builds
  /\ live.manifest # None =>
       live.archives # None /\ live.manifest.no <= live.archives.no
  /\ live.plugin # None =>
       /\ live.archives # None
       /\ live.plugin.manifest.no <= live.plugin.no
       /\ live.plugin.no <= live.archives.no
       /\ live.plugin.exports = LinkedAbi \cup live.plugin.manifest.exports

\* What prepare has made when it ends.
Prepared ==
  /\ live.archives \in Builds /\ live.prefix = live.archives
  /\ live.manifest = [no |-> live.archives.no,
                      exports |-> live.archives.needs \cap live.archives.defined]

\* And the link after it.
Linked ==
  /\ Prepared /\ live.plugin \in Plugins
  /\ live.plugin.no = live.archives.no /\ live.plugin.manifest = live.manifest
  /\ live.plugin.exports = LinkedAbi \cup live.manifest.exports

Tested == [plugin |-> live.plugin, prefix |-> live.prefix]
Staged == [plugin |-> live.plugin, prefix |-> live.prefix, manifest |-> live.manifest,
           results |-> run.results]

\* Each script finds what the one before it leaves.
ScriptsInOrder ==
  /\ run.at \in {"install", "manifest", "symbols"} => live.archives \in Builds
  /\ run.at \in {"manifest", "symbols"} => live.prefix = live.archives
  /\ run.at \in {"boundary", "conformance", "clear", "selftest"} => run.preflight
  /\ run.at \in {"clear", "assemble"} => run.results \in Results
  /\ run.at \in Packaging => run.stage \in Packages

\* In a preflight nothing but its own steps lies between two of them.
PreflightInOrder ==
  run.preflight =>
    /\ run.at = "link" => Prepared
    /\ run.at \in {"boundary", "conformance", "clear", "assemble"} \cup Packaging => Linked
    /\ run.at \in {"clear", "assemble"} \cup Packaging => run.results = Tested
    /\ run.at \in Packaging => run.stage = Staged

\* How far the package has been written.
BinaryWritten ==
  \/ run.at \in {"open", "fill"} /\ run.asset = 2
  \/ run.at \in {"truncate", "sum", "written", "selftest"}
AllWritten(n) == out.files["binary"] = n /\ out.files["source"] = n
Line(a, n) == [asset |-> a, of |-> n]
TwoLines(n) == out.sums = <<Line("binary", n), Line("source", n)>>

AssetsInOrder ==
  /\ run.at \in Packaging => run.no \in 1..MaxPackages
  /\ run.at \in Packaging \ {"doctor"} => run.asset \in 1..2
  /\ run.at \in {"fill", "truncate", "sum", "written"} => out.status = "open"
  /\ run.at = "selftest" => out.status # "open"
  /\ BinaryWritten => out.package = run.stage /\ out.files["binary"] = run.no
  /\ run.at \in {"truncate", "sum", "written"} => AllWritten(run.no)
  /\ run.at = "truncate" => run.asset = 1
  /\ run.at = "sum" => out.sums = IF run.asset = 1 THEN <<>> ELSE <<Line("binary", run.no)>>
  /\ run.at = "written" => TwoLines(run.no)
  /\ out.status # "open" => \E n \in 1..MaxPackages : AllWritten(n) /\ TwoLines(n)

\* Checksums are of packages before the n-th, or of no package.
Older(n) == \A i \in DOMAIN out.sums : out.sums[i].of \in 1..MaxPackages => out.sums[i].of < n

\* Packages are numbered too; until a package run empties the checksum file, what is
\* in it is of earlier packages.
Unsummed == {"doctor", "open", "fill", "truncate"}
SumsInOrder ==
  /\ run.at \in Packaging => run.no = Made
  /\ Older(Made + 1)
  /\ run.at \in Unsummed => Older(Made)

IInv == /\ Types /\ BuildsAreNumbered /\ ScriptsInOrder /\ PreflightInOrder
        /\ AssetsInOrder /\ PreflightShipsOneBuild /\ SumsInOrder

-------------------------------------------------------------------------------
(* Builds and what is linked of them                                       *)

OtherActions ==
  \/ StartPreflight \/ StartAlone \/ KeepArchives \/ LinkRefused \/ LinkKept \/ Boundary
  \/ Conformance \/ ClearOut \/ AssembleRefused \/ Doctor \/ OpenAsset \/ FillAsset
  \/ TruncateSums \/ Sum \/ PackageWritten \/ SelfTest

\* Most actions touch neither what is built nor what is left to do.
LEMMA OthersBuildNothing == OtherActions => UNCHANGED <<live, left>>
  BY DEF OtherActions, StartPreflight, StartAlone, KeepArchives, LinkRefused, LinkKept,
         Boundary, Conformance, ClearOut, AssembleRefused, Doctor, OpenAsset, FillAsset,
         TruncateSums, Sum, PackageWritten, SelfTest

\* Every step keeps the types of what is built, and the numbering.
LEMMA LiveStep ==
  ASSUME LiveTypes, LeftTypes, BuildsAreNumbered, ScriptsInOrder, [Next]_vars
  PROVE  LiveTypes' /\ LeftTypes' /\ BuildsAreNumbered'
  <1> USE NativePackageAssumption
      DEF LiveTypes, LeftTypes, BuildsAreNumbered, OrNone, Builds, Manifests, Plugins
  <1>1. CASE UNCHANGED <<live, left>>
    BY <1>1
  <1>2. CASE Stop
    BY <1>2 DEF Stop
  <1>3. CASE BuildArchives
    <2>1. PICK b \in Builds : b.no = MaxBuilds - left.builds + 1
                              /\ live' = [live EXCEPT !.archives = b]
      BY <1>3 DEF BuildArchives
    <2>2. left.builds > 0 /\ left' = [left EXCEPT !.builds = @ - 1]
      BY <1>3 DEF BuildArchives
    <2>3. LeftTypes' /\ left'.builds = left.builds - 1
      BY <2>2
    <2>4. LiveTypes' /\ live'.archives = b /\ live'.manifest = live.manifest
          /\ live'.plugin = live.plugin
      BY <2>1
    <2>5. b.no <= MaxBuilds - left'.builds
      BY <2>1, <2>3
    <2>6. live.archives # None => live.archives.no < b.no
      BY <2>1
    <2>7. live.plugin # None => live.plugin.no \in Nat /\ live.plugin.manifest.no \in Nat
      OBVIOUS
    <2>8. live.manifest # None => live.manifest.no \in Nat
      OBVIOUS
    <2>9. QED BY <2>3, <2>4, <2>5, <2>6, <2>7, <2>8, NoneAssumption
  <1>4. CASE InstallPrefix
    <2>1. live' = [live EXCEPT !.prefix = live.archives] /\ left' = left
      BY <1>4 DEF InstallPrefix
    <2>2. QED BY <2>1
  <1>5. CASE EmptyManifest
    <2>1. live' = [live EXCEPT !.manifest = None] /\ left' = left
      BY <1>5 DEF EmptyManifest
    <2>2. QED BY <2>1
  <1>6. CASE WriteManifest
    <2> DEFINE m == [no |-> live.archives.no, exports |-> RequiredSymbols]
    <2>1. live' = [live EXCEPT !.manifest = m] /\ left' = left /\ run.at = "symbols"
      BY <1>6 DEF WriteManifest, At
    <2>2. live.archives \in Builds /\ live.prefix = live.archives
      BY <2>1 DEF ScriptsInOrder
    <2>3. m \in Manifests /\ m.no = live.archives.no
      BY <2>2 DEF RequiredSymbols
    <2> HIDE DEF m
    <2>4. QED BY <2>1, <2>2, <2>3, NoneAssumption
  <1>7. CASE Link
    <2> DEFINE q == [no |-> live.archives.no, exports |-> LinkedAbi \cup live.manifest.exports,
                     manifest |-> live.manifest]
    <2>1. live' = [live EXCEPT !.plugin = q] /\ left' = left
      BY <1>7 DEF Link
    <2>2. live.manifest \in Manifests /\ live.archives \in Builds
      BY <1>7 DEF Link, LinkInputs
    <2>3. LinkedAbi \subseteq HostAbi
      BY DEF LinkedAbi, HostAbi
    <2>4. q \in Plugins /\ q.no = live.archives.no /\ q.manifest = live.manifest
          /\ q.exports = LinkedAbi \cup live.manifest.exports
      BY <2>2, <2>3
    <2> HIDE DEF q
    <2>5. QED BY <2>1, <2>2, <2>4, NoneAssumption
  <1>8. CASE Assemble
    BY <1>8 DEF Assemble
  <1>9. CASE OtherActions
    BY <1>1, <1>9, OthersBuildNothing
  <1>10. CASE UNCHANGED vars
    BY <1>10 DEF vars
  <1>11. QED
    BY <1>2, <1>3, <1>4, <1>5, <1>6, <1>7, <1>8, <1>9, <1>10 DEF Next, OtherActions

-------------------------------------------------------------------------------
(* The order of the scripts                                                *)

\* The run that is none has the type of a run.
LEMMA NoRunIsTyped ==
  NoRun \in [at : Points, preflight : BOOLEAN, results : OrNone(Results),
             stage : OrNone(Packages), no : 0..MaxPackages, asset : 0..2]
  BY NativePackageAssumption DEF NoRun, Points, OrNone

\* Where a step leaves the run: it goes on to one of the next points, or ends.
LEMMA Moves ==
  ASSUME RunTypes, NEW p \in Points
  PROVE  /\ Go(p) => RunTypes' /\ run'.at = p /\ run'.preflight = run.preflight
                     /\ run'.results = run.results /\ run'.stage = run.stage
                     /\ run'.no = run.no /\ run'.asset = run.asset
         /\ Then(p) => RunTypes' /\ (IF run.preflight THEN Go(p) ELSE EndRun)
         /\ EndRun => RunTypes' /\ run'.at = "idle" /\ ~run'.preflight
         /\ \A q \in Points : run' = NextAsset(p, q) =>
              /\ RunTypes' /\ run'.preflight = run.preflight /\ run'.no = run.no
              /\ run'.results = run.results /\ run'.stage = run.stage
              /\ \/ run.asset < 2 /\ run'.at = p /\ run'.asset = run.asset + 1
                 \/ run.asset >= 2 /\ run'.at = q /\ run'.asset = 1
  <1> USE DEF RunTypes
  <1>1. Len(Assets) = 2
    BY DEF Assets
  <1>3. EndRun => RunTypes' /\ run'.at = "idle" /\ ~run'.preflight
    BY NoRunIsTyped DEF EndRun, NoRun
  <1>4. Go(p) => RunTypes' /\ run'.at = p /\ run'.preflight = run.preflight
                 /\ run'.results = run.results /\ run'.stage = run.stage
                 /\ run'.no = run.no /\ run'.asset = run.asset
    BY DEF Go
  <1>5. Then(p) => RunTypes' /\ (IF run.preflight THEN Go(p) ELSE EndRun)
    <2>1. CASE run.preflight
      BY <1>4, <2>1 DEF Then, Go
    <2>2. CASE ~run.preflight
      BY <1>3, <2>2 DEF Then, EndRun
    <2>3. QED BY <2>1, <2>2
  <1>6. ASSUME NEW q \in Points, run' = NextAsset(p, q)
        PROVE  /\ RunTypes' /\ run'.preflight = run.preflight /\ run'.no = run.no
               /\ run'.results = run.results /\ run'.stage = run.stage
               /\ \/ run.asset < 2 /\ run'.at = p /\ run'.asset = run.asset + 1
                  \/ run.asset >= 2 /\ run'.at = q /\ run'.asset = 1
    <2>1. CASE run.asset < 2
      <3>1. run' = [run EXCEPT !.at = p, !.asset = run.asset + 1]
        BY <1>1, <1>6, <2>1 DEF NextAsset
      <3>2. run.asset + 1 \in 0..2
        BY <2>1
      <3>3. QED BY <2>1, <3>1, <3>2
    <2>2. CASE run.asset >= 2
      <3>1. run' = [run EXCEPT !.at = q, !.asset = 1]
        BY <1>1, <1>6, <2>2 DEF NextAsset
      <3>2. 1 \in 0..2
        OBVIOUS
      <3>3. QED BY <2>2, <3>1, <3>2
    <2>3. QED BY <2>1, <2>2
  <1>7. QED BY <1>3, <1>4, <1>5, <1>6

\* Every step keeps the scripts in order, and the test results what they are.
LEMMA RunStep ==
  ASSUME Types, ScriptsInOrder, PreflightInOrder, [Next]_vars
  PROVE  RunTypes' /\ ScriptsInOrder' /\ evidence' \subseteq Results
  <1> USE DEF ScriptsInOrder, Packaging, At
  <1>0. RunTypes /\ LiveTypes /\ evidence \subseteq Results
    BY DEF Types
  <1>1. ASSUME EndRun, UNCHANGED evidence
        PROVE  RunTypes' /\ ScriptsInOrder' /\ evidence' \subseteq Results
    BY <1>0, <1>1, Moves DEF Points
  <1>2. CASE StartPreflight
    <2>1. run' = [NoRun EXCEPT !.at = "archives", !.preflight = TRUE] /\ UNCHANGED evidence
      BY <1>2 DEF StartPreflight
    <2>2. run'.at = "archives" /\ RunTypes'
      BY <2>1, NoRunIsTyped DEF RunTypes, Points, OrNone
    <2>3. QED BY <1>0, <2>1, <2>2
  <1>3. CASE StartAlone
    <2>1. CASE \E p \in {"archives", "link"} : run' = [NoRun EXCEPT !.at = p]
      <3>1. run'.at \in {"archives", "link"} /\ RunTypes'
        BY <2>1, NoRunIsTyped DEF RunTypes, Points, OrNone
      <3>2. QED BY <1>0, <1>3, <3>1 DEF StartAlone
    <2>2. CASE \E r \in evidence : run' = [NoRun EXCEPT !.at = "assemble", !.results = r]
      <3>1. PICK r \in evidence : run' = [NoRun EXCEPT !.at = "assemble", !.results = r]
        BY <2>2
      <3>2. run'.at = "assemble" /\ run'.results \in Results /\ RunTypes'
        BY <1>0, <3>1, NoRunIsTyped DEF RunTypes, Points, OrNone
      <3>3. QED BY <1>0, <1>3, <3>2 DEF StartAlone
    <2>3. QED BY <1>3, <2>1, <2>2 DEF StartAlone
  <1>4. CASE Stop
    BY <1>1, <1>4 DEF Stop
  <1>5. CASE KeepArchives
    <2>1. live.archives # None /\ Go("install") /\ UNCHANGED <<live, evidence>>
      BY <1>5 DEF KeepArchives
    <2>2. live.archives \in Builds
      BY <1>0, <2>1 DEF LiveTypes, OrNone
    <2>3. QED BY <1>0, <2>1, <2>2, Moves DEF Points
  <1>6. CASE BuildArchives
    <2>1. live'.archives \in Builds /\ Go("install") /\ UNCHANGED evidence
      BY <1>0, <1>6 DEF BuildArchives, LiveTypes
    <2>2. QED BY <1>0, <2>1, Moves DEF Points
  <1>7. CASE InstallPrefix
    <2>1. /\ live'.archives = live.archives /\ live'.prefix = live.archives
          /\ run.at = "install" /\ Go("manifest") /\ UNCHANGED evidence
      BY <1>0, <1>7 DEF InstallPrefix, LiveTypes
    <2>2. QED BY <1>0, <2>1, Moves DEF Points
  <1>8. CASE EmptyManifest
    <2>1. /\ live'.archives = live.archives /\ live'.prefix = live.prefix
          /\ run.at = "manifest" /\ Go("symbols") /\ UNCHANGED evidence
      BY <1>0, <1>8 DEF EmptyManifest, LiveTypes
    <2>2. QED BY <1>0, <2>1, Moves DEF Points
  <1>9. CASE WriteManifest
    <2>1. Then("link") /\ UNCHANGED evidence
      BY <1>9 DEF WriteManifest
    <2>2. QED BY <1>0, <1>1, <2>1, Moves DEF Points
  <1>10. CASE LinkRefused \/ AssembleRefused
    BY <1>1, <1>10 DEF LinkRefused, AssembleRefused
  <1>11. CASE LinkKept \/ Link
    <2>1. Then("boundary") /\ UNCHANGED evidence
      BY <1>11 DEF LinkKept, Link
    <2>2. QED BY <1>0, <1>1, <2>1, Moves DEF Points
  <1>12. CASE Boundary
    <2>1. run.preflight /\ UNCHANGED evidence /\ (Go("conformance") \/ EndRun)
      BY <1>12 DEF Boundary
    <2>2. QED BY <1>0, <1>1, <2>1, Moves DEF Points
  <1>13. CASE Conformance
    <2>1. run.preflight
      BY <1>13 DEF Conformance
    <2>2. CASE EndRun /\ UNCHANGED evidence
      BY <1>1, <2>2
    <2>3. CASE /\ run' = [run EXCEPT !.at = "clear", !.results = Tested]
               /\ evidence' = evidence \cup {run'.results} /\ HostLoads(live.plugin)
      <3>1. Tested \in Results
        <4>1. live.plugin \in Plugins /\ live.prefix \in Builds
          BY <1>13, <2>1 DEF Conformance, PreflightInOrder, Linked, Prepared
        <4>2. QED BY <4>1 DEF Tested, Results
      <3>2. run'.at = "clear" /\ run'.results = Tested /\ run'.preflight /\ RunTypes'
        BY <1>0, <2>1, <2>3, <3>1 DEF RunTypes, Points, OrNone
      <3>3. QED BY <1>0, <2>3, <3>1, <3>2
    <2>4. QED BY <1>13, <2>2, <2>3 DEF Conformance, Tested
  <1>14. CASE ClearOut
    <2>1. run.preflight /\ run.at = "clear" /\ UNCHANGED evidence
          /\ (UNCHANGED run \/ Go("assemble"))
      BY <1>14 DEF ClearOut
    <2>2. CASE UNCHANGED run
      BY <1>0, <2>1, <2>2 DEF RunTypes
    <2>3. CASE Go("assemble")
      BY <1>0, <2>1, <2>3, Moves DEF Points
    <2>4. QED BY <2>1, <2>2, <2>3
  <1>15. CASE Assemble
    <2>1. /\ run.at = "assemble" /\ left.packages > 0 /\ UNCHANGED evidence
          /\ run' = [run EXCEPT !.at = "doctor", !.no = MaxPackages - left.packages + 1,
                                !.stage = Staged]
      BY <1>15 DEF Assemble, Staged
    <2>2. live.plugin \in Plugins /\ live.prefix \in Builds /\ live.manifest \in Manifests
      BY <1>0, <1>15 DEF Assemble, Assembled, LiveTypes, OrNone
    <2>3. Staged \in Packages
      BY <2>1, <2>2 DEF Staged, Packages
    <2>4. left.packages \in 0..MaxPackages
      BY DEF Types, LeftTypes
    <2>5. MaxPackages - left.packages + 1 \in 0..MaxPackages
      BY <2>1, <2>4, NativePackageAssumption
    <2>6. run'.at = "doctor" /\ run'.stage \in Packages /\ RunTypes'
      BY <1>0, <2>1, <2>3, <2>5 DEF RunTypes, Points, OrNone
    <2>7. QED BY <1>0, <2>1, <2>6
  <1>16. CASE Doctor
    <2>1. run.at = "doctor" /\ UNCHANGED evidence
          /\ (run' = [run EXCEPT !.at = "open", !.asset = 1] \/ EndRun)
      BY <1>16 DEF Doctor, EndRun
    <2>2. CASE run' = [run EXCEPT !.at = "open", !.asset = 1]
      <3>1. run'.at = "open" /\ run'.stage = run.stage /\ RunTypes'
        <4>1. 1 \in 0..2
          OBVIOUS
        <4>2. QED BY <1>0, <2>2, <4>1 DEF RunTypes, Points
      <3>2. QED BY <1>0, <2>1, <3>1
    <2>3. QED BY <1>1, <2>1, <2>2
  <1>17. CASE OpenAsset
    <2>1. run.at = "open" /\ Go("fill") /\ UNCHANGED evidence
      BY <1>17 DEF OpenAsset
    <2>2. QED BY <1>0, <2>1, Moves DEF Points
  <1>18. CASE FillAsset
    <2>1. run.at = "fill" /\ run' = NextAsset("open", "truncate") /\ UNCHANGED evidence
      BY <1>18 DEF FillAsset
    <2>2. RunTypes' /\ run'.stage = run.stage /\ run'.at \in {"open", "truncate"}
      BY <1>0, <2>1, Moves DEF Points
    <2>3. QED BY <1>0, <2>1, <2>2
  <1>19. CASE TruncateSums
    <2>1. run.at = "truncate" /\ Go("sum") /\ UNCHANGED evidence
      BY <1>19 DEF TruncateSums
    <2>2. QED BY <1>0, <2>1, Moves DEF Points
  <1>20. CASE Sum
    <2>1. run.at = "sum" /\ run' = NextAsset("sum", "written") /\ UNCHANGED evidence
      BY <1>20 DEF Sum
    <2>2. RunTypes' /\ run'.stage = run.stage /\ run'.at \in {"sum", "written"}
      BY <1>0, <2>1, Moves DEF Points
    <2>3. QED BY <1>0, <2>1, <2>2
  <1>21. CASE PackageWritten
    <2>1. run.at = "written" /\ Then("selftest") /\ UNCHANGED evidence
      BY <1>21 DEF PackageWritten
    <2>2. CASE run.preflight /\ Go("selftest")
      BY <1>0, <2>1, <2>2, Moves DEF Points
    <2>3. CASE EndRun
      BY <1>1, <2>1, <2>3
    <2>4. QED BY <1>0, <2>1, <2>2, <2>3, Moves DEF Points
  <1>22. CASE SelfTest
    BY <1>1, <1>22 DEF SelfTest
  <1>23. CASE UNCHANGED vars
    BY <1>0, <1>23 DEF vars, RunTypes
  <1>24. QED
    BY <1>2, <1>3, <1>4, <1>5, <1>6, <1>7, <1>8, <1>9, <1>10, <1>11, <1>12, <1>13, <1>14,
       <1>15, <1>16, <1>17, <1>18, <1>19, <1>20, <1>21, <1>22, <1>23 DEF Next

-------------------------------------------------------------------------------
(* A preflight's steps belong together                                     *)

\* A plugin that cargo does not link again is of the archives that are there: its
\* manifest has their number, and no other build has that.
LEMMA KeptPluginIsLinked ==
  ASSUME LiveTypes, BuildsAreNumbered, Prepared, StillLinked
  PROVE  Linked
  <1>1. /\ live.plugin \in Plugins /\ live.plugin.manifest = live.manifest
        /\ live.archives \in Builds /\ live.manifest.no = live.archives.no
        /\ live.plugin.exports = LinkedAbi \cup live.manifest.exports
        /\ live.plugin.manifest.no <= live.plugin.no
        /\ live.plugin.no <= live.archives.no
    BY DEF LiveTypes, BuildsAreNumbered, Prepared, StillLinked, OrNone
  <1>2. live.plugin.no \in Nat /\ live.archives.no \in Nat
    BY <1>1, NativePackageAssumption DEF Plugins, Builds
  <1>3. live.plugin.no = live.archives.no
    BY <1>1, <1>2
  <1>4. QED BY <1>1, <1>3 DEF Linked, Prepared

\* Every step keeps the preflight's scripts together.
LEMMA PreflightStep ==
  ASSUME Types, BuildsAreNumbered, ScriptsInOrder, PreflightInOrder, [Next]_vars
  PROVE  PreflightInOrder'
  <1> USE DEF PreflightInOrder, Packaging, At
  <1>0. RunTypes /\ LiveTypes
    BY DEF Types
  <1>1. CASE EndRun
    BY <1>0, <1>1, Moves DEF Points
  <1>2. ASSUME UNCHANGED live, run'.preflight = run.preflight, run'.stage = run.stage,
               run'.results = run.results, run.at \in Packaging, run'.at \in Packaging
        PROVE  PreflightInOrder'
    BY <1>2 DEF Linked, Prepared, Tested, Staged
  <1>3. CASE StartPreflight
    <2>1. run'.at = "archives"
      BY <1>3 DEF StartPreflight, NoRun
    <2>2. QED BY <2>1
  <1>4. CASE StartAlone
    <2>1. run'.preflight = FALSE
      BY <1>4 DEF StartAlone, NoRun
    <2>2. QED BY <2>1
  <1>5. CASE Stop
    BY <1>1, <1>5 DEF Stop
  <1>6. CASE KeepArchives \/ BuildArchives \/ InstallPrefix \/ EmptyManifest
    <2>1. PICK p \in {"install", "manifest", "symbols"} : Go(p)
      BY <1>6 DEF KeepArchives, BuildArchives, InstallPrefix, EmptyManifest
    <2>2. run'.at = p
      BY <1>0, <2>1, Moves DEF Points
    <2>3. QED BY <2>1, <2>2
  <1>7. CASE WriteManifest
    <2>1. /\ Then("link") /\ run.at = "symbols"
          /\ live' = [live EXCEPT !.manifest = [no |-> live.archives.no,
                                                exports |-> RequiredSymbols]]
      BY <1>7 DEF WriteManifest
    <2>2. live.archives \in Builds /\ live.prefix = live.archives
      BY <2>1 DEF ScriptsInOrder
    <2>3. Prepared'
      BY <1>0, <2>1, <2>2 DEF Prepared, RequiredSymbols, LiveTypes
    <2>4. CASE run.preflight
      <3>1. Go("link")
        BY <1>0, <2>1, <2>4, Moves DEF Points
      <3>2. run'.at = "link"
        BY <1>0, <3>1, Moves DEF Points
      <3>3. QED BY <2>3, <3>2
    <2>5. CASE ~run.preflight
      BY <1>0, <1>1, <2>1, <2>5, Moves DEF Points
    <2>6. QED BY <2>4, <2>5
  <1>8. ASSUME Then("boundary"), run.at = "link", run.preflight => Linked'
        PROVE  PreflightInOrder'
    <2>1. CASE run.preflight
      <3>1. Go("boundary")
        BY <1>0, <1>8, <2>1, Moves DEF Points
      <3>2. run'.at = "boundary"
        BY <1>0, <3>1, Moves DEF Points
      <3>3. QED BY <1>8, <2>1, <3>2
    <2>2. CASE ~run.preflight
      BY <1>0, <1>1, <1>8, <2>2, Moves DEF Points
    <2>3. QED BY <2>1, <2>2
  <1>9. CASE LinkKept
    <2>1. Then("boundary") /\ run.at = "link" /\ StillLinked /\ UNCHANGED live
      BY <1>9 DEF LinkKept
    <2>2. ASSUME run.preflight PROVE Linked'
      <3>1. Linked
        BY <1>0, <2>1, <2>2, KeptPluginIsLinked
      <3>2. QED BY <2>1, <3>1 DEF Linked, Prepared
    <2>3. QED BY <1>8, <2>1, <2>2
  <1>10. CASE Link
    <2> DEFINE q == [no |-> live.archives.no, exports |-> LinkedAbi \cup live.manifest.exports,
                     manifest |-> live.manifest]
    <2>1. Then("boundary") /\ run.at = "link" /\ live' = [live EXCEPT !.plugin = q]
      BY <1>10 DEF Link
    <2>2. ASSUME run.preflight PROVE Linked'
      <3>1. Prepared
        BY <2>1, <2>2
      <3>2. LinkedAbi \subseteq HostAbi
        BY DEF LinkedAbi, HostAbi
      <3>3. live.manifest # None /\ live.archives # None
        BY <1>10 DEF Link, LinkInputs
      <3>4. q \in Plugins
        BY <1>0, <3>2, <3>3 DEF LiveTypes, OrNone, Plugins, Manifests, Builds
      <3>5. q.no = live.archives.no /\ q.manifest = live.manifest
            /\ q.exports = LinkedAbi \cup live.manifest.exports
        OBVIOUS
      <3> HIDE DEF q
      <3>6. /\ live'.plugin = q /\ live'.archives = live.archives
            /\ live'.prefix = live.prefix /\ live'.manifest = live.manifest
        BY <1>0, <2>1 DEF LiveTypes
      <3>7. QED BY <3>1, <3>4, <3>5, <3>6 DEF Linked, Prepared
    <2>3. QED BY <1>8, <2>1, <2>2
  <1>11. CASE LinkRefused \/ AssembleRefused
    BY <1>1, <1>11 DEF LinkRefused, AssembleRefused
  <1>12. CASE Boundary
    <2>1. run.at = "boundary" /\ UNCHANGED live /\ (Go("conformance") \/ EndRun)
      BY <1>12 DEF Boundary
    <2>2. CASE Go("conformance")
      <3>1. run'.at = "conformance" /\ run'.preflight = run.preflight
        BY <1>0, <2>2, Moves DEF Points
      <3>2. QED BY <2>1, <3>1 DEF Linked, Prepared
    <2>3. QED BY <1>1, <2>1, <2>2
  <1>13. CASE Conformance
    <2>1. CASE run' = [run EXCEPT !.at = "clear", !.results = Tested]
      <3>1. run'.at = "clear" /\ run'.results = Tested /\ run'.preflight = run.preflight
        BY <1>0, <2>1 DEF RunTypes
      <3>2. run.at = "conformance" /\ UNCHANGED live
        BY <1>13 DEF Conformance
      <3>3. QED BY <3>1, <3>2 DEF Linked, Prepared, Tested
    <2>2. QED BY <1>1, <1>13, <2>1 DEF Conformance, Tested
  <1>14. CASE ClearOut
    <2>1. run.at = "clear" /\ UNCHANGED live /\ (UNCHANGED run \/ Go("assemble"))
      BY <1>14 DEF ClearOut
    <2>2. run'.at \in {"clear", "assemble"} /\ run'.preflight = run.preflight
          /\ run'.results = run.results
      BY <1>0, <2>1, Moves DEF Points
    <2>3. QED BY <2>1, <2>2 DEF Linked, Prepared, Tested
  <1>15. CASE Assemble
    <2>1. /\ run.at = "assemble" /\ UNCHANGED live
          /\ run' = [run EXCEPT !.at = "doctor", !.no = MaxPackages - left.packages + 1,
                                !.stage = Staged]
      BY <1>15 DEF Assemble, Staged
    <2>2. run'.at = "doctor" /\ run'.stage = Staged /\ run'.results = run.results
          /\ run'.preflight = run.preflight
      BY <1>0, <2>1 DEF RunTypes
    <2>3. QED BY <2>1, <2>2 DEF Linked, Prepared, Tested, Staged
  <1>16. CASE Doctor
    <2>1. run.at = "doctor" /\ UNCHANGED live
          /\ (run' = [run EXCEPT !.at = "open", !.asset = 1] \/ EndRun)
      BY <1>16 DEF Doctor, EndRun
    <2>2. CASE run' = [run EXCEPT !.at = "open", !.asset = 1]
      <3>1. run'.at = "open" /\ run'.stage = run.stage /\ run'.results = run.results
            /\ run'.preflight = run.preflight
        BY <1>0, <2>2 DEF RunTypes
      <3>2. QED BY <1>2, <2>1, <3>1
    <2>3. QED BY <1>1, <2>1, <2>2
  <1>17. CASE OpenAsset \/ TruncateSums
    <2>1. PICK p \in {"fill", "sum"} : Go(p)
      BY <1>17 DEF OpenAsset, TruncateSums
    <2>2. run.at \in {"open", "truncate"} /\ UNCHANGED live
      BY <1>17 DEF OpenAsset, TruncateSums
    <2>3. run'.at = p /\ run'.stage = run.stage /\ run'.results = run.results
          /\ run'.preflight = run.preflight
      BY <1>0, <2>1, Moves DEF Points
    <2>4. QED BY <1>2, <2>1, <2>2, <2>3
  <1>18. CASE FillAsset \/ Sum
    <2>1. /\ run' = NextAsset("open", "truncate") \/ run' = NextAsset("sum", "written")
          /\ run.at \in {"fill", "sum"} /\ UNCHANGED live
      BY <1>18 DEF FillAsset, Sum
    <2>2. run'.at \in {"open", "truncate", "sum", "written"} /\ run'.stage = run.stage
          /\ run'.results = run.results /\ run'.preflight = run.preflight
      BY <1>0, <2>1, Moves DEF Points
    <2>3. QED BY <1>2, <2>1, <2>2
  <1>19. CASE PackageWritten
    <2>1. run.at = "written" /\ Then("selftest") /\ UNCHANGED live
      BY <1>19 DEF PackageWritten
    <2>2. CASE Go("selftest")
      <3>1. run'.at = "selftest" /\ run'.stage = run.stage /\ run'.results = run.results
            /\ run'.preflight = run.preflight
        BY <1>0, <2>2, Moves DEF Points
      <3>2. QED BY <1>2, <2>1, <3>1
    <2>3. QED BY <1>0, <1>1, <2>1, <2>2, Moves DEF Points
  <1>20. CASE SelfTest
    BY <1>1, <1>20 DEF SelfTest
  <1>21. CASE UNCHANGED vars
    BY <1>21 DEF vars, Linked, Prepared, Tested, Staged
  <1>22. QED
    BY <1>3, <1>4, <1>5, <1>6, <1>7, <1>9, <1>10, <1>11, <1>12, <1>13, <1>14, <1>15, <1>16,
       <1>17, <1>18, <1>19, <1>20, <1>21 DEF Next

-------------------------------------------------------------------------------
(* The package and its checksums                                           *)

\* The assets in the order in which they are written.
LEMMA TwoAssets ==
  /\ Len(Assets) = 2 /\ AssetNames = {"binary", "source"}
  /\ run.asset = 1 => Asset = "binary"
  /\ run.asset = 2 => Asset = "source"
  BY DEF Assets, AssetNames, Asset

\* One asset written leaves the other.
LEMMA OneAsset ==
  ASSUME OutTypes, NEW a \in AssetNames, NEW n \in {None, Torn} \cup 1..MaxPackages,
         out'.files = [out.files EXCEPT ![a] = n]
  PROVE  /\ out'.files \in [AssetNames -> {None, Torn} \cup 1..MaxPackages]
         /\ out'.files[a] = n
         /\ \A b \in AssetNames \ {a} : out'.files[b] = out.files[b]
  BY DEF OutTypes

LEMMA SecondLine ==
  ASSUME NEW x, NEW y
  PROVE  Append(<<x>>, y) = <<x, y>>
  <1>1. <<x>> \in Seq({x, y}) /\ Len(<<x>>) = 1
    OBVIOUS
  <1>2. <<x, y>> \in Seq({x, y}) /\ Len(<<x, y>>) = 2
    OBVIOUS
  <1>3. /\ Append(<<x>>, y) \in Seq({x, y})
        /\ Len(Append(<<x>>, y)) = 2
        /\ Append(<<x>>, y)[1] = x /\ Append(<<x>>, y)[2] = y
    BY <1>1, AppendProperties
  <1>4. <<x, y>>[1] = x /\ <<x, y>>[2] = y
    OBVIOUS
  <1>5. \A i \in 1..2 : Append(<<x>>, y)[i] = <<x, y>>[i]
    BY <1>3, <1>4
  <1>6. QED BY <1>2, <1>3, <1>5, SeqEqual

\* Every step keeps the assets and their checksums in order.
LEMMA OutStep ==
  ASSUME Types, AssetsInOrder, [Next]_vars
  PROVE  OutTypes' /\ AssetsInOrder'
  <1> USE DEF AssetsInOrder, BinaryWritten, AllWritten, TwoLines, Line, Packaging, At
  <1>0. RunTypes /\ OutTypes /\ LeftTypes
    BY DEF Types
  <1>1. ASSUME UNCHANGED out, run'.at \notin Packaging
        PROVE  OutTypes' /\ AssetsInOrder'
    BY <1>0, <1>1 DEF OutTypes
  <1>2. ASSUME UNCHANGED out, EndRun
        PROVE  OutTypes' /\ AssetsInOrder'
    BY <1>0, <1>1, <1>2, Moves DEF Points
  <1>3. CASE StartPreflight \/ StartAlone
    <2>1. UNCHANGED out /\ run'.at \in {"archives", "link", "assemble"}
      BY <1>3 DEF StartPreflight, StartAlone, NoRun
    <2>2. QED BY <1>1, <2>1
  <1>4. CASE Stop \/ LinkRefused \/ AssembleRefused
    BY <1>2, <1>4 DEF Stop, LinkRefused, AssembleRefused
  <1>5. CASE KeepArchives \/ BuildArchives \/ InstallPrefix \/ EmptyManifest
    <2>1. PICK p \in {"install", "manifest", "symbols"} : Go(p)
      BY <1>5 DEF KeepArchives, BuildArchives, InstallPrefix, EmptyManifest
    <2>2. UNCHANGED out /\ run'.at = p
      BY <1>0, <1>5, <2>1, Moves
         DEF Points, KeepArchives, BuildArchives, InstallPrefix, EmptyManifest
    <2>3. QED BY <1>1, <2>1, <2>2
  <1>6. CASE WriteManifest \/ LinkKept \/ Link
    <2>1. PICK p \in {"link", "boundary"} : Then(p)
      BY <1>6 DEF WriteManifest, LinkKept, Link
    <2>2. UNCHANGED out /\ run'.at \in {p, "idle"}
      BY <1>0, <1>6, <2>1, Moves DEF Points, WriteManifest, LinkKept, Link
    <2>3. QED BY <1>1, <2>1, <2>2
  <1>7. CASE Boundary
    <2>1. UNCHANGED out /\ (Go("conformance") \/ EndRun)
      BY <1>7 DEF Boundary
    <2>2. run'.at \in {"conformance", "idle"}
      BY <1>0, <2>1, Moves DEF Points
    <2>3. QED BY <1>1, <2>1, <2>2
  <1>8. CASE Conformance
    <2>1. UNCHANGED out /\ (EndRun \/ run' = [run EXCEPT !.at = "clear", !.results = Tested])
      BY <1>8 DEF Conformance, Tested
    <2>2. run'.at \in {"clear", "idle"}
      BY <1>0, <2>1, Moves DEF Points, RunTypes
    <2>3. QED BY <1>1, <2>1, <2>2
  <1>9. CASE ClearOut
    <2>1. OutTypes' /\ out'.status = "open"
      <3>1. CASE out' = NoOut
        BY <3>1 DEF NoOut, OutTypes, OrNone
      <3>2. CASE \E f \in [AssetNames -> {None, Torn} \cup 1..MaxPackages] :
                   out' = [out EXCEPT !.files = f, !.status = "open",
                             !.package = IF f["binary"] = None THEN None ELSE @]
        BY <1>0, <3>2 DEF OutTypes, OrNone
      <3>3. QED BY <1>9, <3>1, <3>2 DEF ClearOut
    <2>2. run.at = "clear" /\ (UNCHANGED run \/ Go("assemble"))
      BY <1>9 DEF ClearOut
    <2>3. run'.at \in {"clear", "assemble"}
      BY <1>0, <2>2, Moves DEF Points
    <2>4. QED BY <2>1, <2>3
  <1>10. CASE Assemble
    <2>1. /\ UNCHANGED out /\ left.packages > 0
          /\ run' = [run EXCEPT !.at = "doctor", !.no = MaxPackages - left.packages + 1,
                                !.stage = Staged]
      BY <1>10 DEF Assemble, Staged
    <2>2. run'.at = "doctor" /\ run'.no = MaxPackages - left.packages + 1
      BY <1>0, <2>1 DEF RunTypes
    <2>3. MaxPackages - left.packages + 1 \in 1..MaxPackages
      BY <1>0, <2>1, NativePackageAssumption DEF LeftTypes
    <2>4. QED BY <1>0, <2>1, <2>2, <2>3 DEF OutTypes
  <1>11. CASE Doctor
    <2>1. UNCHANGED out /\ run.at = "doctor"
          /\ (run' = [run EXCEPT !.at = "open", !.asset = 1] \/ EndRun)
      BY <1>11 DEF Doctor, EndRun
    <2>2. CASE run' = [run EXCEPT !.at = "open", !.asset = 1]
      <3>1. run'.at = "open" /\ run'.asset = 1 /\ run'.no = run.no
        BY <1>0, <2>2 DEF RunTypes
      <3>2. QED BY <1>0, <2>1, <3>1 DEF OutTypes
    <2>3. QED BY <1>2, <2>1, <2>2
  <1>12. CASE OpenAsset
    <2>1. /\ run.at = "open" /\ Go("fill")
          /\ out' = [out EXCEPT !.files[Asset] = Torn, !.status = "open"]
      BY <1>12 DEF OpenAsset
    <2>2. Asset \in AssetNames
      BY <2>1, TwoAssets
    <2>3. /\ out'.files = [out.files EXCEPT ![Asset] = Torn] /\ out'.status = "open"
          /\ out'.package = out.package /\ out'.sums = out.sums
          /\ out' \in [files : {out'.files}, package : {out.package}, sums : {out.sums},
                       status : {"open"}]
      BY <1>0, <2>1 DEF OutTypes
    <2>4. /\ out'.files \in [AssetNames -> {None, Torn} \cup 1..MaxPackages]
          /\ \A b \in AssetNames \ {Asset} : out'.files[b] = out.files[b]
      BY <1>0, <2>2, <2>3, OneAsset
    <2>5. OutTypes'
      BY <1>0, <2>3, <2>4 DEF OutTypes
    <2>6. run'.at = "fill" /\ run'.asset = run.asset /\ run'.no = run.no
          /\ run'.stage = run.stage
      BY <1>0, <2>1, Moves DEF Points
    <2>7. run.asset = 2 => out'.files["binary"] = out.files["binary"]
      BY <2>4, TwoAssets
    <2>8. QED BY <2>1, <2>3, <2>5, <2>6, <2>7
  <1>13. CASE FillAsset
    <2>1. /\ run.at = "fill" /\ run' = NextAsset("open", "truncate")
          /\ out' = [out EXCEPT !.files[Asset] = run.no,
                                !.package = IF Asset = "binary" THEN run.stage ELSE @]
      BY <1>13 DEF FillAsset
    <2>2. Asset \in AssetNames /\ run.no \in {None, Torn} \cup 1..MaxPackages
          /\ run.asset \in 1..2 /\ out.status = "open"
      BY <2>1, TwoAssets
    <2>3. /\ out'.files = [out.files EXCEPT ![Asset] = run.no] /\ out'.status = "open"
          /\ out'.package = (IF Asset = "binary" THEN run.stage ELSE out.package)
          /\ out'.sums = out.sums
          /\ out' \in [files : {out'.files}, package : {out'.package}, sums : {out.sums},
                       status : {"open"}]
      BY <1>0, <2>1, <2>2 DEF OutTypes
    <2>4. /\ out'.files \in [AssetNames -> {None, Torn} \cup 1..MaxPackages]
          /\ out'.files[Asset] = run.no
          /\ \A b \in AssetNames \ {Asset} : out'.files[b] = out.files[b]
      BY <1>0, <2>2, <2>3, OneAsset
    <2>5. OutTypes'
      BY <1>0, <2>3, <2>4 DEF OutTypes, RunTypes
    <2>6. /\ run'.no = run.no /\ run'.stage = run.stage
          /\ \/ run.asset = 1 /\ run'.at = "open" /\ run'.asset = 2
             \/ run.asset = 2 /\ run'.at = "truncate" /\ run'.asset = 1
      BY <1>0, <2>1, <2>2, Moves DEF Points
    <2>7. /\ out'.package = run.stage /\ out'.files["binary"] = run.no
          /\ run.asset = 2 => out'.files["source"] = run.no
      BY <2>1, <2>2, <2>3, <2>4, TwoAssets
    <2>8. QED BY <2>1, <2>2, <2>3, <2>5, <2>6, <2>7
  <1>14. CASE TruncateSums
    <2>1. run.at = "truncate" /\ Go("sum") /\ out' = [out EXCEPT !.sums = <<>>]
      BY <1>14 DEF TruncateSums, EmptiedSums
    <2>2. /\ out'.sums = <<>> /\ out'.files = out.files /\ out'.package = out.package
          /\ out'.status = out.status /\ OutTypes'
      <3> DEFINE none == <<>>
      <3>1. none \in Seq(Lines) /\ none = <<>>
        OBVIOUS
      <3>2. out' = [out EXCEPT !.sums = none]
        BY <2>1
      <3> HIDE DEF none
      <3>3. QED BY <1>0, <3>1, <3>2 DEF OutTypes
    <2>3. run'.at = "sum" /\ run'.asset = run.asset /\ run'.no = run.no
          /\ run'.stage = run.stage
      BY <1>0, <2>1, Moves DEF Points
    <2>4. QED BY <2>1, <2>2, <2>3
  <1>15. CASE Sum
    <2> DEFINE l == [asset |-> Asset, of |-> out.files[Asset]]
    <2>1. /\ run.at = "sum" /\ run' = NextAsset("sum", "written")
          /\ out' = [out EXCEPT !.sums = Append(out.sums, l)]
      BY <1>15 DEF Sum
    <2>2. run.asset \in 1..2 /\ out.status = "open" /\ Asset \in AssetNames
      BY <2>1, TwoAssets
    <2>3. out.sums \in Seq(Lines) /\ l \in Lines
      BY <1>0, <2>2 DEF OutTypes, Lines
    <2>4. l = (IF run.asset = 1 THEN Line("binary", run.no) ELSE Line("source", run.no))
      BY <2>1, <2>2, TwoAssets
    <2> HIDE DEF l
    <2>5. Append(out.sums, l) \in Seq(Lines)
      BY <2>3
    <2>6. /\ out'.sums = Append(out.sums, l) /\ out'.files = out.files
          /\ out'.package = out.package /\ out'.status = out.status /\ OutTypes'
      BY <1>0, <2>1, <2>5 DEF OutTypes
    <2>7. /\ run'.no = run.no /\ run'.stage = run.stage
          /\ \/ run.asset = 1 /\ run'.at = "sum" /\ run'.asset = 2
             \/ run.asset = 2 /\ run'.at = "written" /\ run'.asset = 1
      BY <1>0, <2>1, <2>2, Moves, SMTT(30) DEF Points
    <2>8. out'.sums = IF run.asset = 1 THEN <<Line("binary", run.no)>>
                      ELSE <<Line("binary", run.no), Line("source", run.no)>>
      <3>1. CASE run.asset = 1
        <4>1. out.sums = <<>> /\ l = Line("binary", run.no)
          BY <2>1, <2>4, <3>1
        <4>2. Append(out.sums, l) = <<Line("binary", run.no)>>
          BY <4>1
        <4>3. QED BY <2>6, <3>1, <4>2
      <3>2. CASE run.asset = 2
        <4>1. out.sums = <<Line("binary", run.no)>> /\ l = Line("source", run.no)
          BY <2>1, <2>4, <3>2
        <4>2. Append(out.sums, l) = <<Line("binary", run.no), Line("source", run.no)>>
          BY <4>1, SecondLine
        <4>3. QED BY <2>6, <3>2, <4>2
      <3>3. QED BY <2>2, <3>1, <3>2
    <2>9. QED BY <2>1, <2>2, <2>6, <2>7, <2>8
  <1>16. CASE PackageWritten
    <2>1. run.at = "written" /\ Then("selftest") /\ out' = [out EXCEPT !.status = "written"]
      BY <1>16 DEF PackageWritten
    <2>2. /\ out'.status = "written" /\ out'.files = out.files
          /\ out'.package = out.package /\ out'.sums = out.sums /\ OutTypes'
      BY <1>0, <2>1 DEF OutTypes
    <2>3. \/ /\ run'.at = "selftest" /\ run'.asset = run.asset /\ run'.no = run.no
             /\ run'.stage = run.stage
          \/ run'.at = "idle"
      BY <1>0, <2>1, Moves DEF Points
    <2>4. run.no \in 1..MaxPackages /\ AllWritten(run.no) /\ TwoLines(run.no)
      BY <2>1
    <2>5. \E n \in 1..MaxPackages : AllWritten(n)' /\ TwoLines(n)'
      BY <2>2, <2>4
    <2>6. QED BY <2>1, <2>2, <2>3, <2>5
  <1>17. CASE SelfTest
    <2>1. run.at = "selftest" /\ EndRun
          /\ (UNCHANGED out \/ out' = [out EXCEPT !.status = "passed"])
      BY <1>17 DEF SelfTest
    <2>2. CASE out' = [out EXCEPT !.status = "passed"]
      <3>1. out'.files = out.files /\ out'.sums = out.sums /\ OutTypes'
        BY <1>0, <2>2 DEF OutTypes
      <3>2. out.status # "open"
        BY <2>1
      <3>3. run'.at = "idle"
        BY <1>0, <2>1, Moves DEF Points
      <3>4. QED BY <3>1, <3>2, <3>3
    <2>3. QED BY <1>2, <2>1, <2>2
  <1>18. CASE UNCHANGED vars
    BY <1>0, <1>18 DEF vars, OutTypes
  <1>19. QED
    BY <1>3, <1>4, <1>5, <1>6, <1>7, <1>8, <1>9, <1>10, <1>11, <1>12, <1>13, <1>14, <1>15,
       <1>16, <1>17, <1>18 DEF Next

\* Everything before a package is begun, and everything that ends a run before it
\* is written, leaves the output directory alone.
BeforePackaging ==
  \/ StartPreflight \/ StartAlone \/ KeepArchives \/ BuildArchives \/ InstallPrefix
  \/ EmptyManifest \/ WriteManifest \/ LinkRefused \/ LinkKept \/ Link \/ Boundary
  \/ Conformance \/ AssembleRefused

LEMMA BeforeIsQuiet ==
  ASSUME Types, BeforePackaging
  PROVE  /\ UNCHANGED <<out, left.packages>>
         /\ run.at \notin Packaging /\ run'.at \notin Packaging
  <1> USE DEF Packaging, At
  <1>0. RunTypes /\ LeftTypes
    BY DEF Types
  <1>1. CASE StartPreflight \/ StartAlone
    <2>1. run'.at \in {"archives", "link", "assemble"}
      BY <1>1 DEF StartPreflight, StartAlone, NoRun
    <2>2. QED BY <1>1, <2>1 DEF StartPreflight, StartAlone
  <1>2. CASE LinkRefused \/ AssembleRefused
    <2>1. run'.at = "idle"
      BY <1>0, <1>2, Moves DEF Points, LinkRefused, AssembleRefused
    <2>2. QED BY <1>2, <2>1 DEF LinkRefused, AssembleRefused
  <1>3. CASE KeepArchives \/ InstallPrefix \/ EmptyManifest
    <2>1. run'.at \in {"install", "manifest", "symbols"}
      BY <1>0, <1>3, Moves DEF Points, KeepArchives, InstallPrefix, EmptyManifest
    <2>2. QED BY <1>3, <2>1 DEF KeepArchives, InstallPrefix, EmptyManifest
  <1>4. CASE BuildArchives
    <2>1. run'.at = "install" /\ run.at = "archives" /\ UNCHANGED out
          /\ left' = [left EXCEPT !.builds = @ - 1]
      BY <1>0, <1>4, Moves DEF Points, BuildArchives
    <2>2. left'.packages = left.packages
      BY <1>0, <2>1 DEF LeftTypes
    <2>3. QED BY <2>1, <2>2
  <1>5. CASE WriteManifest \/ LinkKept \/ Link
    <2>1. PICK p \in {"link", "boundary"} : Then(p)
      BY <1>5 DEF WriteManifest, LinkKept, Link
    <2>2. run'.at \in {p, "idle"}
      BY <1>0, <2>1, Moves DEF Points
    <2>3. QED BY <1>5, <2>1, <2>2 DEF WriteManifest, LinkKept, Link
  <1>6. CASE Boundary
    <2>1. run'.at \in {"conformance", "idle"}
      BY <1>0, <1>6, Moves DEF Points, Boundary
    <2>2. QED BY <1>6, <2>1 DEF Boundary
  <1>7. CASE Conformance
    <2>1. EndRun \/ run' = [run EXCEPT !.at = "clear", !.results = Tested]
      BY <1>7 DEF Conformance, Tested
    <2>2. run'.at \in {"clear", "idle"}
      BY <1>0, <2>1, Moves DEF Points, RunTypes
    <2>3. QED BY <1>7, <2>2 DEF Conformance
  <1>8. QED BY <1>1, <1>2, <1>3, <1>4, <1>5, <1>6, <1>7 DEF BeforePackaging

\* What each step of a package run does to the files and to their checksums.
LEMMA PackagingSteps ==
  ASSUME Types, AssetsInOrder
  PROVE  /\ Stop => UNCHANGED <<out, left.packages>> /\ run'.at = "idle"
         /\ Assemble => /\ UNCHANGED out /\ run.at = "assemble" /\ run'.at = "doctor"
                        /\ Made' = Made + 1 /\ run'.no = Made'
         /\ Doctor => /\ UNCHANGED <<out, left.packages>> /\ run.at = "doctor"
                      /\ \/ run'.at = "open" /\ run'.no = run.no
                         \/ run'.at = "idle"
         /\ OpenAsset => /\ UNCHANGED <<out.sums, left.packages>> /\ Asset \in AssetNames
                         /\ run.at = "open" /\ run'.at = "fill" /\ run'.no = run.no
                         /\ out'.files = [out.files EXCEPT ![Asset] = Torn]
         /\ FillAsset => /\ UNCHANGED <<out.sums, left.packages>> /\ Asset \in AssetNames
                         /\ run.at = "fill" /\ run'.at \in {"open", "truncate"}
                         /\ run'.no = run.no
                         /\ out'.files = [out.files EXCEPT ![Asset] = run.no]
         /\ TruncateSums => /\ UNCHANGED <<out.files, left.packages>> /\ out'.sums = <<>>
                            /\ run.at = "truncate" /\ run'.at = "sum"
                            /\ run'.no = run.no /\ run'.asset = 1
         /\ Sum => /\ UNCHANGED <<out.files, left.packages>>
                   /\ run.at = "sum" /\ run'.no = run.no
                   /\ out'.sums = Append(out.sums,
                                         [asset |-> Asset, of |-> out.files[Asset]])
                   /\ \/ run.asset = 1 /\ run'.at = "sum" /\ run'.asset = 2
                      \/ run.asset = 2 /\ run'.at = "written"
         /\ PackageWritten => /\ UNCHANGED <<out.files, out.sums, left.packages>>
                              /\ run.at = "written" /\ run'.at \in {"selftest", "idle"}
                              /\ run'.no = run.no \/ run'.at = "idle"
         /\ SelfTest => /\ UNCHANGED <<out.files, out.sums, left.packages>>
                        /\ run.at = "selftest" /\ run'.at = "idle"
  <1> USE DEF At, Packaging
  <1>0. RunTypes /\ OutTypes /\ LeftTypes
    BY DEF Types
  <1>1. ASSUME Stop
        PROVE  UNCHANGED <<out, left.packages>> /\ run'.at = "idle"
    <2>1. run'.at = "idle"
      BY <1>0, <1>1, Moves DEF Points, Stop
    <2>2. QED BY <1>0, <1>1, <2>1 DEF Stop, LeftTypes
  <1>2. ASSUME Assemble
        PROVE  /\ UNCHANGED out /\ run.at = "assemble" /\ run'.at = "doctor"
               /\ Made' = Made + 1 /\ run'.no = Made'
    <2>1. /\ run.at = "assemble" /\ UNCHANGED out
          /\ left' = [left EXCEPT !.packages = @ - 1]
          /\ run' = [run EXCEPT !.at = "doctor", !.no = MaxPackages - left.packages + 1,
                                !.stage = Staged]
      BY <1>2 DEF Assemble, Staged
    <2>2. run'.at = "doctor" /\ run'.no = MaxPackages - left.packages + 1
      BY <1>0, <2>1 DEF RunTypes
    <2>3. left'.packages = left.packages - 1 /\ left.packages \in Nat
      BY <1>0, <2>1, NativePackageAssumption DEF LeftTypes
    <2>4. QED BY <2>1, <2>2, <2>3, NativePackageAssumption DEF Made
  <1>3. ASSUME Doctor
        PROVE  /\ UNCHANGED <<out, left.packages>> /\ run.at = "doctor"
               /\ \/ run'.at = "open" /\ run'.no = run.no
                  \/ run'.at = "idle"
    <2>1. run' = [run EXCEPT !.at = "open", !.asset = 1] \/ EndRun
      BY <1>3 DEF Doctor, EndRun
    <2>2. \/ run'.at = "open" /\ run'.no = run.no
          \/ run'.at = "idle"
      BY <1>0, <2>1, Moves DEF RunTypes, Points
    <2>3. QED BY <1>3, <2>2 DEF Doctor
  <1>4. ASSUME OpenAsset
        PROVE  /\ UNCHANGED <<out.sums, left.packages>> /\ Asset \in AssetNames
               /\ run.at = "open" /\ run'.at = "fill" /\ run'.no = run.no
               /\ out'.files = [out.files EXCEPT ![Asset] = Torn]
    <2>1. run.at = "open" /\ Asset \in AssetNames
      BY <1>4, TwoAssets DEF OpenAsset, AssetsInOrder
    <2>2. run'.at = "fill" /\ run'.no = run.no
      BY <1>0, <1>4, Moves DEF OpenAsset, Points
    <2>3. out'.sums = out.sums /\ out'.files = [out.files EXCEPT ![Asset] = Torn]
      BY <1>0, <1>4 DEF OpenAsset, OutTypes
    <2>4. QED BY <1>4, <2>1, <2>2, <2>3 DEF OpenAsset
  <1>5. ASSUME FillAsset
        PROVE  /\ UNCHANGED <<out.sums, left.packages>> /\ Asset \in AssetNames
               /\ run.at = "fill" /\ run'.at \in {"open", "truncate"}
               /\ run'.no = run.no
               /\ out'.files = [out.files EXCEPT ![Asset] = run.no]
    <2>1. run.at = "fill" /\ Asset \in AssetNames
      BY <1>5, TwoAssets DEF FillAsset, AssetsInOrder
    <2>2. run'.at \in {"open", "truncate"} /\ run'.no = run.no
      BY <1>0, <1>5, Moves DEF FillAsset, Points
    <2>3. out'.sums = out.sums /\ out'.files = [out.files EXCEPT ![Asset] = run.no]
      BY <1>0, <1>5 DEF FillAsset, OutTypes
    <2>4. QED BY <1>5, <2>1, <2>2, <2>3 DEF FillAsset
  <1>6. ASSUME TruncateSums
        PROVE  /\ UNCHANGED <<out.files, left.packages>> /\ out'.sums = <<>>
               /\ run.at = "truncate" /\ run'.at = "sum"
               /\ run'.no = run.no /\ run'.asset = 1
    <2>1. run.at = "truncate" /\ run.asset = 1
      BY <1>6 DEF TruncateSums, AssetsInOrder
    <2>2. run'.at = "sum" /\ run'.no = run.no /\ run'.asset = run.asset
      BY <1>0, <1>6, Moves DEF TruncateSums, Points
    <2>3. out'.sums = <<>> /\ out'.files = out.files
      BY <1>0, <1>6 DEF TruncateSums, EmptiedSums, OutTypes
    <2>4. QED BY <1>6, <2>1, <2>2, <2>3 DEF TruncateSums
  <1>7. ASSUME Sum
        PROVE  /\ UNCHANGED <<out.files, left.packages>>
               /\ run.at = "sum" /\ run'.no = run.no
               /\ out'.sums = Append(out.sums, [asset |-> Asset, of |-> out.files[Asset]])
               /\ \/ run.asset = 1 /\ run'.at = "sum" /\ run'.asset = 2
                  \/ run.asset = 2 /\ run'.at = "written"
    <2>1. run.at = "sum" /\ run.asset \in 1..2
      BY <1>7 DEF Sum, AssetsInOrder
    <2>2. /\ run'.no = run.no
          /\ \/ run.asset = 1 /\ run'.at = "sum" /\ run'.asset = 2
             \/ run.asset = 2 /\ run'.at = "written"
      BY <1>0, <1>7, <2>1, Moves DEF Sum, Points
    <2>3. /\ out'.files = out.files
          /\ out'.sums = Append(out.sums, [asset |-> Asset, of |-> out.files[Asset]])
      BY <1>0, <1>7 DEF Sum, OutTypes
    <2>4. QED BY <1>7, <2>1, <2>2, <2>3 DEF Sum
  <1>8. ASSUME PackageWritten
        PROVE  /\ UNCHANGED <<out.files, out.sums, left.packages>>
               /\ run.at = "written" /\ run'.at \in {"selftest", "idle"}
               /\ run'.no = run.no \/ run'.at = "idle"
    <2>1. Then("selftest") /\ run.at = "written"
      BY <1>8 DEF PackageWritten
    <2>2. /\ run'.at \in {"selftest", "idle"}
          /\ run'.no = run.no \/ run'.at = "idle"
      BY <1>0, <2>1, Moves DEF Points
    <2>3. out'.files = out.files /\ out'.sums = out.sums
      BY <1>0, <1>8 DEF PackageWritten, OutTypes
    <2>4. QED BY <1>8, <2>1, <2>2, <2>3 DEF PackageWritten
  <1>9. ASSUME SelfTest
        PROVE  /\ UNCHANGED <<out.files, out.sums, left.packages>>
               /\ run.at = "selftest" /\ run'.at = "idle"
    <2>1. run.at = "selftest" /\ run'.at = "idle"
      BY <1>0, <1>9, Moves DEF SelfTest, Points
    <2>2. out'.files = out.files /\ out'.sums = out.sums
      BY <1>0, <1>9 DEF SelfTest, OutTypes
    <2>3. QED BY <1>9, <2>1, <2>2 DEF SelfTest
  <1>10. QED BY <1>1, <1>2, <1>3, <1>4, <1>5, <1>6, <1>7, <1>8, <1>9

-------------------------------------------------------------------------------
(* What passes                                                             *)

\* What a preflight stages is of one build.
LEMMA StagedIsOfOneBuild ==
  ASSUME Types, PreflightInOrder, run.preflight, run.at \in Packaging
  PROVE  /\ run.stage.plugin.no = run.stage.prefix.no
         /\ run.stage.manifest.no = run.stage.prefix.no
         /\ run.stage.results = [plugin |-> run.stage.plugin, prefix |-> run.stage.prefix]
         /\ run.stage.prefix.needs \cap run.stage.prefix.defined
              \subseteq run.stage.plugin.exports
  <1>1. Linked /\ run.results = Tested /\ run.stage = Staged
    BY DEF PreflightInOrder
  <1>2. /\ run.stage.plugin = live.plugin /\ run.stage.prefix = live.prefix
        /\ run.stage.manifest = live.manifest /\ run.stage.results = Tested
    BY <1>1 DEF Staged
  <1>3. QED BY <1>1, <1>2 DEF Linked, Prepared, Tested

\* Every step keeps what has passed: only the self-test passes anything, and it is the
\* package of its own preflight that it has tested.
LEMMA ShipStep ==
  ASSUME IInv, [Next]_vars
  PROVE  PreflightShipsOneBuild'
  <1> USE DEF PreflightShipsOneBuild
  <1>0. OutTypes /\ Types
    BY DEF IInv, Types
  <1>1. ASSUME UNCHANGED <<out>> PROVE PreflightShipsOneBuild'
    BY <1>1 DEF IInv
  <1>2. ASSUME out'.status # "passed" PROVE PreflightShipsOneBuild'
    BY <1>2
  <1>3. CASE ClearOut
    <2>1. CASE out' = NoOut
      BY <1>2, <2>1 DEF NoOut
    <2>2. CASE \E f \in [AssetNames -> {None, Torn} \cup 1..MaxPackages] :
                 out' = [out EXCEPT !.files = f, !.status = "open",
                           !.package = IF f["binary"] = None THEN None ELSE @]
      <3>1. out'.status = "open"
        BY <1>0, <2>2 DEF OutTypes
      <3>2. QED BY <1>2, <3>1
    <2>3. QED BY <1>3, <2>1, <2>2 DEF ClearOut
  <1>4. CASE OpenAsset
    <2>1. out'.status = "open"
      BY <1>0, <1>4 DEF OpenAsset, OutTypes
    <2>2. QED BY <1>2, <2>1
  <1>5. CASE FillAsset \/ TruncateSums \/ Sum
    <2>1. run.at \in {"fill", "truncate", "sum"} /\ out'.status = out.status
      BY <1>0, <1>5 DEF FillAsset, TruncateSums, Sum, At, OutTypes
    <2>2. out.status = "open"
      BY <2>1 DEF IInv, AssetsInOrder
    <2>3. QED BY <1>2, <2>1, <2>2
  <1>6. CASE PackageWritten
    <2>1. out'.status = "written"
      BY <1>0, <1>6 DEF PackageWritten, OutTypes
    <2>2. QED BY <1>2, <2>1
  <1>7. CASE SelfTest
    <2>1. run.at = "selftest"
          /\ (UNCHANGED out \/ out' = [out EXCEPT !.status = "passed"])
      BY <1>7 DEF SelfTest, At
    <2>2. run.preflight /\ out.package = run.stage
      BY <2>1 DEF IInv, ScriptsInOrder, AssetsInOrder, BinaryWritten
    <2>3. CASE out' = [out EXCEPT !.status = "passed"]
      <3>1. out'.package = run.stage
        BY <1>0, <2>2, <2>3 DEF OutTypes
      <3>2. QED BY <1>0, <2>1, <2>2, <3>1, StagedIsOfOneBuild DEF IInv, Packaging
    <2>4. QED BY <1>1, <2>1, <2>3
  <1>8. CASE \/ StartPreflight \/ StartAlone \/ Stop \/ KeepArchives \/ BuildArchives
             \/ InstallPrefix \/ EmptyManifest \/ WriteManifest \/ LinkRefused \/ LinkKept
             \/ Link \/ Boundary \/ Conformance \/ AssembleRefused \/ Assemble \/ Doctor
    BY <1>1, <1>8
       DEF StartPreflight, StartAlone, Stop, KeepArchives, BuildArchives, InstallPrefix,
           EmptyManifest, WriteManifest, LinkRefused, LinkKept, Link, Boundary,
           Conformance, AssembleRefused, Assemble, Doctor
  <1>9. CASE UNCHANGED vars
    BY <1>1, <1>9 DEF vars
  <1>10. QED
    BY <1>3, <1>4, <1>5, <1>6, <1>7, <1>8, <1>9 DEF Next

\* Clearing the directory takes files away, and perhaps all checksums.
LEMMA Clearing ==
  ASSUME Types, ClearOut
  PROVE  /\ UNCHANGED left
         /\ run.at = "clear" /\ run'.at \in {"clear", "assemble"}
         /\ out'.sums \in {out.sums, <<>>}
         /\ \A a \in AssetNames : out'.files[a] \in {out.files[a], None}
  <1>0. RunTypes /\ OutTypes
    BY DEF Types
  <1>1. UNCHANGED left /\ run.at = "clear" /\ (UNCHANGED run \/ Go("assemble"))
    BY DEF ClearOut, At
  <1>2. run'.at \in {"clear", "assemble"}
    BY <1>0, <1>1, Moves DEF Points
  <1>3. CASE out' = NoOut
    BY <1>1, <1>2, <1>3 DEF NoOut
  <1>4. CASE \E f \in [AssetNames -> {None, Torn} \cup 1..MaxPackages] :
               /\ \A a \in AssetNames : f[a] \in {out.files[a], None}
               /\ out' = [out EXCEPT !.files = f, !.status = "open",
                                     !.package = IF f["binary"] = None THEN None ELSE @]
    <2>1. PICK f \in [AssetNames -> {None, Torn} \cup 1..MaxPackages] :
             /\ \A a \in AssetNames : f[a] \in {out.files[a], None}
             /\ out' = [out EXCEPT !.files = f, !.status = "open",
                                   !.package = IF f["binary"] = None THEN None ELSE @]
      BY <1>4
    <2>2. out'.files = f /\ out'.sums = out.sums
      BY <1>0, <2>1 DEF OutTypes
    <2>3. QED BY <1>1, <1>2, <2>1, <2>2
  <1>5. QED BY <1>3, <1>4 DEF ClearOut

\* Every step keeps the checksums of earlier packages apart from those to come.
LEMMA SumsStep ==
  ASSUME IInv, [Next]_vars
  PROVE  SumsInOrder'
  <1> USE DEF SumsInOrder, Packaging, Unsummed
  <1>0. Types /\ AssetsInOrder /\ SumsInOrder /\ OutTypes /\ LeftTypes
    BY DEF IInv, Types
  <1>1. Made \in Nat
    BY <1>0, NativePackageAssumption DEF Made, LeftTypes
  <1>2. ASSUME UNCHANGED <<out.sums, left.packages>>
        PROVE  /\ Made' = Made
               /\ \A n : Older(n) => Older(n)'
    BY <1>2 DEF Made, Older
  <1>3. ASSUME out'.sums = <<>>
        PROVE  \A n : Older(n)'
    BY <1>3 DEF Older
  <1>4. CASE BeforePackaging
    BY <1>0, <1>2, <1>4, BeforeIsQuiet
  <1>5. CASE Stop \/ Doctor \/ OpenAsset \/ FillAsset \/ PackageWritten \/ SelfTest
    BY <1>0, <1>2, <1>5, PackagingSteps
  <1>6. CASE ClearOut
    <2>1. /\ left' = left /\ run'.at \in {"clear", "assemble"}
          /\ out'.sums \in {out.sums, <<>>}
      BY <1>0, <1>6, Clearing
    <2>2. Made' = Made
      BY <2>1 DEF Made
    <2>3. QED BY <1>0, <1>2, <1>3, <2>1, <2>2
  <1>7. CASE Assemble
    <2>1. UNCHANGED out /\ run'.at = "doctor" /\ Made' = Made + 1 /\ run'.no = Made'
      BY <1>0, <1>7, PackagingSteps
    <2>2. \A i \in DOMAIN out.sums :
            out.sums[i].of \in 1..MaxPackages =>
              out.sums[i].of < Made + 1 /\ out.sums[i].of < (Made + 1) + 1
      BY <1>0, <1>1 DEF Older
    <2>3. QED BY <2>1, <2>2 DEF Older
  <1>8. CASE TruncateSums
    <2>1. /\ UNCHANGED left.packages /\ out'.sums = <<>>
          /\ run.at = "truncate" /\ run'.at = "sum" /\ run'.no = run.no
      BY <1>0, <1>8, PackagingSteps
    <2>2. Made' = Made
      BY <2>1 DEF Made
    <2>3. QED BY <1>0, <1>3, <2>1, <2>2
  <1>9. CASE Sum
    <2> DEFINE l == [asset |-> Asset, of |-> out.files[Asset]]
    <2>1. /\ UNCHANGED left.packages
          /\ run.at = "sum" /\ run'.no = run.no
          /\ out'.sums = Append(out.sums, l)
          /\ run'.at \in {"sum", "written"}
      BY <1>0, <1>9, PackagingSteps
    <2>2. Made' = Made /\ run.no = Made
      BY <1>0, <2>1 DEF Made
    <2>3. l.of = Made /\ l \in Lines
      <3>1. run.asset \in 1..2 /\ AllWritten(run.no) /\ run.no \in 1..MaxPackages
        BY <1>0, <2>1 DEF AssetsInOrder
      <3>2. Asset \in AssetNames /\ out.files[Asset] = run.no
        BY <3>1, TwoAssets DEF AllWritten
      <3>3. QED BY <2>2, <3>1, <3>2 DEF Lines
    <2> HIDE DEF l
    <2>4. out.sums \in Seq(Lines)
      BY <1>0 DEF OutTypes
    <2>5. /\ DOMAIN Append(out.sums, l) = 1 .. Len(out.sums) + 1
          /\ DOMAIN out.sums = 1 .. Len(out.sums) /\ Len(out.sums) \in Nat
          /\ \A i \in 1 .. Len(out.sums) : Append(out.sums, l)[i] = out.sums[i]
          /\ Append(out.sums, l)[Len(out.sums) + 1] = l
      BY <2>3, <2>4, AppendProperties
    <2>6. Older(Made + 1)'
      <3> SUFFICES ASSUME NEW i \in 1 .. Len(out.sums) + 1,
                          Append(out.sums, l)[i].of \in 1..MaxPackages
                   PROVE  Append(out.sums, l)[i].of < Made + 1
        BY <2>1, <2>2, <2>5 DEF Older
      <3>1. CASE i = Len(out.sums) + 1
        BY <1>1, <2>3, <2>5, <3>1
      <3>2. CASE i \in 1 .. Len(out.sums)
        BY <1>0, <2>5, <3>2 DEF Older
      <3>3. QED BY <2>5, <3>1, <3>2
    <2>7. QED BY <1>0, <2>1, <2>2, <2>6
  <1>10. CASE UNCHANGED vars
    BY <1>0, <1>2, <1>10 DEF vars
  <1>11. QED
    BY <1>4, <1>5, <1>6, <1>7, <1>8, <1>9, <1>10 DEF Next, BeforePackaging

LEMMA Initially == Init => IInv
  <1> SUFFICES ASSUME Init PROVE IInv
    OBVIOUS
  <1>1. live = [archives |-> None, prefix |-> None, manifest |-> None, plugin |-> None]
        /\ evidence = {} /\ run = NoRun /\ out = NoOut
        /\ left = [builds |-> MaxBuilds, packages |-> MaxPackages, stops |-> MaxStops]
    BY DEF Init
  <1>2. LiveTypes
    BY <1>1 DEF LiveTypes, OrNone
  <1>3. RunTypes /\ run.at = "idle" /\ ~run.preflight
    BY <1>1, NoRunIsTyped DEF RunTypes, NoRun
  <1>4. OutTypes /\ out.status = "open"
    BY <1>1 DEF OutTypes, NoOut, OrNone
  <1>5. LeftTypes
    BY <1>1, NativePackageAssumption DEF LeftTypes
  <1>6. BuildsAreNumbered
    BY <1>1 DEF BuildsAreNumbered
  <1>7. ScriptsInOrder /\ PreflightInOrder
    BY <1>3 DEF ScriptsInOrder, PreflightInOrder, Packaging
  <1>8. AssetsInOrder
    BY <1>3, <1>4 DEF AssetsInOrder, BinaryWritten, Packaging
  <1>9. PreflightShipsOneBuild
    BY <1>4 DEF PreflightShipsOneBuild
  <1>10. SumsInOrder
    BY <1>1, <1>3, NativePackageAssumption DEF SumsInOrder, Older, NoOut, Packaging, Unsummed
  <1>11. QED
    BY <1>1, <1>2, <1>3, <1>4, <1>5, <1>6, <1>7, <1>8, <1>9, <1>10 DEF IInv, Types

LEMMA Invariance == Spec => []IInv
  <1>1. IInv /\ [Next]_vars => IInv'
    <2> SUFFICES ASSUME IInv, [Next]_vars PROVE IInv'
      OBVIOUS
    <2>1. Types /\ BuildsAreNumbered /\ ScriptsInOrder /\ PreflightInOrder /\ AssetsInOrder
      BY DEF IInv
    <2>2. LiveTypes' /\ LeftTypes' /\ BuildsAreNumbered'
      BY <2>1, LiveStep DEF Types
    <2>3. RunTypes' /\ ScriptsInOrder' /\ evidence' \subseteq Results
      BY <2>1, RunStep
    <2>4. PreflightInOrder'
      BY <2>1, PreflightStep
    <2>5. OutTypes' /\ AssetsInOrder'
      BY <2>1, OutStep
    <2>6. PreflightShipsOneBuild'
      BY ShipStep
    <2>7. SumsInOrder'
      BY SumsStep
    <2>8. QED BY <2>2, <2>3, <2>4, <2>5, <2>6, <2>7 DEF IInv, Types
  <1>2. QED BY Initially, <1>1, PTL DEF Spec

(***************************************************************************)
(* The target and output directories, the kept test results and the        *)
(* running script's package stay what the scripts can make of them.        *)
(***************************************************************************)
THEOREM PackageTypes == Spec => []TypeOK
  <1>1. IInv => TypeOK
    <2> SUFFICES ASSUME IInv PROVE TypeOK
      OBVIOUS
    <2>1. LiveTypes /\ evidence \subseteq Results /\ RunTypes /\ OutTypes
      BY DEF IInv, Types
    <2>2. QED BY <2>1, TwoAssets DEF TypeOK, LiveTypes, RunTypes, OutTypes
  <1>2. QED BY Invariance, <1>1, PTL

(***************************************************************************)
(* However many builds there were, whatever was linked, tested, packaged   *)
(* or killed before: a package that the preflight has passed has plugin,   *)
(* PostgreSQL prefix and manifest of one build and the results of testing  *)
(* just these, and its plugin exports what its modules may refer to        *)
(* (preflight-native-plugin-release.sh:224-293, plugin/build.rs:66).       *)
(***************************************************************************)
THEOREM PreflightTheorem == Spec => []PreflightShipsOneBuild
  <1>1. IInv => PreflightShipsOneBuild
    BY DEF IInv
  <1>2. QED BY Invariance, <1>1, PTL

(***************************************************************************)
(* However often package runs are killed between two writes: when one has  *)
(* come to its end and the next has not begun to write, the assets are all *)
(* of that run, and the checksum the host finds for each of them is its    *)
(* own (package-native-plugin-release.sh:605-653, release.rs:283-296).     *)
(***************************************************************************)
THEOREM VerifiesTheorem == Spec => []WrittenPackageVerifies
  <1>1. IInv => WrittenPackageVerifies
    <2> SUFFICES ASSUME IInv, out.status # "open"
                 PROVE  /\ \A a, b \in AssetNames : out.files[a] = out.files[b]
                        /\ \A a \in AssetNames : \E i \in DOMAIN out.sums :
                             /\ out.sums[i] = [asset |-> a, of |-> out.files[a]]
                             /\ \A j \in 1 .. i - 1 : out.sums[j].asset # a
      BY DEF WrittenPackageVerifies, Verifies
    <2>1. PICK n \in 1..MaxPackages : AllWritten(n) /\ TwoLines(n)
      BY DEF IInv, AssetsInOrder
    <2>2. /\ out.files["binary"] = n /\ out.files["source"] = n
          /\ out.sums = <<Line("binary", n), Line("source", n)>>
      BY <2>1 DEF AllWritten, TwoLines
    <2>3. DOMAIN out.sums = 1..2 /\ out.sums[1] = Line("binary", n)
          /\ out.sums[2] = Line("source", n)
      BY <2>2
    <2>4. \A a, b \in AssetNames : out.files[a] = out.files[b]
      BY <2>2, TwoAssets
    <2>5. /\ out.sums[1] = [asset |-> "binary", of |-> out.files["binary"]]
          /\ \A j \in 1 .. 1 - 1 : out.sums[j].asset # "binary"
      BY <2>2, <2>3 DEF Line
    <2>6. /\ out.sums[2] = [asset |-> "source", of |-> out.files["source"]]
          /\ \A j \in 1 .. 2 - 1 : out.sums[j].asset # "source"
      BY <2>2, <2>3 DEF Line
    <2>7. 1 \in DOMAIN out.sums /\ 2 \in DOMAIN out.sums
      BY <2>3
    <2>8. QED BY <2>4, <2>5, <2>6, <2>7, TwoAssets
  <1>2. QED BY Invariance, <1>1, PTL
-------------------------------------------------------------------------------
(* The refinement of AtomicRelease.                                        *)

\* What files and checksums offer.
Confirmed(files, sums, a) ==
  \E i \in DOMAIN sums :
    /\ sums[i] = [asset |-> a, of |-> files[a]]
    /\ \A j \in 1 .. i - 1 : sums[j].asset # a
OfferOf(files, sums) ==
  [a \in AssetNames |->
     IF files[a] \in 1..MaxPackages /\ Confirmed(files, sums, a) THEN files[a] ELSE None]

LEMMA OfferIs == Offered = OfferOf(out.files, out.sums)
                 /\ Offered' = OfferOf(out'.files, out'.sums)
  BY DEF Offered, OfferOf, Confirmed, Verifies

\* Nothing without checksums,
LEMMA EmptyOffer ==
  ASSUME NEW files PROVE OfferOf(files, <<>>) = [a \in AssetNames |-> None]
  <1>1. \A a : ~Confirmed(files, <<>>, a)
    BY DEF Confirmed
  <1>2. QED BY <1>1 DEF OfferOf

\* the same of a file that stays, nothing of one that has no checksum,
LEMMA SameOffer ==
  ASSUME NEW files, NEW after, NEW sums, NEW a \in AssetNames
  PROVE  /\ after[a] = files[a] => OfferOf(after, sums)[a] = OfferOf(files, sums)[a]
         /\ (\A i \in DOMAIN sums : sums[i].of \in 1..MaxPackages => sums[i].of # files[a])
              => OfferOf(files, sums)[a] = None
  <1>1. after[a] = files[a] => Confirmed(after, sums, a) = Confirmed(files, sums, a)
    BY DEF Confirmed
  <1>2. ASSUME \A i \in DOMAIN sums : sums[i].of \in 1..MaxPackages => sums[i].of # files[a],
               files[a] \in 1..MaxPackages, Confirmed(files, sums, a)
        PROVE  FALSE
    <2>1. PICK i \in DOMAIN sums : sums[i] = [asset |-> a, of |-> files[a]]
      BY <1>2 DEF Confirmed
    <2>2. sums[i].of = files[a]
      BY <2>1
    <2>3. QED BY <1>2, <2>2
  <1>3. QED BY <1>1, <1>2 DEF OfferOf

\* and the assets whose lines have been written.
LEMMA LinesOffer ==
  ASSUME NEW files, NEW n \in 1..MaxPackages, files["binary"] = n, files["source"] = n
  PROVE  /\ OfferOf(files, <<Line("binary", n)>>)
              = [a \in AssetNames |-> IF a = "binary" THEN n ELSE None]
         /\ OfferOf(files, <<Line("binary", n), Line("source", n)>>)
              = [a \in AssetNames |-> n]
  <1> USE TwoAssets
  <1>1. ASSUME NEW sums, sums = <<Line("binary", n)>>
        PROVE  Confirmed(files, sums, "binary") /\ ~Confirmed(files, sums, "source")
    <2>1. DOMAIN sums = {1} /\ sums[1].asset = "binary"
          /\ sums[1] = [asset |-> "binary", of |-> files["binary"]]
      BY <1>1 DEF Line
    <2>2. Confirmed(files, sums, "binary")
      BY <2>1 DEF Confirmed
    <2>3. ~Confirmed(files, sums, "source")
      BY <2>1 DEF Confirmed
    <2>4. QED BY <2>2, <2>3
  <1>2. ASSUME NEW sums, sums = <<Line("binary", n), Line("source", n)>>
        PROVE  Confirmed(files, sums, "binary") /\ Confirmed(files, sums, "source")
    <2>1. /\ 1 \in DOMAIN sums /\ 2 \in DOMAIN sums /\ sums[1].asset = "binary"
          /\ sums[1] = [asset |-> "binary", of |-> files["binary"]]
          /\ sums[2] = [asset |-> "source", of |-> files["source"]]
      BY <1>2 DEF Line
    <2>2. Confirmed(files, sums, "binary")
      BY <2>1 DEF Confirmed
    <2>3. \A j \in 1 .. 2 - 1 : sums[j].asset # "source"
      BY <2>1
    <2>4. Confirmed(files, sums, "source")
      BY <2>1, <2>3 DEF Confirmed
    <2>5. QED BY <2>2, <2>4
  <1>3. QED BY <1>1, <1>2 DEF OfferOf

\* Taking assets away is what the abstract release allows at any time.
LEMMA Withdrawn ==
  ASSUME UNCHANGED <<Made, Pending>>,
         \A a \in AssetNames : Offered'[a] \in {Offered[a], None}
  PROVE  Release!Withdraw
  <1> DEFINE gone == {a \in AssetNames : Offered'[a] = None}
  <1>1. Offered' = [a \in AssetNames |-> Offered'[a]]
    BY OfferIs DEF OfferOf
  <1>2. Offered' = [a \in AssetNames |-> IF a \in gone THEN None ELSE Offered[a]]
    BY <1>1
  <1>3. gone \in SUBSET AssetNames
    OBVIOUS
  <1> HIDE DEF gone
  <1>4. QED BY <1>2, <1>3 DEF Release!Withdraw

\* What may still come up: both assets, then the second, then none.
LEMMA PendingIs ==
  /\ run.at \in Unsummed \/ (run.at = "sum" /\ run.asset = 1) => Pending = AssetNames
  /\ run.at = "sum" /\ run.asset = 2 => Pending = {"source"}
  /\ run.at \notin Unsummed \cup {"sum"} => Pending = {}
  /\ run'.at \in Unsummed \/ (run'.at = "sum" /\ run'.asset = 1) => Pending' = AssetNames
  /\ run'.at = "sum" /\ run'.asset = 2 => Pending' = {"source"}
  /\ run'.at \notin Unsummed \cup {"sum"} => Pending' = {}
  <1>1. /\ {Assets[i] : i \in 1 .. Len(Assets)} = AssetNames
        /\ {Assets[i] : i \in 2 .. Len(Assets)} = {"source"}
    BY DEF Assets, AssetNames
  <1>2. QED BY <1>1 DEF Pending, At, Unsummed

\* The two lines of checksums bring up the two assets.
LEMMA SumPublishes ==
  ASSUME IInv, Sum
  PROVE  Release!Publish
  <1>1. Types /\ AssetsInOrder /\ SumsInOrder /\ AssetsInOrder'
    BY OutStep DEF IInv, Next
  <1> DEFINE n == run.no
  <1>2. /\ UNCHANGED <<out.files, left.packages>> /\ run.at = "sum" /\ run'.no = n
        /\ \/ run.asset = 1 /\ run'.at = "sum" /\ run'.asset = 2
           \/ run.asset = 2 /\ run'.at = "written"
    BY <1>1, PackagingSteps
  <1>3. /\ n = Made /\ Made' = Made /\ n \in 1..MaxPackages
        /\ out.files["binary"] = n /\ out.files["source"] = n
    BY <1>1, <1>2 DEF SumsInOrder, AssetsInOrder, Packaging, AllWritten, Made
  <1>4. n # None
    BY <1>3, NoneAssumption
  <1> DEFINE one == <<Line("binary", n)>>
             two == <<Line("binary", n), Line("source", n)>>
             old == out.files
             new == out'.files
  <1>5. /\ OfferOf(old, <<>>) = [a \in AssetNames |-> None]
        /\ OfferOf(old, one) = [a \in AssetNames |-> IF a = "binary" THEN n ELSE None]
        /\ OfferOf(old, two) = [a \in AssetNames |-> n]
        /\ new = old
    BY <1>2, <1>3, EmptyOffer, LinesOffer
  <1>6. Offered = OfferOf(old, out.sums) /\ Offered' = OfferOf(new, out'.sums)
    BY OfferIs
  <1> HIDE DEF n, old, new
  <1>7. CASE run.asset = 1
    <2>1. out.sums = <<>> /\ out'.sums = <<Line("binary", n)>>
      BY <1>1, <1>2, <1>7 DEF AssetsInOrder, n
    <2>2. /\ Offered = [a \in AssetNames |-> None]
          /\ Offered' = [a \in AssetNames |-> IF a = "binary" THEN n ELSE None]
      BY <1>5, <1>6, <2>1
    <2>3. Pending = AssetNames /\ Pending' = {"source"}
      BY <1>2, <1>7, PendingIs
    <2>4. /\ "binary" \in Pending /\ Offered["binary"] = None
          /\ \A b \in AssetNames : Offered[b] \in {None, Made}
          /\ Offered' = [Offered EXCEPT !["binary"] = Made]
          /\ Pending' = Pending \ {"binary"}
      BY <1>3, <2>2, <2>3, TwoAssets
    <2>5. QED BY <1>3, <2>4 DEF Release!Publish
  <1>8. CASE run.asset = 2
    <2>1. /\ out.sums = <<Line("binary", n)>>
          /\ out'.sums = <<Line("binary", n), Line("source", n)>>
      BY <1>1, <1>2, <1>8 DEF AssetsInOrder, TwoLines, n
    <2>2. /\ Offered = [a \in AssetNames |-> IF a = "binary" THEN n ELSE None]
          /\ Offered' = [a \in AssetNames |-> n]
      BY <1>5, <1>6, <2>1
    <2>3. Pending = {"source"} /\ Pending' = {}
      BY <1>2, <1>8, PendingIs DEF Unsummed
    <2>4. /\ "source" \in Pending /\ Offered["source"] = None
          /\ \A b \in AssetNames : Offered[b] \in {None, Made}
          /\ Offered' = [Offered EXCEPT !["source"] = Made]
          /\ Pending' = Pending \ {"source"}
      BY <1>3, <2>2, <2>3, TwoAssets
    <2>5. QED BY <1>3, <2>4 DEF Release!Publish
  <1>9. QED BY <1>2, <1>7, <1>8

\* Every step of the scripts is one of the abstract release, or leaves it alone.
LEMMA ReleaseStep == IInv /\ [Next]_vars => [Release!Next]_<<Made, Pending, Offered>>
  <1> SUFFICES ASSUME IInv, [Next]_vars
               PROVE  [Release!Next]_<<Made, Pending, Offered>>
    OBVIOUS
  <1> USE DEF Packaging, Unsummed
  <1>0. Types /\ AssetsInOrder /\ SumsInOrder /\ OutTypes
    BY DEF IInv, Types
  <1>1. ASSUME UNCHANGED left.packages PROVE Made' = Made
    BY <1>1 DEF Made
  <1>2. ASSUME out'.files = out.files, out'.sums = out.sums PROVE Offered' = Offered
    BY <1>2, OfferIs
  <1>3. CASE BeforePackaging \/ PackageWritten \/ SelfTest
    <2>1. /\ UNCHANGED <<out.files, out.sums, left.packages>>
          /\ run.at \notin Unsummed \cup {"sum"} /\ run'.at \notin Unsummed \cup {"sum"}
      BY <1>0, <1>3, BeforeIsQuiet, PackagingSteps
    <2>2. QED BY <1>1, <1>2, <2>1, PendingIs
  <1>4. CASE Stop \/ Doctor
    <2>1. /\ UNCHANGED <<out, left.packages>>
          /\ \/ run'.at = "idle"
             \/ run.at = "doctor" /\ run'.at = "open"
      BY <1>0, <1>4, PackagingSteps
    <2>2. Pending' = {} \/ Pending' = Pending
      BY <2>1, PendingIs
    <2>3. QED BY <1>1, <1>2, <2>1, <2>2 DEF Release!Next, Release!Abandon
  <1>5. CASE Assemble
    <2>1. UNCHANGED out /\ run.at = "assemble" /\ run'.at = "doctor" /\ Made' = Made + 1
      BY <1>0, <1>5, PackagingSteps
    <2>2. Pending = {} /\ Pending' = AssetNames /\ Offered' = Offered
      BY <1>2, <2>1, PendingIs
    <2>3. QED BY <2>1, <2>2 DEF Release!Next, Release!Begin
  <1>6. CASE ClearOut
    <2>1. /\ UNCHANGED left /\ run.at = "clear" /\ run'.at \in {"clear", "assemble"}
          /\ out'.sums \in {out.sums, <<>>}
          /\ \A a \in AssetNames : out'.files[a] \in {out.files[a], None}
      BY <1>0, <1>6, Clearing
    <2>2. UNCHANGED <<Made, Pending>>
      BY <1>1, <2>1, PendingIs
    <2>3. ASSUME NEW a \in AssetNames PROVE Offered'[a] \in {Offered[a], None}
      <3>1. CASE out'.sums = <<>>
        BY <3>1, OfferIs, EmptyOffer
      <3>2. CASE out'.sums = out.sums /\ out'.files[a] = out.files[a]
        <4>1. OfferOf(out'.files, out.sums)[a] = OfferOf(out.files, out.sums)[a]
          BY <3>2, SameOffer
        <4>2. QED BY <3>2, <4>1, OfferIs
      <3>3. CASE out'.files[a] = None
        BY <3>3, OfferIs DEF OfferOf
      <3>4. QED BY <2>1, <3>1, <3>2, <3>3
    <2>4. QED BY <2>2, <2>3, Withdrawn DEF Release!Next
  <1>7. CASE OpenAsset \/ FillAsset
    <2>1. /\ UNCHANGED <<out.sums, left.packages>> /\ Asset \in AssetNames
          /\ run.at \in Unsummed /\ run'.at \in Unsummed
          /\ \E x \in {Torn, run.no} : out'.files = [out.files EXCEPT ![Asset] = x]
          /\ run.at \in {"open", "fill"}
      BY <1>0, <1>7, PackagingSteps
    <2>2. PICK x \in {Torn, run.no} : out'.files = [out.files EXCEPT ![Asset] = x]
      BY <2>1
    <2>3. UNCHANGED <<Made, Pending>>
      BY <1>1, <2>1, PendingIs
    <2>4. /\ \A i \in DOMAIN out.sums :
                out.sums[i].of \in 1..MaxPackages => out.sums[i].of < Made
          /\ run.no = Made /\ run.no \in 1..MaxPackages
      BY <1>0, <2>1 DEF SumsInOrder, Older, AssetsInOrder
    <2>5. out.files \in [AssetNames -> {None, Torn} \cup 1..MaxPackages]
      BY <1>0 DEF OutTypes
    <2>6. ASSUME NEW a \in AssetNames PROVE Offered'[a] \in {Offered[a], None}
      <3>1. CASE a # Asset
        <4> DEFINE files == out.files
                   after == out'.files
                   sums == out.sums
        <4>1. after[a] = files[a] /\ out'.sums = sums
          BY <2>1, <2>2, <2>5, <3>1
        <4>2. Offered = OfferOf(files, sums) /\ Offered' = OfferOf(after, sums)
          BY <4>1, OfferIs
        <4> HIDE DEF files, after, sums
        <4>3. OfferOf(after, sums)[a] = OfferOf(files, sums)[a]
          BY <4>1, SameOffer
        <4>4. QED BY <4>2, <4>3
      <3>2. CASE a = Asset
        <4>1. out'.files[a] = x /\ out'.sums = out.sums
          BY <2>1, <2>2, <2>5, <3>2
        <4>2. \A i \in DOMAIN out'.sums :
                out'.sums[i].of \in 1..MaxPackages => out'.sums[i].of # x
          <5>1. x = Torn => x \notin 1..MaxPackages
            BY NoneAssumption
          <5>2. QED BY <2>4, <4>1, <5>1
        <4>3. QED BY <4>1, <4>2, OfferIs, SameOffer
      <3>3. QED BY <3>1, <3>2
    <2>7. QED BY <2>3, <2>6, Withdrawn DEF Release!Next
  <1>8. CASE TruncateSums
    <2>1. /\ UNCHANGED left.packages /\ out'.sums = <<>>
          /\ run.at = "truncate" /\ run'.at = "sum" /\ run'.asset = 1
      BY <1>0, <1>8, PackagingSteps
    <2>2. UNCHANGED <<Made, Pending>>
      BY <1>1, <2>1, PendingIs
    <2>3. \A a \in AssetNames : Offered'[a] = None
      BY <2>1, OfferIs, EmptyOffer
    <2>4. QED BY <2>2, <2>3, Withdrawn DEF Release!Next
  <1>9. CASE Sum
    BY <1>9, SumPublishes DEF Release!Next
  <1>10. CASE UNCHANGED vars
    <2>1. UNCHANGED <<run, out, left>>
      BY <1>10 DEF vars
    <2>2. QED BY <1>1, <1>2, <2>1 DEF Pending, At
  <1>11. QED
    BY <1>3, <1>4, <1>5, <1>6, <1>7, <1>8, <1>9, <1>10 DEF Next, BeforePackaging

(***************************************************************************)
(* However many packages are written over each other under the same names, *)
(* and wherever each run is killed: somebody who takes assets from the     *)
(* directory between any two steps and believes only those their checksums *)
(* confirm has assets of one package, the newest of those ever offered     *)
(* (package-native-plugin-release.sh:605-653, release.rs:283-296).         *)
(***************************************************************************)
THEOREM AtomicReleaseTheorem == Spec => ImplementsAtomicRelease
  <1>1. Init => Release!Init
    <2> SUFFICES ASSUME Init PROVE Release!Init
      OBVIOUS
    <2>1. Made = 0
      BY NativePackageAssumption DEF Init, Made
    <2>2. Pending = {}
      BY PendingIs DEF Init, NoRun, Unsummed
    <2>3. Offered = [a \in AssetNames |-> None]
      BY OfferIs, EmptyOffer DEF Init, NoOut
    <2>4. QED BY <2>1, <2>2, <2>3 DEF Release!Init
  <1>2. QED
    BY <1>1, ReleaseStep, Invariance, PTL
    DEF Spec, ImplementsAtomicRelease, Release!Spec, Release!release
===============================================================================
