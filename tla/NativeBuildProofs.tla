--------------------------- MODULE NativeBuildProofs ---------------------------
(***************************************************************************)
(* Proofs about NativeBuild, for any dependencies and versions and any     *)
(* number of edits, changes of the prefix, and stops.  What an older run   *)
(* left is used only under a mark that is written when all of it is there  *)
(* and that tells the inputs apart; everything else is made in the run.    *)
(***************************************************************************)
EXTENDS NativeBuild, DependencyPrefix, TLAPS

\* The script's points, and those up to which it has not come yet.
Points == {"idle", "tree", "mark", "list", "materialize", "provenance", "relist", "objects",
           "trap", "environment", "make", "archive", "install", "other", "record",
           "manifest", "write"}
Unlisted == {"idle", "tree", "mark", "list"}
Listing == {"materialize", "provenance", "relist"}
Uncompiled == Unlisted \cup Listing \cup {"objects"}

Amounts == {"none", "some", "all"}
ManifestsWritten == [postgres : BOOLEAN, source : Sources, trap : Versions,
                     prefix : Labels, listed : Listings, other : BOOLEAN]

InputTypes ==
  /\ repo \in [pin : Versions, checkout : Versions, patches : Versions, trap : Versions,
               inventory : [Deps -> Versions]]
  /\ prefix \in [Deps -> Installed]
TreeTypes ==
  tree \in [mark : OrNone(Sources), source : OrNone(Sources), whole : BOOLEAN,
            ext : Amounts, provenance : BOOLEAN]
ObjectTypes ==
  /\ objects \in [pglitec : OrNone(Sources), trap : OrNone(Versions)]
  /\ archives \subseteq Stamps
BuildTypes ==
  build \in [env : OrNone(Fingerprints), objs : SUBSET Stamps, inst : SUBSET Stamps,
             other : Amounts]
RunTypes ==
  /\ run \in [at : Points, listed : OrNone(Listings), mode : Modes]
  /\ run.at \notin Unlisted => run.listed \in Listings
ManifestTypes == manifest \in OrNone(ManifestsWritten) /\ settled \in BOOLEAN

Types == InputTypes /\ TreeTypes /\ ObjectTypes /\ BuildTypes /\ RunTypes /\ ManifestTypes

\* The patched tree is of what its mark says, and of the inputs once the script is past it;
\* in a tree from which nothing was removed, an extension with a provenance is complete.
TreeIsMarked ==
  /\ tree.mark # None => tree.source = tree.mark
  /\ run.at \notin {"idle", "tree"} => tree.source = Source
  /\ tree.whole /\ tree.provenance => tree.ext = "all"

\* The objects outside the PostgreSQL build are made in every run.
ObjectsAreNew ==
  /\ run.at \notin Uncompiled => objects.pglitec = Source
  /\ run.at \notin Uncompiled \cup {"trap"} => objects.trap = repo.trap

\* A stamp that agrees with the inputs as they are.
Right(s) ==
  /\ s.source = Source /\ s.trap = repo.trap
  /\ \A d \in Probed : s.deps[d].pc = prefix[d].pc

\* The PostgreSQL build is of what its environment file says; once it is kept or
\* cleared, it is of the inputs, and so is what is made after it.
Making == {"make", "archive", "install", "other", "record"}
Finishing == run.at \in {"manifest", "write"} /\ run.mode.postgres

BuildIsRecorded ==
  /\ build.env # None => \A s \in build.objs \cup build.inst : AgreesWith(build.env, s)
  /\ run.at \in Making => /\ build.env \in {None, EnvFingerprint}
                          /\ \A s \in build.objs \cup build.inst : Right(s)
  /\ run.at \in Making \ {"make"} => build.objs # {}
  /\ run.at \in {"install", "other", "record"} \/ Finishing =>
       archives # {} /\ \A s \in archives : Right(s)
  /\ run.at \in {"other", "record"} \/ Finishing =>
       build.inst # {} /\ \A s \in build.inst : Right(s)

\* What is called present after the listing is complete, and is then installed.
PresentIsInstalled ==
  /\ run.at \in Listing => ~run.listed.present
  /\ run.at = "relist" /\ tree.whole => tree.ext = "all"
  /\ run.at \notin Unlisted /\ run.listed.present /\ tree.whole => tree.ext = "all"
  /\ run.at = "record" \/ Finishing =>
       (run.mode.other /\ run.listed.present /\ tree.whole => build.other = "all")

\* Only a run that came to its end is settled, and the next one ends that.
SettledAtRest == settled => run.at = "idle"

IInv ==
  /\ Types /\ TreeIsMarked /\ ObjectsAreNew /\ BuildIsRecorded /\ PresentIsInstalled
  /\ SettledAtRest /\ SettledBuildIsOfOneVersion /\ PresentExtensionsAreComplete

-------------------------------------------------------------------------------
(* The actions, by what they leave alone                                   *)

Between == Edit \/ PrefixChanges \/ PrepareRefused
Start == \E mode \in Modes : StartPrepare(mode)
Ends == Stop \/ TreeTorn \/ PrefixIncomplete
TreeSteps == TreeKept \/ TreeClear \/ TreeExtract \/ TreeMark
Fetches == ExtensionFetch \/ ExtensionFetched
Lists == ListExtensions \/ Relist
Compiles == CompilePglitec \/ CompileTrap
Builds == BuildClear \/ Make \/ Install \/ InstallOther \/ RecordEnvironment
Others == ExtensionKept \/ BuildKept \/ Archive \/ TruncateManifest

LEMMA AllActions ==
  Next => \/ Between \/ Start \/ Ends \/ TreeSteps \/ Fetches \/ Lists \/ Compiles
          \/ Builds \/ Others \/ WriteManifest
  BY DEF Next, Prepare, Between, Start, Ends, TreeSteps, Fetches, Lists, Compiles, Builds,
         Others

\* Between runs and at the end of one nothing is made.
LEMMA Rests ==
  /\ Between => run.at = "idle" /\ UNCHANGED <<prepareVars, run>>
  /\ Ends => run' = NoRun /\ UNCHANGED <<repo, prefix, prepareVars>>
  /\ WriteManifest => run' = NoRun /\ UNCHANGED <<repo, prefix, tree, objects, build, archives>>
  BY DEF Between, Edit, PrefixChanges, OneReinstalled, PrepareRefused, Ends, Stop, TreeTorn,
         PrefixIncomplete, WriteManifest, At, vars, prepareVars, untouched

LEMMA NoRunIsTyped ==
  /\ NoRun \in [at : Points, listed : OrNone(Listings), mode : Modes]
  /\ NoRun.at = "idle"
  BY DEF NoRun, Points, Modes, OrNone

\* Going on to a point changes nothing else of the run.
LEMMA Moves ==
  ASSUME RunTypes, NEW p \in Points, Go(p)
  PROVE  /\ run' \in [at : Points, listed : OrNone(Listings), mode : Modes]
         /\ run'.at = p /\ run'.listed = run.listed /\ run'.mode = run.mode
  BY DEF RunTypes, Go

\* A run starts with the tree.
LEMMA Starts ==
  Start => /\ run.at = "idle" /\ run'.at = "tree" /\ RunTypes'
           /\ settled' = FALSE
           /\ UNCHANGED <<repo, prefix, tree, objects, build, archives, manifest>>
  <1> SUFFICES ASSUME NEW mode \in Modes, StartPrepare(mode)
               PROVE  /\ run.at = "idle" /\ run'.at = "tree" /\ RunTypes'
                      /\ settled' = FALSE
                      /\ UNCHANGED <<repo, prefix, tree, objects, build, archives, manifest>>
    BY DEF Start
  <1>1. run' = [NoRun EXCEPT !.at = "tree", !.mode = mode]
    BY DEF StartPrepare
  <1>2. run'.at = "tree" /\ RunTypes'
    BY <1>1, NoRunIsTyped DEF RunTypes, Points, Unlisted
  <1>3. QED BY <1>2 DEF StartPrepare, At

\* From the listing on, the script goes from point to point with its inputs unchanged.
LEMMA Proceeds ==
  ASSUME InputTypes, RunTypes, Fetches \/ Lists \/ Compiles \/ Builds \/ Others
  PROVE  /\ UNCHANGED <<repo, prefix, settled>> /\ run'.mode = run.mode
         /\ run.at \notin {"idle", "tree", "mark"} /\ run'.at \notin Unlisted
         /\ Lists \/ run'.listed = run.listed
         /\ RunTypes'
  <1> USE DEF At, untouched
  <1>0. /\ UNCHANGED <<repo, prefix, settled>>
        /\ run.at \notin {"idle", "tree", "mark"}
        /\ run.at = "list" => ListExtensions
    BY DEF Fetches, Lists, Compiles, Builds, Others, ExtensionFetch, ExtensionFetched,
           ListExtensions, Relist, CompilePglitec, CompileTrap, BuildClear, Make, Install,
           InstallOther, RecordEnvironment, ExtensionKept, BuildKept, Archive,
           TruncateManifest
  <1>1. CASE Lists
    <2>1. PICK p \in {"materialize", "objects"}, b \in BOOLEAN :
            run' = [run EXCEPT !.at = p,
                               !.listed = [commit |-> repo.checkout, present |-> b]]
      BY <1>1 DEF Lists, ListExtensions, Relist
    <2> DEFINE l == [commit |-> repo.checkout, present |-> b]
    <2>2. l \in Listings
      BY DEF InputTypes, Listings
    <2> HIDE DEF l
    <2>3. /\ run' \in [at : Points, listed : OrNone(Listings), mode : Modes]
          /\ run'.at = p /\ run'.listed = l /\ run'.mode = run.mode
      BY <2>1, <2>2 DEF RunTypes, Points, OrNone, l
    <2>4. QED BY <1>0, <1>1, <2>2, <2>3 DEF RunTypes, Unlisted
  <1>2. CASE ~Lists
    <2>1. \/ run' = run
          \/ \E p \in Points \ Unlisted : Go(p)
      BY <1>2 DEF Fetches, Lists, Compiles, Builds, Others, ExtensionFetch,
                  ExtensionFetched, CompilePglitec, CompileTrap, BuildClear, Make, Install,
                  InstallOther, RecordEnvironment, ExtensionKept, BuildKept, Archive,
                  TruncateManifest, Points, Unlisted
    <2>2. run.at \notin Unlisted
      BY <1>0, <1>2 DEF Unlisted, Lists
    <2>3. run'.listed = run.listed /\ run'.mode = run.mode /\ run'.at \notin Unlisted
          /\ run' \in [at : Points, listed : OrNone(Listings), mode : Modes]
      <3>1. CASE run' = run
        BY <2>2, <3>1 DEF RunTypes
      <3>2. CASE \E p \in Points \ Unlisted : Go(p)
        BY <3>2, Moves
      <3>3. QED BY <2>1, <3>1, <3>2
    <2>4. QED BY <1>0, <2>2, <2>3 DEF RunTypes
  <1>3. QED BY <1>1, <1>2

\* The patched tree is made before anything is listed.
LEMMA TreeMoves ==
  ASSUME RunTypes, TreeSteps
  PROVE  /\ UNCHANGED <<repo, prefix, objects, build, archives, manifest, settled>>
         /\ run.at \in {"tree", "mark"} /\ run'.at \in {"tree", "mark", "list"}
         /\ run'.mode = run.mode
         /\ RunTypes'
  <1> USE DEF At, untouched
  <1>1. /\ UNCHANGED <<repo, prefix, objects, build, archives, manifest, settled>>
        /\ run.at \in {"tree", "mark"}
        /\ run' = run \/ \E p \in {"mark", "list"} : Go(p)
    BY DEF TreeSteps, TreeKept, TreeClear, TreeExtract, TreeMark
  <1>2. CASE run' = run
    BY <1>1, <1>2 DEF RunTypes
  <1>3. CASE \E p \in {"mark", "list"} : Go(p)
    BY <1>1, <1>3, Moves DEF RunTypes, Points, Unlisted
  <1>4. QED BY <1>1, <1>2, <1>3

-------------------------------------------------------------------------------
(* Types                                                                   *)

LEMMA NowIsTyped ==
  ASSUME InputTypes, TreeTypes
  PROVE  /\ Now \in Stamps /\ Source \in Sources /\ Described \in Labels
         /\ run.listed \in Listings /\ run.mode \in Modes => EnvFingerprint \in Fingerprints
  <1>1. Source \in Sources /\ Now \in Stamps
    BY DEF InputTypes, TreeTypes, Source, Sources, Now, Stamps
  <1>2. Described \in Labels
    BY InventoryAssumption DEF InputTypes, Installed, Described, Labels
  <1>3. QED BY <1>1, <1>2 DEF InputTypes, EnvFingerprint, Fingerprints, Modes

\* What make leaves is of the old objects and of new ones.
LEMMA MakeMakes ==
  ASSUME NEW old \in SUBSET Stamps, Now \in Stamps, NEW new \in Made(old)
  PROVE  new \in SUBSET Stamps /\ new # {} /\ new \subseteq old \cup {Now}
  BY DEF Made

\* What is left of an amount is an amount.
LEMMA LeftIsTyped ==
  ASSUME NEW a \in Amounts, NEW b \in Left(a)
  PROVE  b \in Amounts
  BY DEF Left, Amounts

LEMMA TypeStep ==
  ASSUME Types, [Next]_vars
  PROVE  Types'
  <1> USE DEF Types
  <1>1. CASE Between
    <2>1. TreeTypes' /\ ObjectTypes' /\ BuildTypes' /\ RunTypes' /\ ManifestTypes'
      BY <1>1, Rests DEF TreeTypes, ObjectTypes, BuildTypes, RunTypes, ManifestTypes,
                         prepareVars
    <2>2. CASE Edit
      <3>1. PICK v \in Versions :
              \/ \E field \in {"pin", "checkout", "patches", "trap"} :
                   repo' = [repo EXCEPT ![field] = v]
              \/ \E d \in Deps : repo' = [repo EXCEPT !.inventory[d] = v]
        BY <2>2 DEF Edit
      <3>2. CASE repo' = [repo EXCEPT !.pin = v]
        BY <2>1, <2>2, <3>2 DEF Edit, InputTypes
      <3>3. CASE repo' = [repo EXCEPT !.checkout = v]
        BY <2>1, <2>2, <3>3 DEF Edit, InputTypes
      <3>4. CASE repo' = [repo EXCEPT !.patches = v]
        BY <2>1, <2>2, <3>4 DEF Edit, InputTypes
      <3>5. CASE repo' = [repo EXCEPT !.trap = v]
        BY <2>1, <2>2, <3>5 DEF Edit, InputTypes
      <3>6. CASE \E d \in Deps : repo' = [repo EXCEPT !.inventory[d] = v]
        BY <2>1, <2>2, <3>6 DEF Edit, InputTypes
      <3>7. QED BY <3>1, <3>2, <3>3, <3>4, <3>5, <3>6
    <2>3. CASE PrefixChanges
      BY <2>1, <2>3 DEF PrefixChanges, OneReinstalled, InputTypes, Installed
    <2>4. CASE PrepareRefused
      BY <2>1, <2>4 DEF PrepareRefused, vars, InputTypes
    <2>5. QED BY <1>1, <2>2, <2>3, <2>4 DEF Between
  <1>2. CASE Start
    BY <1>2, Starts DEF InputTypes, TreeTypes, ObjectTypes, BuildTypes, ManifestTypes
  <1>3. CASE Ends
    BY <1>3, Rests, NoRunIsTyped
       DEF InputTypes, TreeTypes, ObjectTypes, BuildTypes, RunTypes, ManifestTypes,
           prepareVars, Unlisted
  <1>4. CASE TreeSteps
    <2>1. InputTypes' /\ ObjectTypes' /\ BuildTypes' /\ RunTypes' /\ ManifestTypes'
      BY <1>4, TreeMoves DEF InputTypes, ObjectTypes, BuildTypes, ManifestTypes
    <2>2. NoTree \in [mark : OrNone(Sources), source : OrNone(Sources), whole : BOOLEAN,
                      ext : Amounts, provenance : BOOLEAN]
      BY DEF NoTree, OrNone, Amounts
    <2>3. Source \in Sources
      BY NowIsTyped
    <2>4. CASE TreeKept
      BY <2>1, <2>4 DEF TreeKept, TreeTypes
    <2>5. CASE TreeClear
      <3>1. CASE tree' = NoTree
        BY <2>1, <2>2, <3>1 DEF TreeTypes
      <3>2. ASSUME NEW ext \in Left(tree.ext), NEW provenance \in {tree.provenance, FALSE},
                   tree' = [tree EXCEPT !.whole = FALSE, !.ext = ext,
                                        !.provenance = provenance]
            PROVE  TreeTypes'
        <4>1. ext \in Amounts /\ provenance \in BOOLEAN
          BY <3>2, LeftIsTyped DEF TreeTypes
        <4> QED BY <3>2, <4>1 DEF TreeTypes
      <3> QED BY <2>1, <2>5, <3>1, <3>2 DEF TreeClear
    <2>6. CASE TreeExtract
      BY <2>1, <2>2, <2>3, <2>6 DEF TreeExtract, TreeTypes, OrNone
    <2>7. CASE TreeMark
      BY <2>1, <2>3, <2>7 DEF TreeMark, TreeFingerprint, TreeTypes, OrNone
    <2>8. QED BY <1>4, <2>4, <2>5, <2>6, <2>7 DEF TreeSteps
  <1>5. CASE Fetches \/ Lists \/ Compiles \/ Builds \/ Others
    <2>1. InputTypes' /\ RunTypes' /\ settled' = settled
      BY <1>5, Proceeds DEF InputTypes
    <2>2. CASE Fetches
      <3>1. TreeTypes'
        BY <2>2 DEF Fetches, ExtensionFetch, ExtensionFetched, BeginExtension, TreeTypes,
                    Amounts
      <3>2. QED
        BY <2>1, <2>2, <3>1 DEF Fetches, ExtensionFetch, ExtensionFetched, ObjectTypes,
                                BuildTypes, ManifestTypes
    <2>3. CASE Lists
      BY <2>1, <2>3 DEF Lists, ListExtensions, Relist, TreeTypes, ObjectTypes, BuildTypes,
                        ManifestTypes
    <2>4. CASE Compiles
      <3>1. ObjectTypes'
        BY <2>4 DEF Compiles, CompilePglitec, CompileTrap, ObjectTypes, InputTypes,
                    TreeTypes, OrNone
      <3>2. QED
        BY <2>1, <2>4, <3>1 DEF Compiles, CompilePglitec, CompileTrap, TreeTypes,
                                BuildTypes, ManifestTypes
    <2>5. CASE Builds
      <3>1. UNCHANGED <<tree, objects, archives, manifest>>
        BY <2>5 DEF Builds, BuildClear, Make, Install, InstallOther, RecordEnvironment
      <3>2. CASE BuildClear
        <4>1. NoBuild \in [env : OrNone(Fingerprints), objs : SUBSET Stamps,
                           inst : SUBSET Stamps, other : Amounts]
          BY DEF NoBuild, OrNone, Amounts
        <4>2. ASSUME NEW objs \in {build.objs, {}}, NEW inst \in {build.inst, {}},
                     NEW other \in Left(build.other),
                     build' = [env |-> build.env, objs |-> objs, inst |-> inst,
                               other |-> other]
              PROVE  BuildTypes'
          <5>1. other \in Amounts /\ objs \subseteq Stamps /\ inst \subseteq Stamps
            BY LeftIsTyped DEF BuildTypes
          <5> QED BY <4>2, <5>1 DEF BuildTypes
        <4>3. BuildTypes'
          BY <3>2, <4>1, <4>2 DEF BuildClear, BuildTypes
        <4>4. QED BY <2>1, <3>1, <4>3 DEF TreeTypes, ObjectTypes, ManifestTypes
      <3>3. CASE Make
        <4>1. PICK objs \in Made(build.objs) : build' = [build EXCEPT !.objs = objs]
          BY <3>3 DEF Make
        <4>2. objs \in SUBSET Stamps
          BY NowIsTyped, MakeMakes DEF BuildTypes
        <4>3. BuildTypes'
          BY <4>1, <4>2 DEF BuildTypes
        <4>4. QED BY <2>1, <3>1, <4>3 DEF TreeTypes, ObjectTypes, ManifestTypes
      <3>4. CASE Install
        <4>1. PICK inst \in Made(build.objs) : build' = [build EXCEPT !.inst = inst]
          BY <3>4 DEF Install
        <4>2. inst \in SUBSET Stamps
          BY NowIsTyped, MakeMakes DEF BuildTypes
        <4>3. BuildTypes'
          BY <4>1, <4>2 DEF BuildTypes
        <4>4. QED BY <2>1, <3>1, <4>3 DEF TreeTypes, ObjectTypes, ManifestTypes
      <3>5. CASE InstallOther
        <4>1. BuildTypes'
          BY <3>5 DEF InstallOther, BuildTypes, TreeTypes
        <4>2. QED BY <2>1, <3>1, <4>1 DEF TreeTypes, ObjectTypes, ManifestTypes
      <3>6. CASE RecordEnvironment
        <4>1. EnvFingerprint \in Fingerprints
          BY <3>6, NowIsTyped DEF RecordEnvironment, At, RunTypes, Unlisted
        <4>2. BuildTypes'
          BY <3>6, <4>1 DEF RecordEnvironment, BuildTypes, OrNone
        <4>3. QED BY <2>1, <3>1, <4>2 DEF TreeTypes, ObjectTypes, ManifestTypes
      <3>7. QED BY <2>5, <3>2, <3>3, <3>4, <3>5, <3>6 DEF Builds
    <2>6. CASE Others
      <3>1. UNCHANGED <<tree, objects, build>>
            /\ archives' \in {archives, build.objs} /\ manifest' \in {manifest, None}
        BY <2>6 DEF Others, ExtensionKept, BuildKept, Archive, TruncateManifest
      <3>2. QED BY <2>1, <3>1 DEF TreeTypes, ObjectTypes, BuildTypes, ManifestTypes, OrNone
    <2>7. QED BY <1>5, <2>2, <2>3, <2>4, <2>5, <2>6
  <1>6. CASE WriteManifest
    <2>1. UNCHANGED <<repo, prefix, tree, objects, build, archives>> /\ RunTypes'
      BY <1>6, Rests, NoRunIsTyped DEF RunTypes, Unlisted
    <2>2. Source \in Sources /\ Described \in Labels /\ run.listed \in Listings
      BY <1>6, NowIsTyped DEF WriteManifest, At, RunTypes, Unlisted
    <2>3. ManifestTypes'
      BY <1>6, <2>2
         DEF WriteManifest, ManifestTypes, ManifestsWritten, OrNone, RunTypes, Modes,
             InputTypes
    <2>4. QED BY <2>1, <2>3 DEF InputTypes, TreeTypes, ObjectTypes, BuildTypes
  <1>7. CASE UNCHANGED vars
    BY <1>7 DEF vars, InputTypes, TreeTypes, ObjectTypes, BuildTypes, RunTypes,
                ManifestTypes
  <1>8. QED
    BY <1>1, <1>2, <1>3, <1>4, <1>5, <1>6, <1>7, AllActions

-------------------------------------------------------------------------------
(* The patched tree and the objects beside the PostgreSQL build            *)

LEMMA SourceStays == UNCHANGED repo => Source' = Source
  BY DEF Source

LEMMA TreeStep ==
  ASSUME Types, TreeIsMarked, [Next]_vars
  PROVE  TreeIsMarked'
  <1> USE DEF TreeIsMarked, Types
  <1>1. CASE Between \/ Ends \/ Start \/ WriteManifest
    <2>1. UNCHANGED tree /\ run'.at \in {"idle", "tree"}
      BY <1>1, Rests, Starts, NoRunIsTyped DEF prepareVars
    <2>2. QED BY <2>1
  <1>2. CASE TreeSteps
    <2>1. UNCHANGED repo /\ Source' = Source
      BY <1>2, TreeMoves, SourceStays
    <2>2. CASE TreeKept
      <3>1. tree.mark = Source /\ UNCHANGED tree
        BY <2>2 DEF TreeKept, TreeFingerprint
      <3>2. Source # None
        BY NowIsTyped, NoneAssumption
      <3>3. QED BY <2>1, <3>1, <3>2
    <2>3. CASE TreeClear
      <3>1. run' = run /\ run.at = "tree"
            /\ \/ \E ext \in Left(tree.ext), provenance \in {tree.provenance, FALSE} :
                    tree' = [tree EXCEPT !.whole = FALSE, !.ext = ext,
                                         !.provenance = provenance]
               \/ tree' = NoTree
        BY <2>3 DEF TreeClear, At
      <3>2. CASE tree' = NoTree
        <4>1. tree'.mark = None /\ ~tree'.provenance
          BY <3>2 DEF NoTree
        <4>2. QED BY <3>1, <4>1
      <3>3. ASSUME NEW ext, NEW provenance,
                   tree' = [tree EXCEPT !.whole = FALSE, !.ext = ext,
                                        !.provenance = provenance]
            PROVE  TreeIsMarked'
        <4>1. tree'.mark = tree.mark /\ tree'.source = tree.source /\ ~tree'.whole
          BY <3>3 DEF TreeTypes
        <4>2. QED BY <3>1, <4>1
      <3>4. QED BY <3>1, <3>2, <3>3
    <2>4. CASE TreeExtract
      <3>1. tree' = [NoTree EXCEPT !.source = Source, !.whole = TRUE]
        BY <2>4 DEF TreeExtract
      <3>2. tree'.mark = None /\ tree'.source = Source /\ ~tree'.provenance
        BY <3>1 DEF NoTree
      <3>3. QED BY <2>1, <3>2
    <2>5. CASE TreeMark
      <3>1. tree' = [tree EXCEPT !.mark = Source] /\ run.at = "mark"
        BY <2>5 DEF TreeMark, TreeFingerprint, At
      <3>2. tree'.source = tree.source /\ tree'.ext = tree.ext
            /\ tree'.provenance = tree.provenance /\ tree'.mark = Source
            /\ tree'.whole = tree.whole
        BY <3>1 DEF TreeTypes
      <3>3. QED BY <2>1, <3>1, <3>2
    <2>6. QED BY <1>2, <2>2, <2>3, <2>4, <2>5 DEF TreeSteps
  <1>3. CASE Fetches \/ Lists \/ Compiles \/ Builds \/ Others
    <2>1. run.at \notin {"idle", "tree"} /\ Source' = Source
      BY <1>3, Proceeds, SourceStays
    <2>2. CASE Fetches
      <3>1. /\ tree'.mark = tree.mark /\ tree'.source = tree.source
            /\ tree'.provenance /\ tree'.whole => tree'.ext = "all"
        BY <2>2 DEF Fetches, ExtensionFetch, ExtensionFetched, BeginExtension, TreeTypes
      <3>2. QED BY <2>1, <3>1
    <2>3. CASE Lists \/ Compiles \/ Builds \/ Others
      <3>1. UNCHANGED tree
        BY <2>3 DEF Lists, Compiles, Builds, Others, ListExtensions, Relist,
                    CompilePglitec, CompileTrap, BuildClear, Make, Install, InstallOther,
                    RecordEnvironment, ExtensionKept, BuildKept, Archive, TruncateManifest
      <3>2. QED BY <2>1, <3>1
    <2>4. QED BY <1>3, <2>2, <2>3
  <1>4. CASE UNCHANGED vars
    BY <1>4 DEF vars, Source
  <1>5. QED BY <1>1, <1>2, <1>3, <1>4, AllActions

LEMMA ObjectsStep ==
  ASSUME Types, TreeIsMarked, ObjectsAreNew, [Next]_vars
  PROVE  ObjectsAreNew'
  <1> USE DEF ObjectsAreNew, Types, Uncompiled, Unlisted, Listing, At
  <1>1. CASE Between \/ Ends \/ Start \/ WriteManifest
    <2>1. run'.at \in {"idle", "tree"}
      BY <1>1, Rests, Starts, NoRunIsTyped
    <2>2. QED BY <2>1
  <1>2. CASE TreeSteps
    <2>1. run'.at \in {"tree", "mark", "list"}
      BY <1>2, TreeMoves
    <2>2. QED BY <2>1
  <1>3. CASE Fetches \/ Lists \/ ExtensionKept
    <2>1. run'.at \in {"provenance", "relist", "materialize", "objects"}
      <3>1. CASE Lists
        BY <3>1 DEF Lists, ListExtensions, Relist, RunTypes
      <3>2. CASE Fetches \/ ExtensionKept
        <4>1. PICK p \in {"provenance", "relist"} : Go(p)
          BY <3>2 DEF Fetches, ExtensionFetch, ExtensionFetched, ExtensionKept
        <4>2. QED BY <4>1, Moves DEF Points
      <3>3. QED BY <1>3, <3>1, <3>2
    <2>2. QED BY <2>1
  <1>4. CASE Compiles
    <2>1. UNCHANGED repo /\ Source' = Source
      BY <1>4, Proceeds, SourceStays
    <2>2. CASE CompilePglitec
      <3>1. run.at = "objects" /\ objects' = [objects EXCEPT !.pglitec = tree.source]
        BY <2>2 DEF CompilePglitec
      <3>2. run'.at = "trap"
        BY <2>2, Moves DEF CompilePglitec, Points
      <3>3. objects'.pglitec = Source
        BY <3>1 DEF ObjectTypes, TreeIsMarked
      <3>4. QED BY <2>1, <3>2, <3>3
    <2>3. CASE CompileTrap
      <3>1. run.at = "trap" /\ objects' = [objects EXCEPT !.trap = repo.trap]
        BY <2>3 DEF CompileTrap
      <3>2. objects'.trap = repo.trap /\ objects'.pglitec = objects.pglitec
        BY <3>1 DEF ObjectTypes
      <3>3. QED BY <2>1, <3>1, <3>2
    <2>4. QED BY <1>4, <2>2, <2>3 DEF Compiles
  <1>5. CASE Builds \/ BuildKept \/ Archive \/ TruncateManifest
    <2>1. /\ UNCHANGED objects
          /\ run.at \notin Uncompiled \cup {"trap"}
      BY <1>5 DEF Builds, BuildClear, Make, Install, InstallOther, RecordEnvironment,
                  BuildKept, Archive, TruncateManifest
    <2>2. UNCHANGED repo /\ Source' = Source
      BY <1>5, Proceeds, SourceStays DEF Others
    <2>3. QED BY <2>1, <2>2
  <1>6. CASE UNCHANGED vars
    BY <1>6 DEF vars, Source
  <1>7. QED BY <1>1, <1>2, <1>3, <1>4, <1>5, <1>6, AllActions DEF Others

-------------------------------------------------------------------------------
(* The PostgreSQL build                                                    *)

\* To agree with the environment's fingerprint is to agree with the inputs.
LEMMA RightIsRecorded == \A s : AgreesWith(EnvFingerprint, s) <=> Right(s)
  BY DEF AgreesWith, EnvFingerprint, Described, Right

\* What is compiled past the listing agrees with the inputs.
LEMMA NowIsRight ==
  ASSUME Types, TreeIsMarked, run.at \notin {"idle", "tree"}
  PROVE  Right(Now) /\ Now \in Stamps
  BY NowIsTyped DEF Types, TreeIsMarked, Right, Now

\* With the inputs unchanged, what agrees with them does so after the step.
LEMMA RightStays ==
  ASSUME UNCHANGED <<repo, prefix>>
  PROVE  /\ \A s : Right(s)' <=> Right(s)
         /\ run'.listed = run.listed /\ run'.mode = run.mode =>
              EnvFingerprint' = EnvFingerprint
  BY DEF Right, Source, EnvFingerprint, Described

\* Until the build is looked at, nothing in it changes.
LEMMA BuildRests ==
  ASSUME BuildIsRecorded, UNCHANGED <<build, archives>>,
         run'.at \notin Making, ~Finishing'
  PROVE  BuildIsRecorded'
  BY DEF BuildIsRecorded, Making

LEMMA BuildStep ==
  ASSUME Types, TreeIsMarked, BuildIsRecorded, [Next]_vars
  PROVE  BuildIsRecorded'
  <1> USE DEF Types, At
  <1>1. CASE Between \/ Ends \/ Start \/ WriteManifest
    <2>1. UNCHANGED <<build, archives>> /\ run'.at \in {"idle", "tree"}
      BY <1>1, Rests, Starts, NoRunIsTyped DEF prepareVars
    <2>2. QED BY <2>1, BuildRests DEF Making, Finishing
  <1>2. CASE TreeSteps
    <2>1. UNCHANGED <<build, archives>> /\ run'.at \in {"tree", "mark", "list"}
      BY <1>2, TreeMoves
    <2>2. QED BY <2>1, BuildRests DEF Making, Finishing
  <1>3. CASE Fetches \/ Lists \/ ExtensionKept \/ CompilePglitec
    <2>1. run'.at \in {"provenance", "relist", "materialize", "objects", "trap"}
      <3>1. CASE Lists
        BY <3>1 DEF Lists, ListExtensions, Relist, RunTypes
      <3>2. CASE Fetches \/ ExtensionKept \/ CompilePglitec
        <4>1. PICK p \in {"provenance", "relist", "trap"} : Go(p)
          BY <3>2 DEF Fetches, ExtensionFetch, ExtensionFetched, ExtensionKept,
                      CompilePglitec
        <4>2. QED BY <4>1, Moves DEF Points
      <3>3. QED BY <1>3, <3>1, <3>2
    <2>2. UNCHANGED <<build, archives>>
      BY <1>3 DEF Fetches, Lists, ExtensionFetch, ExtensionFetched, ExtensionKept,
                  CompilePglitec, ListExtensions, Relist
    <2>3. QED BY <2>1, <2>2, BuildRests DEF Making, Finishing
  <1>4. CASE CompileTrap
    <2>1. UNCHANGED <<build, archives>>
          /\ Go(IF run.mode.postgres THEN "environment" ELSE "manifest")
      BY <1>4 DEF CompileTrap
    <2>2. run'.mode = run.mode
          /\ run'.at = (IF run.mode.postgres THEN "environment" ELSE "manifest")
      BY <2>1, Moves DEF Points
    <2>3. QED BY <2>1, <2>2, BuildRests DEF Making, Finishing
  <1>5. CASE Builds \/ BuildKept \/ Archive \/ TruncateManifest
    <2> USE DEF BuildIsRecorded, Making, Finishing
    <2>1. /\ UNCHANGED <<repo, prefix>> /\ run'.mode = run.mode
          /\ run'.listed = run.listed /\ run.at \notin {"idle", "tree"}
      <3>1. ~Lists
        BY <1>5 DEF Lists, ListExtensions, Relist, Builds, BuildClear, Make, Install,
                    InstallOther, RecordEnvironment, BuildKept, Archive, TruncateManifest
      <3>2. QED BY <1>5, <3>1, Proceeds DEF Others
    <2>2. (\A s : Right(s)' <=> Right(s)) /\ EnvFingerprint' = EnvFingerprint
      BY <2>1, RightStays
    <2>3. Right(Now) /\ Now \in Stamps
      BY <2>1, NowIsRight
    <2>4. EnvFingerprint # None
      <3>1. run.listed \in Listings /\ run.mode \in Modes
        BY <1>5 DEF RunTypes, Unlisted, Builds, BuildClear, Make, Install, InstallOther,
                    RecordEnvironment, BuildKept, Archive, TruncateManifest
      <3>2. QED BY <3>1, NowIsTyped, NoneAssumption
    <2>5. CASE BuildKept
      <3>1. build.env = EnvFingerprint /\ UNCHANGED <<build, archives>> /\ run'.at = "make"
        BY <2>5, Moves DEF BuildKept, Points
      <3>2. \A s \in build.objs \cup build.inst : Right(s)
        BY <2>4, <3>1, RightIsRecorded
      <3>3. QED BY <2>2, <3>1, <3>2
    <2>6. CASE BuildClear
      <3>1. CASE build' = NoBuild /\ Go("make")
        <4>1. build'.env = None /\ build'.objs = {} /\ build'.inst = {}
          BY <3>1 DEF NoBuild
        <4>2. run'.at = "make"
          BY <3>1, Moves DEF Points
        <4>3. QED BY <4>1, <4>2
      <3>2. CASE run' = run
        <4>1. PICK objs \in {build.objs, {}}, inst \in {build.inst, {}},
                   other \in Left(build.other) :
                build' = [env |-> build.env, objs |-> objs, inst |-> inst, other |-> other]
          BY <2>6, <3>2, Moves DEF BuildClear, RunTypes, Points
        <4>2. /\ build'.env = build.env /\ build'.objs \subseteq build.objs
              /\ build'.inst \subseteq build.inst
          BY <4>1
        <4>3. run'.at = "environment"
          BY <2>6, <3>2 DEF BuildClear
        <4>4. QED BY <4>2, <4>3
      <3>3. QED BY <2>6, <3>1, <3>2 DEF BuildClear
    <2>7. CASE Make
      <3>1. PICK objs \in Made(build.objs) : build' = [build EXCEPT !.objs = objs]
        BY <2>7 DEF Make
      <3>2. objs # {} /\ objs \subseteq build.objs \cup {Now}
        BY <2>3, MakeMakes DEF BuildTypes
      <3>3. build'.objs = objs /\ build'.inst = build.inst /\ build'.env = build.env
        BY <3>1 DEF BuildTypes
      <3>4. run.at = "make" /\ run'.at = "archive" /\ UNCHANGED archives
        BY <2>7, Moves DEF Make, Points
      <3>5. \A s \in build'.objs \cup build'.inst : Right(s)
        BY <2>3, <3>2, <3>3, <3>4
      <3>6. build.env # None => \A s \in build'.objs \cup build'.inst : AgreesWith(build.env, s)
        BY <3>4, <3>5, RightIsRecorded
      <3>7. QED BY <2>2, <3>2, <3>3, <3>4, <3>5, <3>6
    <2>8. CASE Archive
      <3>1. run.at = "archive" /\ run'.at = "install" /\ UNCHANGED build
            /\ archives' = build.objs
        BY <2>8, Moves DEF Archive, Points
      <3>2. QED BY <2>2, <3>1
    <2>9. CASE Install
      <3>1. PICK inst \in Made(build.objs) : build' = [build EXCEPT !.inst = inst]
        BY <2>9 DEF Install
      <3>2. inst # {} /\ inst \subseteq build.objs \cup {Now}
        BY <2>3, MakeMakes DEF BuildTypes
      <3>3. build'.objs = build.objs /\ build'.inst = inst /\ build'.env = build.env
        BY <3>1 DEF BuildTypes
      <3>4. run.at = "install" /\ run'.at \in {"other", "record"} /\ UNCHANGED archives
        BY <2>9, Moves DEF Install, Points
      <3>5. \A s \in build'.objs \cup build'.inst : Right(s)
        BY <2>3, <3>2, <3>3, <3>4
      <3>6. build.env # None => \A s \in build'.objs \cup build'.inst : AgreesWith(build.env, s)
        BY <3>4, <3>5, RightIsRecorded
      <3>7. QED BY <2>2, <3>2, <3>3, <3>4, <3>5, <3>6
    <2>10. CASE InstallOther
      <3>1. build'.objs = build.objs /\ build'.inst = build.inst /\ build'.env = build.env
        BY <2>10 DEF InstallOther, BuildTypes
      <3>2. run.at = "other" /\ run'.at = "record" /\ UNCHANGED archives
        BY <2>10, Moves DEF InstallOther, Points
      <3>3. QED BY <2>2, <3>1, <3>2
    <2>11. CASE RecordEnvironment
      <3>1. build'.objs = build.objs /\ build'.inst = build.inst
            /\ build'.env = EnvFingerprint
        BY <2>11 DEF RecordEnvironment, BuildTypes
      <3>2. run.at = "record" /\ run'.at = "manifest" /\ UNCHANGED archives
        BY <2>11, Moves DEF RecordEnvironment, Points
      <3>3. \A s \in build'.objs \cup build'.inst : AgreesWith(EnvFingerprint, s)
        BY <3>1, <3>2, RightIsRecorded
      <3>4. QED BY <2>2, <3>1, <3>2, <3>3
    <2>12. CASE TruncateManifest
      <3>1. run.at = "manifest" /\ run'.at = "write" /\ UNCHANGED <<build, archives>>
        BY <2>12, Moves DEF TruncateManifest, Points
      <3>2. QED BY <2>1, <2>2, <3>1
    <2>13. QED
      BY <1>5, <2>5, <2>6, <2>7, <2>8, <2>9, <2>10, <2>11, <2>12 DEF Builds
  <1>6. CASE UNCHANGED vars
    <2>1. UNCHANGED <<repo, prefix, run, build, archives>>
      BY <1>6 DEF vars
    <2>2. QED BY <2>1, RightStays DEF BuildIsRecorded, Finishing
  <1>7. QED BY <1>1, <1>2, <1>3, <1>4, <1>5, <1>6, AllActions DEF Others, Compiles

-------------------------------------------------------------------------------
(* The other extensions                                                    *)

LEMMA PresentStep ==
  ASSUME Types, TreeIsMarked, PresentIsInstalled, [Next]_vars
  PROVE  PresentIsInstalled'
  <1> USE DEF Types, At, PresentIsInstalled, Unlisted, Listing, Finishing
  <1>1. CASE Between \/ Ends \/ Start \/ WriteManifest
    <2>1. run'.at \in {"idle", "tree"}
      BY <1>1, Rests, Starts, NoRunIsTyped
    <2>2. QED BY <2>1
  <1>2. CASE TreeSteps
    <2>1. run'.at \in {"tree", "mark", "list"}
      BY <1>2, TreeMoves
    <2>2. QED BY <2>1
  <1>3. CASE ListExtensions
    <2>1. run'.at \in {"materialize", "objects"} /\ ~run'.listed.present
      BY <1>3 DEF ListExtensions, RunTypes
    <2>2. QED BY <2>1
  <1>4. CASE ExtensionKept \/ Fetches
    <2>1. run.at \in Listing /\ run'.at \in {"provenance", "relist"}
          /\ run'.listed = run.listed
      <3>1. PICK p \in {"provenance", "relist"} : Go(p) /\ run.at \in Listing
        BY <1>4 DEF Fetches, ExtensionFetch, ExtensionFetched, ExtensionKept
      <3>2. QED BY <3>1, Moves DEF Points
    <2>2. run'.at = "relist" /\ tree'.whole => tree'.ext = "all"
      <3>1. CASE ExtensionKept
        BY <3>1 DEF ExtensionKept, TreeIsMarked
      <3>2. CASE ExtensionFetch
        BY <3>2, Moves DEF ExtensionFetch, Points
      <3>3. CASE ExtensionFetched
        BY <3>3 DEF ExtensionFetched, TreeTypes
      <3>4. QED BY <1>4, <3>1, <3>2, <3>3 DEF Fetches
    <2>3. QED BY <2>1, <2>2
  <1>5. CASE Relist
    <2>1. run.at = "relist" /\ run'.at = "objects" /\ UNCHANGED tree
      BY <1>5 DEF Relist, RunTypes
    <2>2. QED BY <2>1
  <1>6. CASE CompileTrap
    <2>1. UNCHANGED tree /\ run.at = "trap"
          /\ Go(IF run.mode.postgres THEN "environment" ELSE "manifest")
      BY <1>6 DEF CompileTrap
    <2>2. run'.mode = run.mode /\ run'.listed = run.listed
          /\ run'.at = (IF run.mode.postgres THEN "environment" ELSE "manifest")
      BY <2>1, Moves DEF Points
    <2>3. QED BY <2>1, <2>2
  <1>7. CASE CompilePglitec \/ Builds \/ BuildKept \/ Archive \/ TruncateManifest
    <2>1. UNCHANGED tree /\ run.at \notin Unlisted \cup Listing \cup {"trap"}
      BY <1>7 DEF CompilePglitec, Builds, BuildClear, Make, Install, InstallOther,
                  RecordEnvironment, BuildKept, Archive, TruncateManifest
    <2>2. run'.mode = run.mode /\ run'.listed = run.listed
      <3>1. ~Lists
        BY <1>7 DEF Lists, ListExtensions, Relist, CompilePglitec, Builds, BuildClear,
                    Make, Install, InstallOther, RecordEnvironment, BuildKept, Archive,
                    TruncateManifest
      <3>2. QED BY <1>7, <3>1, Proceeds DEF Others, Compiles
    <2>3. CASE Install
      <3>1. run'.at = IF run.mode.other THEN "other" ELSE "record"
        BY <2>3, Moves DEF Install, Points
      <3>2. QED BY <2>1, <2>2, <3>1
    <2>4. CASE InstallOther
      <3>1. run'.at = "record" /\ (run.listed.present => build' = [build EXCEPT !.other = tree.ext])
        BY <2>4, Moves DEF InstallOther, Points
      <3>2. run.listed.present /\ tree.whole => build'.other = "all"
        BY <2>1, <3>1 DEF BuildTypes
      <3>3. QED BY <2>1, <2>2, <3>1, <3>2
    <2>5. CASE RecordEnvironment
      <3>1. run.at = "record" /\ run'.at = "manifest" /\ build'.other = build.other
        BY <2>5, Moves DEF RecordEnvironment, Points, BuildTypes
      <3>2. QED BY <2>1, <2>2, <3>1
    <2>6. CASE TruncateManifest
      <3>1. run.at = "manifest" /\ run'.at = "write" /\ UNCHANGED build
        BY <2>6, Moves DEF TruncateManifest, Points
      <3>2. QED BY <2>1, <2>2, <3>1
    <2>7. CASE CompilePglitec \/ BuildClear \/ Make \/ BuildKept \/ Archive
      <3>1. run'.at \in {"trap", "environment", "make", "archive", "install"}
        <4>1. \/ run' = run /\ run.at = "environment"
              \/ \E p \in {"trap", "make", "archive", "install"} : Go(p)
          BY <2>7 DEF CompilePglitec, BuildClear, Make, BuildKept, Archive
        <4>2. QED BY <4>1, Moves DEF Points
      <3>2. QED BY <2>1, <2>2, <3>1
    <2>8. QED BY <1>7, <2>3, <2>4, <2>5, <2>6, <2>7 DEF Builds
  <1>8. CASE UNCHANGED vars
    BY <1>8 DEF vars
  <1>9. QED
    BY <1>1, <1>2, <1>3, <1>4, <1>5, <1>6, <1>7, <1>8, AllActions
       DEF Others, Compiles, Lists

-------------------------------------------------------------------------------
(* What is settled                                                         *)

\* As long as nothing is made, what is settled stays so.
LEMMA SettledStays ==
  ASSUME SettledBuildIsOfOneVersion, PresentExtensionsAreComplete,
         UNCHANGED prepareVars \/ settled' = FALSE
  PROVE  SettledBuildIsOfOneVersion' /\ PresentExtensionsAreComplete'
  BY DEF SettledBuildIsOfOneVersion, PresentExtensionsAreComplete, prepareVars, AgreesWith

LEMMA SettledStep ==
  ASSUME IInv, [Next]_vars
  PROVE  SettledAtRest' /\ SettledBuildIsOfOneVersion' /\ PresentExtensionsAreComplete'
  <1> USE DEF IInv, Types, SettledAtRest
  <1>1. CASE Between \/ Ends
    <2>1. UNCHANGED prepareVars /\ run'.at = "idle"
      BY <1>1, Rests, NoRunIsTyped
    <2>2. QED BY <2>1, SettledStays
  <1>2. CASE Start
    <2>1. settled' = FALSE
      BY <1>2, Starts
    <2>2. QED BY <2>1, SettledStays
  <1>3. CASE TreeSteps \/ Fetches \/ Lists \/ Compiles \/ Builds \/ Others
    <2>1. settled' = settled /\ run.at # "idle"
      BY <1>3, TreeMoves, Proceeds
    <2>2. settled' = FALSE
      BY <2>1 DEF ManifestTypes
    <2>3. QED BY <2>2, SettledStays
  <1>4. CASE WriteManifest
    <2>1. UNCHANGED <<repo, prefix, tree, objects, build, archives>> /\ run'.at = "idle"
      BY <1>4, Rests, NoRunIsTyped
    <2>2. /\ run.at = "write"
          /\ manifest' = [postgres |-> run.mode.postgres, source |-> Source,
                          trap |-> repo.trap, prefix |-> Described,
                          listed |-> run.listed, other |-> run.mode.other]
      BY <1>4 DEF WriteManifest, At
    <2>3. /\ manifest'.postgres = run.mode.postgres /\ manifest'.source = Source
          /\ manifest'.trap = repo.trap /\ manifest'.prefix = Described
          /\ manifest'.listed = run.listed /\ manifest'.other = run.mode.other
      BY <2>2
    <2>4. objects = [pglitec |-> Source, trap |-> repo.trap]
      BY <2>2 DEF ObjectsAreNew, ObjectTypes, Uncompiled, Unlisted, Listing
    <2>5. \A s : Right(s) <=> AgreesWith(manifest', s)
      BY <2>3 DEF Right, AgreesWith, Described
    <2>6. run.mode.postgres =>
            /\ archives # {} /\ build.inst # {}
            /\ \A s \in archives \cup build.inst : AgreesWith(manifest', s)
      BY <2>2, <2>5 DEF BuildIsRecorded, Finishing
    <2>7. SettledBuildIsOfOneVersion'
      BY <2>1, <2>3, <2>4, <2>6 DEF SettledBuildIsOfOneVersion, AgreesWith
    <2>8. PresentExtensionsAreComplete'
      BY <2>1, <2>2, <2>3 DEF PresentExtensionsAreComplete, PresentIsInstalled, Finishing
    <2>9. QED BY <2>1, <2>7, <2>8
  <1>5. CASE UNCHANGED vars
    <2>1. UNCHANGED prepareVars /\ run' = run
      BY <1>5 DEF vars, prepareVars
    <2>2. SettledAtRest'
      BY <2>1 DEF prepareVars
    <2>3. QED BY <2>1, <2>2, SettledStays
  <1>6. QED BY <1>1, <1>2, <1>3, <1>4, <1>5, AllActions

LEMMA Initially == Init => IInv
  <1> SUFFICES ASSUME Init PROVE IInv
    OBVIOUS
  <1>1. InputTypes
    <2>1. PICK v \in Versions :
            repo = [pin |-> v, checkout |-> v, patches |-> v, trap |-> v,
                    inventory |-> [d \in Deps |-> v]]
      BY DEF Init
    <2>2. PICK w \in Versions :
            prefix = [d \in Deps |-> [lib |-> w, pc |-> IF d \in Probed THEN w ELSE None]]
      BY DEF Init
    <2>3. prefix \in [Deps -> Installed]
      BY <2>2 DEF Installed, OrNone
    <2>4. QED BY <2>1, <2>3 DEF InputTypes
  <1>2. TreeTypes /\ ObjectTypes /\ BuildTypes /\ ManifestTypes
    BY DEF Init, TreeTypes, ObjectTypes, BuildTypes, ManifestTypes, NoTree, NoBuild, OrNone,
           Amounts
  <1>3. RunTypes /\ run.at = "idle"
    BY NoRunIsTyped DEF Init, RunTypes, Unlisted
  <1>4. tree.mark = None /\ ~tree.provenance /\ build.env = None /\ ~settled
    BY DEF Init, NoTree, NoBuild
  <1>5. TreeIsMarked /\ ObjectsAreNew
    BY <1>3, <1>4 DEF TreeIsMarked, ObjectsAreNew, Uncompiled, Unlisted
  <1>6. BuildIsRecorded /\ PresentIsInstalled
    BY <1>3, <1>4 DEF BuildIsRecorded, PresentIsInstalled, Making, Finishing, Unlisted,
                      Listing
  <1>7. SettledAtRest /\ SettledBuildIsOfOneVersion /\ PresentExtensionsAreComplete
    BY <1>4 DEF SettledAtRest, SettledBuildIsOfOneVersion, PresentExtensionsAreComplete
  <1>8. QED BY <1>1, <1>2, <1>3, <1>5, <1>6, <1>7 DEF IInv, Types

LEMMA Invariance == Spec => []IInv
  <1>1. IInv /\ [Next]_vars => IInv'
    BY TypeStep, TreeStep, ObjectsStep, BuildStep, PresentStep, SettledStep DEF IInv
  <1>2. QED BY Initially, <1>1, PTL DEF Spec

\* What the preparation keeps from run to run has its type.
THEOREM BuildTypesHold == Spec => []TypeOK
  <1>1. IInv => TypeOK
    BY DEF IInv, Types, InputTypes, TreeTypes, ObjectTypes, BuildTypes, RunTypes,
           ManifestTypes, ManifestsWritten, Amounts, TypeOK
  <1>2. QED BY Invariance, <1>1, PTL

(***************************************************************************)
(* However often the inputs change and runs are killed, and whatever is    *)
(* kept of earlier ones: after a prepare that came to its end, everything  *)
(* that can be linked or is installed was compiled from the source, trap   *)
(* and dependencies that the manifest names                                *)
(* (prepare-native-pglite-link.sh:187-202, 613-636, 782).                  *)
(***************************************************************************)
THEOREM OneVersion == Spec => []SettledBuildIsOfOneVersion
  <1>1. IInv => SettledBuildIsOfOneVersion
    BY DEF IInv
  <1>2. QED BY Invariance, <1>1, PTL

(***************************************************************************)
(* An extension the manifest calls present was installed from its complete *)
(* source, wherever earlier fetches broke off, in a tree from which no     *)
(* clear that was cut off has removed anything                             *)
(* (materialize-native-pglite-other-extensions.py:97-115).                 *)
(***************************************************************************)
THEOREM CompleteExtensions == Spec => []PresentExtensionsAreComplete
  <1>1. IInv => PresentExtensionsAreComplete
    BY DEF IInv
  <1>2. QED BY Invariance, <1>1, PTL
-------------------------------------------------------------------------------
(***************************************************************************)
(* The dependency prefix, which DependencyPrefix makes and the preparation *)
(* is given: the two modules share prefix, and run one after the other.    *)
(***************************************************************************)
Cached == [head : Versions \cup {None, Unborn}, whole : BOOLEAN]
Kept == [lib : OrNone(Versions), pc : OrNone(Versions)]
Makings ==
  [at : {"idle", "fetch", "checkout", "clear", "step", "installing"},
   dep : 0..(Len(DepOrder) + 1), only : OrNone(Deps), verify : BOOLEAN]

PrefixTypes ==
  /\ pinned \in [Deps -> Versions] /\ cache \in [Deps -> Cached]
  /\ prefix \in [Deps -> Kept] /\ making \in Makings

IsPinned(d) ==
  prefix[d].lib = pinned[d] /\ (d \in Probed => prefix[d].pc = pinned[d])

\* Where the script is in the inventory.
DepIsThere ==
  /\ making.at # "idle" => making.dep \in 1..(Len(DepOrder) + 1)
  /\ making.at \in {"checkout", "installing"} => making.dep \in 1..Len(DepOrder)
  /\ making.at = "clear" => making.dep = 1

\* The sources are fetched in the order of the inventory, and then all are there.
SourcesArePinned ==
  /\ making.at \in {"fetch", "checkout"} =>
       \A i \in 1..Len(DepOrder) :
         i < making.dep => cache[DepOrder[i]].head = pinned[DepOrder[i]]
  /\ making.at \in {"clear", "step", "installing"} =>
       \A d \in Deps : cache[d].head = pinned[d]

\* A full run installs in that order, too.
InstalledArePinned ==
  making.at \in {"step", "installing"} /\ making.only = None =>
    \A i \in 1..Len(DepOrder) : i < making.dep => IsPinned(DepOrder[i])

\* A library that is not probed has no package.
UnprobedHaveNone == \A d \in Deps \ Probed : prefix[d].pc = None

PrefixInv ==
  /\ PrefixTypes /\ DepIsThere /\ SourcesArePinned /\ InstalledArePinned
  /\ UnprobedHaveNone

\* The inventory is a list of the dependencies.
LEMMA InventoryLength ==
  Len(DepOrder) \in Nat
  BY DependencyPrefixAssumption

LEMMA InventoryIsList ==
  /\ \A i \in 1..Len(DepOrder) : DepOrder[i] \in Deps
  /\ \A d \in Deps : \E i \in 1..Len(DepOrder) : d = DepOrder[i]
  BY DependencyPrefixAssumption

LEMMA InitPrefix ==
  ASSUME PrefixInit PROVE PrefixInv
  <1> USE DEF PrefixInit, NotMaking
  <1>1. PrefixTypes
    BY InventoryLength DEF PrefixTypes, Cached, Kept, Makings, OrNone
  <1>2. DepIsThere /\ SourcesArePinned /\ InstalledArePinned /\ UnprobedHaveNone
    BY DEF DepIsThere, SourcesArePinned, InstalledArePinned, UnprobedHaveNone
  <1> QED BY <1>1, <1>2 DEF PrefixInv

\* A step that ends the run, or one between two runs, needs no care.
LEMMA PrefixRests ==
  ASSUME PrefixInv,
         making' = NotMaking \/ (making.at = "idle" /\ making' = making),
         cache' = cache, prefix' = prefix, pinned' \in [Deps -> Versions]
  PROVE  PrefixInv'
  <1>1. making' \in Makings /\ making'.at = "idle"
    <2>1. Len(DepOrder) \in Nat
      BY InventoryLength
    <2>2. NotMaking \in Makings /\ NotMaking.at = "idle"
      BY <2>1 DEF NotMaking, Makings, OrNone
    <2> QED BY <2>2 DEF PrefixInv, PrefixTypes
  <1>2. PrefixTypes' /\ UnprobedHaveNone'
    BY <1>1 DEF PrefixInv, PrefixTypes, UnprobedHaveNone
  <1> QED BY <1>1, <1>2 DEF PrefixInv, DepIsThere, SourcesArePinned, InstalledArePinned

\* The next dependency is taken.
LEMMA NextDepMoves ==
  ASSUME PrefixInv, NextDep,
         making.dep \in 1..Len(DepOrder)
  PROVE  /\ making'.at = IF making.at \in {"step", "installing"} THEN "step" ELSE "fetch"
         /\ making'.dep = making.dep + 1 /\ making'.only = making.only
         /\ making' \in Makings /\ DepIsThere'
  <1>1. making \in Makings
    BY DEF PrefixInv, PrefixTypes
  <1>2. making.dep + 1 \in 1..(Len(DepOrder) + 1) /\ making.dep + 1 \in 0..(Len(DepOrder) + 1)
    BY InventoryLength
  <1>3. /\ making'.at = IF making.at \in {"step", "installing"} THEN "step" ELSE "fetch"
        /\ making'.dep = making.dep + 1 /\ making'.only = making.only
        /\ making' \in Makings
    BY <1>1, <1>2 DEF NextDep, Makings
  <1> QED BY <1>2, <1>3 DEF DepIsThere

LEMMA FetchKeeps ==
  ASSUME PrefixInv,
         FetchFound \/ FetchArchive \/ FetchClear \/ FetchInit
         \/ FetchCheckout
  PROVE  PrefixInv'
  <1> DEFINE d == DepOrder[making.dep]
  <1>1. /\ making.at \in {"fetch", "checkout"} /\ making.dep \in 1..Len(DepOrder)
        /\ d \in Deps /\ Dep = d
        /\ UNCHANGED <<pinned, prefix>>
    BY InventoryIsList
    DEF PrefixInv, DepIsThere, FetchFound, FetchArchive, FetchClear,
        FetchInit, FetchCheckout, Refetching, Fetching, MakingAt,
        Dep, PrefixTypes, Makings
  <1>2. /\ pinned[d] \in Versions
        /\ cache \in [Deps -> Cached]
    BY <1>1 DEF PrefixInv, PrefixTypes
  <1>3. UnprobedHaveNone'
    BY <1>1 DEF PrefixInv, UnprobedHaveNone
  <1>4. ASSUME \/ cache' = cache /\ cache[d].head = pinned[d]
               \/ cache' = [cache EXCEPT ![d] = [head |-> pinned[d], whole |-> TRUE]],
               NextDep
        PROVE  PrefixInv'
    <2>1. /\ making'.at = "fetch" /\ making'.dep = making.dep + 1 /\ making' \in Makings
          /\ DepIsThere'
      BY <1>1, <1>4, NextDepMoves
    <2>2. cache' \in [Deps -> Cached] /\ cache'[d].head = pinned[d]
      <3>1. [head |-> pinned[d], whole |-> TRUE] \in Cached
        BY <1>2 DEF Cached
      <3>2. CASE cache' = cache /\ cache[d].head = pinned[d]
        BY <1>2, <3>2
      <3>3. CASE cache' = [cache EXCEPT ![d] = [head |-> pinned[d], whole |-> TRUE]]
        BY <1>1, <1>2, <3>1, <3>3
      <3> QED BY <1>4, <3>2, <3>3
    <2>3. \A e \in Deps : cache[e].head = pinned[e] => cache'[e].head = pinned[e]
      BY <1>1, <1>2, <1>4
    <2>4. SourcesArePinned'
      <3>1. ASSUME NEW i \in 1..Len(DepOrder), i < making.dep + 1
            PROVE  cache'[DepOrder[i]].head = pinned[DepOrder[i]]
        <4>1. CASE i = making.dep
          BY <2>2, <4>1
        <4>2. CASE i < making.dep
          BY <1>1, <2>3, <4>2, InventoryIsList DEF PrefixInv, SourcesArePinned
        <4> QED BY <1>1, <3>1, <4>1, <4>2, InventoryLength
      <3> QED BY <1>1, <2>1, <3>1 DEF SourcesArePinned
    <2> QED BY <1>1, <1>3, <2>1, <2>2, <2>4
        DEF PrefixInv, PrefixTypes, InstalledArePinned
  <1>5. ASSUME cache[d].head # pinned[d], making.at = "fetch", 
               \E c \in Cached : cache' = [cache EXCEPT ![d] = c],
               making' = making \/ making' = [making EXCEPT !.at = "checkout"]
        PROVE  PrefixInv'
    <2>1. /\ making'.at \in {"fetch", "checkout"} /\ making'.dep = making.dep /\ making' \in Makings
      BY <1>1, <1>5 DEF PrefixInv, PrefixTypes, Makings
    <2>2. cache' \in [Deps -> Cached]
      BY <1>1, <1>2, <1>5
    <2>3. SourcesArePinned'
      <3>1. ASSUME NEW i \in 1..Len(DepOrder), i < making.dep
            PROVE  cache'[DepOrder[i]].head = pinned[DepOrder[i]]
        <4>1. cache[DepOrder[i]].head = pinned[DepOrder[i]] /\ DepOrder[i] \in Deps
          BY <1>5, <3>1, InventoryIsList DEF PrefixInv, SourcesArePinned
        <4>2. DepOrder[i] # d
          BY <1>5, <4>1
        <4> QED BY <1>2, <1>5, <4>1, <4>2
      <3> QED BY <1>1, <2>1, <3>1 DEF SourcesArePinned
    <2> QED BY <1>1, <1>3, <2>1, <2>2, <2>3, InventoryLength
        DEF PrefixInv, PrefixTypes, DepIsThere, InstalledArePinned
  <1>6. CASE FetchFound
    BY <1>1, <1>4, <1>6 DEF FetchFound, CacheIsGood
  <1>7. CASE FetchArchive \/ FetchCheckout
    BY <1>1, <1>4, <1>7 DEF FetchArchive, FetchCheckout
  <1>8. CASE FetchClear
    <2>1. /\ cache[d].head # pinned[d] /\ making.at = "fetch" /\ making' = making
          /\ \/ cache' = [cache EXCEPT ![d].whole = FALSE]
             \/ cache' = [cache EXCEPT ![d] = [head |-> None, whole |-> FALSE]]
      BY <1>1, <1>8 DEF FetchClear, Refetching, Fetching, MakingAt, CacheIsGood
    <2>2. \/ cache' = [cache EXCEPT ![d] = [cache[d] EXCEPT !.whole = FALSE]]
          \/ cache' = [cache EXCEPT ![d] = [head |-> None, whole |-> FALSE]]
      BY <2>1
    <2>3. /\ [cache[d] EXCEPT !.whole = FALSE] \in Cached
          /\ [head |-> None, whole |-> FALSE] \in Cached
      BY <1>1, <1>2 DEF Cached
    <2> QED BY <1>5, <2>1, <2>2, <2>3
  <1>9. CASE FetchInit
    <2>1. /\ cache[d].head # pinned[d] /\ making.at = "fetch"
          /\ making' = [making EXCEPT !.at = "checkout"]
          /\ cache' = [cache EXCEPT ![d].head = Unborn]
      BY <1>1, <1>9 DEF FetchInit, Refetching, Fetching, MakingAt,
                        CacheIsGood, MakingGoes
    <2>2. [cache[d] EXCEPT !.head = Unborn] \in Cached
      BY <1>1, <1>2 DEF Cached
    <2>3. cache' = [cache EXCEPT ![d] = [cache[d] EXCEPT !.head = Unborn]]
      BY <2>1
    <2> QED BY <1>5, <2>1, <2>2, <2>3
  <1> QED BY <1>6, <1>7, <1>8, <1>9

\* All sources are there.
LEMMA FetchDoneKeeps ==
  ASSUME PrefixInv, FetchDone PROVE PrefixInv'
  <1>1. /\ making.at = "fetch" /\ making.dep = Len(DepOrder) + 1
        /\ UNCHANGED <<pinned, cache, prefix>>
    BY InventoryLength DEF PrefixInv, DepIsThere, FetchDone, MakingAt
  <1>2. /\ making'.at \in {"clear", "step"} /\ making'.dep = 1
        /\ making'.only = making.only /\ making' \in Makings
    <2>1. making' = [making EXCEPT !.at = IF making.only = None THEN "clear" ELSE "step",
                                   !.dep = 1]
      BY DEF FetchDone
    <2>2. 1 \in 0..(Len(DepOrder) + 1) /\ making \in Makings
      BY InventoryLength DEF PrefixInv, PrefixTypes
    <2> QED BY <2>1, <2>2 DEF Makings
  <1>3. SourcesArePinned'
    <2>1. \A d \in Deps : cache[d].head = pinned[d]
      BY <1>1, InventoryIsList DEF PrefixInv, SourcesArePinned
    <2> QED BY <1>1, <1>2, <2>1 DEF SourcesArePinned
  <1>4. InstalledArePinned' /\ DepIsThere' /\ UnprobedHaveNone'
    BY <1>1, <1>2, InventoryLength
    DEF PrefixInv, InstalledArePinned, DepIsThere, UnprobedHaveNone
  <1> QED BY <1>1, <1>2, <1>3, <1>4 DEF PrefixInv, PrefixTypes

\* What is cleared is no package of a library that has none.
LEMMA ClearKeeps ==
  ASSUME PrefixInv, PrefixClear PROVE PrefixInv'
  <1>1. making.at = "clear" /\ UNCHANGED <<pinned, cache>>
    BY DEF PrefixClear, MakingAt
  <1>2. CASE \E d \in Deps, part \in {"lib", "pc"} :
               prefix' = [prefix EXCEPT ![d][part] = None] /\ making' = making
    <2>1. PICK d \in Deps, part \in {"lib", "pc"} :
            prefix' = [prefix EXCEPT ![d] = [prefix[d] EXCEPT ![part] = None]] /\ making' = making
      BY <1>2
    <2>2. prefix' \in [Deps -> Kept] /\ UnprobedHaveNone'
      BY <2>1 DEF PrefixInv, PrefixTypes, Kept, OrNone, UnprobedHaveNone
    <2> QED BY <1>1, <2>1, <2>2
        DEF PrefixInv, PrefixTypes, SourcesArePinned, InstalledArePinned, DepIsThere
  <1>3. CASE prefix' = prefix /\ making' = [making EXCEPT !.at = "step"]
    <2>1. /\ making'.at = "step" /\ making'.dep = making.dep /\ making'.only = making.only
          /\ making' \in Makings
      BY <1>3 DEF PrefixInv, PrefixTypes, Makings
    <2>2. making.dep = 1
      BY <1>1 DEF PrefixInv, DepIsThere
    <2> QED BY <1>1, <1>3, <2>1, <2>2, InventoryLength
        DEF PrefixInv, PrefixTypes, SourcesArePinned, InstalledArePinned, DepIsThere,
            UnprobedHaveNone
  <1> QED BY <1>2, <1>3 DEF PrefixClear

\* One dependency is built and installed from its source, which is the pinned one.
LEMMA InstallKeeps ==
  ASSUME PrefixInv,
         DepSkipped \/ DepBuilt \/ DepInstalled
  PROVE  PrefixInv'
  <1> DEFINE d == DepOrder[making.dep]
  <1>1. /\ making.at \in {"step", "installing"} /\ making.dep \in 1..Len(DepOrder)
        /\ d \in Deps /\ Dep = d
        /\ UNCHANGED <<pinned, cache>>
    BY InventoryIsList
    DEF PrefixInv, DepIsThere, DepSkipped, DepBuilt, DepInstalled,
        Step, MakingAt, Dep, PrefixTypes, Makings
  <1>2. cache[d].head = pinned[d] /\ pinned[d] \in Versions /\ prefix \in [Deps -> Kept]
    BY <1>1 DEF PrefixInv, PrefixTypes, SourcesArePinned
  <1>3. CASE DepSkipped
    <2>1. /\ making'.at = "step" /\ making'.only = making.only /\ making'.dep = making.dep + 1
          /\ making' \in Makings /\ DepIsThere' /\ prefix' = prefix /\ making.only # None
      BY <1>1, <1>3, NextDepMoves DEF DepSkipped, Wanted, Step, MakingAt
    <2>2. SourcesArePinned' /\ InstalledArePinned' /\ UnprobedHaveNone'
      BY <1>1, <2>1 DEF PrefixInv, SourcesArePinned, InstalledArePinned, UnprobedHaveNone
    <2> QED BY <1>1, <2>1, <2>2 DEF PrefixInv, PrefixTypes
  <1>4. CASE DepBuilt
    <2>1. PICK part \in IF d \in Probed THEN {"lib", "pc"} ELSE {"lib"} :
            prefix' = [prefix EXCEPT ![d] = [prefix[d] EXCEPT ![part] = pinned[d]]]
      BY <1>1, <1>2, <1>4 DEF DepBuilt
    <2>2. making' = [making EXCEPT !.at = "installing"]
      BY <1>4 DEF DepBuilt, MakingGoes
    <2>3. /\ making'.at = "installing" /\ making'.only = making.only
          /\ making'.dep = making.dep /\ making' \in Makings
      BY <2>2 DEF PrefixInv, PrefixTypes, Makings
    <2>4. prefix' \in [Deps -> Kept] /\ UnprobedHaveNone'
      BY <1>1, <1>2, <2>1 DEF PrefixInv, Kept, OrNone, UnprobedHaveNone
    <2>5. \A e \in Deps : IsPinned(e) => IsPinned(e)'
      BY <1>1, <1>2, <2>1 DEF IsPinned, Kept
    <2>6. PrefixTypes' /\ DepIsThere' /\ SourcesArePinned'
      <3> HIDE DEF d
      <3> QED BY <1>1, <2>3, <2>4 DEF PrefixInv, PrefixTypes, SourcesArePinned, DepIsThere
    <2>7. InstalledArePinned'
      <3>1. ASSUME making.only = None, NEW i \in 1..Len(DepOrder), i < making.dep
            PROVE  IsPinned(DepOrder[i])'
        <4>1. IsPinned(DepOrder[i]) /\ DepOrder[i] \in Deps
          BY <1>1, <3>1, InventoryIsList DEF PrefixInv, InstalledArePinned
        <4> QED BY <2>5, <4>1
      <3> QED BY <2>3, <3>1 DEF InstalledArePinned
    <2> QED BY <2>4, <2>6, <2>7 DEF PrefixInv
  <1>5. CASE DepInstalled
    <2>1. prefix' = [prefix EXCEPT ![d] = [lib |-> pinned[d],
                                           pc |-> IF d \in Probed THEN pinned[d] ELSE None]]
      BY <1>1, <1>2, <1>5 DEF DepInstalled, InstalledDep
    <2>2. /\ making'.at = "step" /\ making'.only = making.only /\ making'.dep = making.dep + 1
          /\ making' \in Makings /\ DepIsThere'
      BY <1>1, <1>5, NextDepMoves DEF DepInstalled
    <2>3. prefix' \in [Deps -> Kept] /\ UnprobedHaveNone'
      BY <1>1, <1>2, <2>1 DEF PrefixInv, Kept, OrNone, UnprobedHaveNone
    <2>4. /\ prefix'[d].lib = pinned[d] /\ (d \in Probed => prefix'[d].pc = pinned[d])
          /\ \A e \in Deps : IsPinned(e) => IsPinned(e)'
      <3> HIDE DEF d
      <3> QED BY <1>1, <1>2, <2>1 DEF IsPinned, Kept
    <2>5. InstalledArePinned'
      <3>1. ASSUME making.only = None, NEW i \in 1..Len(DepOrder), i < making.dep + 1
            PROVE  IsPinned(DepOrder[i])'
        <4>1. CASE i = making.dep
          BY <1>1, <2>4, <4>1 DEF IsPinned
        <4>2. CASE i < making.dep
          BY <1>1, <2>4, <3>1, <4>2, InventoryIsList DEF PrefixInv, InstalledArePinned
        <4> QED BY <1>1, <3>1, <4>1, <4>2, InventoryLength
      <3> QED BY <2>2, <3>1 DEF InstalledArePinned
    <2>6. SourcesArePinned'
      BY <1>1, <2>2 DEF PrefixInv, SourcesArePinned
    <2> QED BY <1>1, <2>2, <2>3, <2>5, <2>6 DEF PrefixInv, PrefixTypes
  <1> QED BY <1>3, <1>4, <1>5

LEMMA StartPrefixKeeps ==
  ASSUME PrefixInv,
         NEW only \in OrNone(Deps), NEW verify \in BOOLEAN,
         StartPrefix(only, verify)
  PROVE  PrefixInv'
  <1>1. /\ making'.at = "fetch" /\ making'.dep = 1 /\ making' \in Makings
        /\ UNCHANGED <<pinned, cache, prefix>>
    <2>1. making' = [at |-> "fetch", dep |-> 1, only |-> only, verify |-> verify]
      BY DEF StartPrefix, NotMaking
    <2>2. 1 \in 0..(Len(DepOrder) + 1)
      BY InventoryLength
    <2> QED BY <2>1, <2>2 DEF StartPrefix, Makings, OrNone
  <1> QED BY <1>1, InventoryLength
      DEF PrefixInv, PrefixTypes, DepIsThere, SourcesArePinned, InstalledArePinned,
          UnprobedHaveNone

LEMMA NextPrefix ==
  ASSUME PrefixInv, [PrefixNext]_prefixRunVars
  PROVE  PrefixInv'
  <1>1. CASE EditPins
    <2>1. /\ making.at = "idle" /\ UNCHANGED <<cache, prefix, making>>
          /\ pinned' \in [Deps -> Versions]
      BY <1>1 DEF EditPins, MakingAt, PrefixInv, PrefixTypes
    <2> QED BY <2>1, PrefixRests
  <1>2. CASE StopMaking \/ FetchRefused \/ DepTorn \/ PrefixDescribed
    <2>1. making' = NotMaking /\ UNCHANGED <<cache, prefix, pinned>>
      BY <1>2 DEF StopMaking, FetchRefused, DepTorn, PrefixDescribed
    <2>2. pinned' \in [Deps -> Versions]
      BY <2>1 DEF PrefixInv, PrefixTypes
    <2> QED BY <2>1, <2>2, PrefixRests
  <1>3. CASE UNCHANGED prefixRunVars
    BY <1>3 DEF prefixRunVars, PrefixInv, PrefixTypes, DepIsThere,
                SourcesArePinned, InstalledArePinned, IsPinned, UnprobedHaveNone
  <1> QED BY <1>1, <1>2, <1>3, FetchKeeps, FetchDoneKeeps, ClearKeeps, InstallKeeps,
             StartPrefixKeeps DEF PrefixNext

(***************************************************************************)
(* A full run of the prefix script that reaches its end leaves every       *)
(* dependency at its pinned version, for any inventory, whatever was       *)
(* cached or installed, and however earlier runs ended (fetch-native-      *)
(* dependency-sources.py:91, build-native-dependency-prefix.sh:224-230).   *)
(***************************************************************************)
THEOREM PrefixIsPinned == PrefixSpec => []FullPrefixIsPinned
  <1>1. PrefixInv => FullPrefixIsPinned
    <2> SUFFICES ASSUME PrefixInv, making.at = "step", making.only = None,
                        making.dep > Len(DepOrder), NEW d \in Deps
                 PROVE  IsPinned(d)
      BY DEF FullPrefixIsPinned, MakingAt, IsPinned
    <2>1. PICK i \in 1..Len(DepOrder) : d = DepOrder[i]
      BY InventoryIsList
    <2>2. i < making.dep
      BY InventoryLength DEF PrefixInv, PrefixTypes, Makings
    <2> QED BY <2>1, <2>2 DEF PrefixInv, InstalledArePinned
  <1> QED BY <1>1, InitPrefix, NextPrefix, PTL DEF PrefixSpec

\* Inventory, sources and prefix keep their types.
THEOREM PrefixTypesHold == PrefixSpec => []PrefixTypeOK
  <1>1. PrefixInv => PrefixTypeOK
    BY DEF PrefixInv, PrefixTypes, PrefixTypeOK, Cached, Kept, Makings, OrNone
  <1> QED BY <1>1, InitPrefix, NextPrefix, PTL DEF PrefixSpec
===============================================================================
