------------------------------- MODULE NativeBuild ------------------------------
(***************************************************************************)
(* prepare-native-pglite-link.sh and what it keeps from run to run: the    *)
(* patched source tree with the other extensions in it, the PostgreSQL     *)
(* build and its installation, the archives, and the link manifest.  What  *)
(* of an older run is still good is decided by marks and fingerprints;     *)
(* runs may fail or be killed anywhere, and their inputs change from one   *)
(* to the next: the pinned source, the patches, the exit trap, and the     *)
(* dependency prefix (see DependencyPrefix).                               *)
(*                                                                         *)
(* One script runs at a time and its inputs change between runs only; a    *)
(* dependency prefix is given, and source_dir has no extension submodules  *)
(* checked out.  External: tar, git, configure, make, ar.                  *)
(***************************************************************************)
EXTENDS DependencyInventory, Naturals

VARIABLES
  repo,     \* the inputs under version control, and the source's checkout
  tree,     \* the patched source tree, its mark, and the other extensions in it
  objects,  \* the objects compiled outside the PostgreSQL build
  build,    \* the PostgreSQL build: its environment file, objects, installation
  archives, \* the backend and timezone archives
  manifest, \* the link manifest
  run,      \* how far the script has come, its mode, its extension inventory
  settled,  \* the last prepare has come to its end
  left      \* edits and stops that may still happen

vars == <<repo, prefix, tree, objects, build, archives, manifest, run, settled, left>>
prepareVars == <<tree, objects, build, archives, manifest, settled>>

Sources == [commit : Versions, patches : Versions]
Source == [commit |-> repo.checkout, patches |-> repo.patches]

Labels == [pins : [Deps -> Versions], seen : [Probed -> OrNone(Versions)]]
Listings == [commit : Versions, present : BOOLEAN]
Installed == [lib : OrNone(Versions), pc : OrNone(Versions)]
Modes == {m \in [postgres : BOOLEAN, fetch : BOOLEAN, other : BOOLEAN] :
            m.other => m.postgres} \* without PostgreSQL, other changes nothing

(***************************************************************************)
(* describe-native-dependency-prefix.py: the versions of the inventory,    *)
(* and what pkg-config says of the packages it knows.                      *)
(***************************************************************************)
Described == [pins |-> repo.inventory, seen |-> [d \in Probed |-> prefix[d].pc]]

\* Mutant: the patches are left out of the tree's fingerprint.
CommitOnly == [commit |-> repo.checkout, patches |-> repo.checkout]
\* The fingerprint that decides whether the patched tree is kept.
TreeFingerprint == Source

Fingerprints == [source : Sources, listed : Listings, other : BOOLEAN,
                 prefix : Labels, trap : Versions]

ASSUME NoneAssumption == None \notin Sources /\ None \notin Fingerprints

\* Mutant: the trap's source is left out of the build's fingerprint.
NoTrapPrint == [source |-> Source, listed |-> run.listed, other |-> run.mode.other,
                prefix |-> Described, trap |-> repo.checkout]
\* What the environment file must say for the PostgreSQL build to be kept.
EnvFingerprint == [source |-> Source, listed |-> run.listed, other |-> run.mode.other,
                   prefix |-> Described, trap |-> repo.trap]

\* What anything compiled now is made of.
Stamps == [source : OrNone(Sources), trap : Versions, deps : [Deps -> Installed]]
Now == [source |-> tree.source, trap |-> repo.trap, deps |-> prefix]

\* External: make keeps any of the objects it finds and compiles the rest.
Made(old) == {old, old \cup {Now}, {Now}} \ {{}}

NoTree == [mark |-> None, source |-> None, whole |-> FALSE, ext |-> "none",
           provenance |-> FALSE]
NoBuild == [env |-> None, objs |-> {}, inst |-> {}, other |-> "none"]
NoRun == [at |-> "idle", listed |-> None,
          mode |-> [postgres |-> FALSE, fetch |-> FALSE, other |-> FALSE]]

Init ==
  /\ \E v \in Versions :
       repo = [pin |-> v, checkout |-> v, patches |-> v, trap |-> v,
               inventory |-> [d \in Deps |-> v]]
  /\ \E v \in Versions :
       prefix = [d \in Deps |-> [lib |-> v, pc |-> IF d \in Probed THEN v ELSE None]]
  /\ tree = NoTree
  /\ objects = [pglitec |-> None, trap |-> None]
  /\ build = NoBuild
  /\ archives = {}
  /\ manifest = None
  /\ run = NoRun
  /\ settled = FALSE
  /\ left = [edits |-> MaxEdits, stops |-> MaxStops]

-------------------------------------------------------------------------------
At(p) == run.at = p
Go(p) == run' = [run EXCEPT !.at = p]

\* Between two runs, one of the inputs gets another version.
Edit ==
  /\ At("idle") /\ left.edits > 0
  /\ left' = [left EXCEPT !.edits = @ - 1]
  /\ \E v \in Versions :
       \/ \E field \in {"pin", "checkout", "patches", "trap"} :
            repo' = [repo EXCEPT ![field] = v]
       \/ \E d \in Deps : repo' = [repo EXCEPT !.inventory[d] = v]
  /\ repo' # repo
  /\ UNCHANGED <<prefix, prepareVars, run>>

\* The prefix is built anew in part, as far as that run comes.
PrefixChanges ==
  /\ At("idle") /\ left.edits > 0
  /\ left' = [left EXCEPT !.edits = @ - 1]
  /\ OneReinstalled
  /\ prefix' # prefix
  /\ UNCHANGED <<repo, prepareVars, run>>

\* The script fails in an external step, or is killed.
Stop ==
  /\ ~At("idle") /\ left.stops > 0
  /\ left' = [left EXCEPT !.stops = @ - 1]
  /\ run' = NoRun
  /\ UNCHANGED <<repo, prefix, prepareVars>>

-------------------------------------------------------------------------------
(***************************************************************************)
(* prepare-native-pglite-link.sh.  The checkout must be the pinned commit. *)
(***************************************************************************)
StartPrepare(mode) ==
  /\ At("idle") /\ repo.checkout = repo.pin
  /\ run' = [NoRun EXCEPT !.at = "tree", !.mode = mode]
  /\ settled' = FALSE
  /\ UNCHANGED <<repo, prefix, tree, objects, build, archives, manifest, left>>

\* source_dir is at another commit than the pin.
PrepareRefused ==
  /\ At("idle") /\ repo.checkout # repo.pin
  /\ UNCHANGED vars

untouched == <<repo, prefix, settled, left>>

TreeKept ==
  /\ At("tree") /\ tree.mark = TreeFingerprint
  /\ Go("list")
  /\ UNCHANGED <<untouched, tree, objects, build, archives, manifest>>

\* What rm -rf has left of an extension so far.
Left(amount) == IF amount = "none" THEN {"none"} ELSE {amount, "some", "none"}

\* rm -rf: some files first, in any order, those of the extensions and their
\* provenance among them or not.  Once the mark is gone, nothing of the tree is
\* looked at any more before all of it is removed.
TreeClear ==
  /\ At("tree") /\ tree.mark # TreeFingerprint /\ tree # NoTree
  /\ \/ \E ext \in Left(tree.ext), provenance \in {tree.provenance, FALSE} :
          /\ provenance => ext # "none"
          /\ tree' = [tree EXCEPT !.whole = FALSE, !.ext = ext, !.provenance = provenance]
     \/ tree' = NoTree
  /\ tree' # tree
  /\ UNCHANGED <<untouched, objects, build, archives, manifest, run>>

\* git archive | tar, then each patch.
TreeExtract ==
  /\ At("tree") /\ tree = NoTree
  /\ tree' = [NoTree EXCEPT !.source = Source, !.whole = TRUE]
  /\ Go("mark")
  /\ UNCHANGED <<untouched, objects, build, archives, manifest>>

TreeMark ==
  /\ At("mark")
  /\ tree' = [tree EXCEPT !.mark = TreeFingerprint]
  /\ Go("list")
  /\ UNCHANGED <<untouched, objects, build, archives, manifest>>

\* Mutant: the inventory is taken after a fetch only.
ListFetchedOnly ==
  /\ At("list")
  /\ Go(IF run.mode.fetch THEN "materialize" ELSE "objects")
  /\ UNCHANGED <<untouched, tree, objects, build, archives, manifest>>
\* The inventory of source_dir, where no other extension is present.
ListExtensions ==
  /\ At("list")
  /\ run' = [run EXCEPT !.at = IF run.mode.fetch THEN "materialize" ELSE "objects",
                        !.listed = [commit |-> repo.checkout, present |-> FALSE]]
  /\ UNCHANGED <<untouched, tree, objects, build, archives, manifest>>

(***************************************************************************)
(* materialize-native-pglite-other-extensions.py: the provenance file is   *)
(* written when the extension's source is complete, and only such a source *)
(* is kept.                                                                *)
(***************************************************************************)
ExtensionKept ==
  /\ At("materialize") /\ tree.provenance
  /\ Go("relist")
  /\ UNCHANGED <<untouched, tree, objects, build, archives, manifest>>

\* Mutant: the provenance is written first.
ProvenanceFirst(t) == [t EXCEPT !.ext = "some", !.provenance = TRUE]
BeginExtension(t) == [t EXCEPT !.ext = "some", !.provenance = FALSE]

ExtensionFetch ==
  /\ At("materialize") /\ ~tree.provenance
  /\ tree' = BeginExtension(tree)
  /\ Go("provenance")
  /\ UNCHANGED <<untouched, objects, build, archives, manifest>>

ExtensionFetched ==
  /\ At("provenance")
  /\ tree' = [tree EXCEPT !.ext = "all", !.provenance = TRUE]
  /\ Go("relist")
  /\ UNCHANGED <<untouched, objects, build, archives, manifest>>

\* The inventory of the patched source: an extension is present when its
\* directory holds any file at all.
Relist ==
  /\ At("relist")
  /\ run' = [run EXCEPT !.at = "objects",
                        !.listed = [commit |-> repo.checkout, present |-> tree.ext # "none"]]
  /\ UNCHANGED <<untouched, tree, objects, build, archives, manifest>>

CompilePglitec ==
  /\ At("objects")
  /\ objects' = [objects EXCEPT !.pglitec = tree.source]
  /\ Go("trap")
  /\ UNCHANGED <<untouched, tree, build, archives, manifest>>

CompileTrap ==
  /\ At("trap")
  /\ objects' = [objects EXCEPT !.trap = repo.trap]
  /\ Go(IF run.mode.postgres THEN "environment" ELSE "manifest")
  /\ UNCHANGED <<untouched, tree, build, archives, manifest>>

\* A step fails that needs a file of the tree that was removed; which are needed is
\* not known here, so the steps may also go on.
TreeTorn ==
  /\ run.at \in {"objects", "make", "install", "other"}
  /\ ~tree.whole
  /\ run' = NoRun
  /\ UNCHANGED <<untouched, tree, objects, build, archives, manifest>>

PrefixIncomplete ==
  /\ At("environment") /\ ~Complete
  /\ run' = NoRun
  /\ UNCHANGED <<untouched, tree, objects, build, archives, manifest>>

BuildKept ==
  /\ At("environment") /\ Complete
  /\ build.env = EnvFingerprint
  /\ Go("make")
  /\ UNCHANGED <<untouched, tree, objects, build, archives, manifest>>

\* rm -rf again; without its environment file the build is removed in any case.
BuildClear ==
  /\ At("environment") /\ Complete
  /\ build.env # EnvFingerprint
  /\ \/ /\ \E objs \in {build.objs, {}}, inst \in {build.inst, {}},
              other \in Left(build.other) :
             build' = [env |-> build.env, objs |-> objs, inst |-> inst, other |-> other]
        /\ build' # build
        /\ UNCHANGED run
     \/ /\ build' = NoBuild
        /\ Go("make")
  /\ UNCHANGED <<untouched, tree, objects, archives, manifest>>

Make ==
  /\ At("make")
  /\ \E objs \in Made(build.objs) : build' = [build EXCEPT !.objs = objs]
  /\ Go("archive")
  /\ UNCHANGED <<untouched, tree, objects, archives, manifest>>

\* Removed and made again, and checked for the socket shims.
Archive ==
  /\ At("archive")
  /\ archives' = build.objs
  /\ Go("install")
  /\ UNCHANGED <<untouched, tree, objects, build, manifest>>

\* The server, its tools and the contrib extensions; what is missing is made.
Install ==
  /\ At("install")
  /\ \E inst \in Made(build.objs) : build' = [build EXCEPT !.inst = inst]
  /\ Go(IF run.mode.other THEN "other" ELSE "record")
  /\ UNCHANGED <<untouched, tree, objects, archives, manifest>>

\* Each other extension that the inventory calls present; none of the missing.
InstallOther ==
  /\ At("other")
  /\ build' = IF run.listed.present THEN [build EXCEPT !.other = tree.ext] ELSE build
  /\ Go("record")
  /\ UNCHANGED <<untouched, tree, objects, archives, manifest>>

RecordEnvironment ==
  /\ At("record")
  /\ build' = [build EXCEPT !.env = EnvFingerprint]
  /\ Go("manifest")
  /\ UNCHANGED <<untouched, tree, objects, archives, manifest>>

\* The manifest is written in place: emptied, then filled.
TruncateManifest ==
  /\ At("manifest")
  /\ manifest' = None
  /\ Go("write")
  /\ UNCHANGED <<untouched, tree, objects, build, archives>>

WriteManifest ==
  /\ At("write")
  /\ manifest' = [postgres |-> run.mode.postgres, source |-> Source, trap |-> repo.trap,
                  prefix |-> Described, listed |-> run.listed, other |-> run.mode.other]
  /\ settled' = TRUE
  /\ run' = NoRun
  /\ UNCHANGED <<repo, prefix, tree, objects, build, archives, left>>

-------------------------------------------------------------------------------
Prepare ==
  \/ \E mode \in Modes : StartPrepare(mode)
  \/ PrepareRefused
  \/ TreeKept \/ TreeClear \/ TreeExtract \/ TreeMark \/ ListExtensions
  \/ ExtensionKept \/ ExtensionFetch \/ ExtensionFetched \/ Relist
  \/ CompilePglitec \/ CompileTrap \/ TreeTorn \/ PrefixIncomplete \/ BuildKept
  \/ BuildClear \/ Make \/ Archive \/ Install \/ InstallOther
  \/ RecordEnvironment \/ TruncateManifest \/ WriteManifest

Next == Edit \/ PrefixChanges \/ Stop \/ Prepare

Spec == Init /\ [][Next]_vars

-------------------------------------------------------------------------------
TypeOK ==
  /\ repo \in [pin : Versions, checkout : Versions, patches : Versions, trap : Versions,
               inventory : [Deps -> Versions]]
  /\ prefix \in [Deps -> Installed]
  /\ tree \in [mark : OrNone(Sources), source : OrNone(Sources), whole : BOOLEAN,
               ext : {"none", "some", "all"}, provenance : BOOLEAN]
  /\ objects \in [pglitec : OrNone(Sources), trap : OrNone(Versions)]
  /\ build.env \in OrNone(Fingerprints) /\ build.other \in {"none", "some", "all"}
  /\ build.objs \subseteq Stamps /\ build.inst \subseteq Stamps
  /\ archives \subseteq Stamps
  /\ manifest \in OrNone([postgres : BOOLEAN, source : Sources, trap : Versions,
                          prefix : Labels, listed : Listings, other : BOOLEAN])
  /\ run.mode \in Modes /\ run.listed \in OrNone(Listings)
  /\ settled \in BOOLEAN

(***************************************************************************)
(* After a prepare that came to its end, all that can be linked and all    *)
(* that is installed was compiled from the source, the trap and the        *)
(* dependencies (as far as pkg-config tells them apart) that the manifest  *)
(* names, whatever earlier runs were killed, failed, or ran on other       *)
(* inputs (prepare-native-pglite-link.sh:187-202, 613-636, 782).           *)
(***************************************************************************)
AgreesWith(m, s) ==
  /\ s.source = m.source /\ s.trap = m.trap
  /\ \A d \in Probed : s.deps[d].pc = m.prefix.seen[d]

SettledBuildIsOfOneVersion ==
  settled => /\ objects = [pglitec |-> manifest.source, trap |-> manifest.trap]
             /\ manifest.postgres =>
                  /\ archives # {} /\ build.inst # {}
                  /\ \A s \in archives \cup build.inst : AgreesWith(manifest, s)

(***************************************************************************)
(* An extension that the manifest calls present, and that was asked for,   *)
(* was built from its complete source, wherever earlier fetches broke off, *)
(* although half a directory would count as present (inventory-native-     *)
(* pglite-extensions.py:165, materialize-native-pglite-other-extensions.   *)
(* py:97-115); provided that the tree is whole, that is, that the run did  *)
(* not take over what a removal of the tree that was cut off had left.     *)
(***************************************************************************)
PresentExtensionsAreComplete ==
  /\ settled /\ tree.whole
  /\ manifest.postgres /\ manifest.other /\ manifest.listed.present
  => build.other = "all"

(***************************************************************************)
(* Refuted in NativeBuildTorn: materializing "populates                    *)
(* pglite/other_extensions/<name> in the patched source tree at the        *)
(* recorded commit" (docs/done/ADR-0008-NATIVE-EXTENSION-PARITY.md:        *)
(* 172-173).  A clear is cut off while the tree's mark and an extension's  *)
(* provenance are still there, and the change that led to it is taken      *)
(* back: the next run keeps the tree, and the extension, half of it gone,  *)
(* is called already materialized (prepare-native-pglite-link.sh:192-193,  *)
(* materialize-native-pglite-other-extensions.py:98-100).                  *)
(***************************************************************************)
MaterializedIsComplete == At("relist") => tree.ext = "all"

(***************************************************************************)
(* Not among the runs: TLC refutes it.  The description takes the versions *)
(* from the inventory and asks pkg-config about the packages it knows (de- *)
(* scribe-native-dependency-prefix.py:41-92): a library that is exchanged  *)
(* without its package, or that has none, as ossp-uuid, changes neither    *)
(* the environment's fingerprint nor the manifest, and a build against the *)
(* old one is kept.                                                        *)
(***************************************************************************)
BuiltAgainstThePins ==
  settled /\ manifest.postgres =>
    \A s \in archives, d \in Deps : s.deps[d].lib = manifest.prefix.pins[d]
==============================================================================
