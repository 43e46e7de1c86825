# A verification project for libpglite

libpglite embeds a native build of PGlite (PostgreSQL in single-user mode, linked as a
library) into a host process, either directly or through a dynamically loaded plugin, and
offers it to `tokio-postgres` as a byte stream. Scripts build the plugin, package it and
decide whether it may be released. These TLA+ modules model both sides, TLC checks them on
small instances, and TLAPS proves the results that matter most for every instance. Line
numbers are those of the repository's files.

## 1. The system

| Component | Source | State it keeps | Operations |
| --- | --- | --- | --- |
| Native runtime | `native/src/lib.rs` | a runtime value with its transport, ledger and shutdown flag; the process-wide `NATIVE_BACKEND_START_ATTEMPTED`, `ACTIVE_TRANSPORT`, callbacks; PostgreSQL's global state | `open`, `exec_protocol_raw`, `shutdown`, `take_backend_output`, drop |
| Stdio lease | `native/src/lib.rs` | descriptors 0-2, the duplicates held by guards, capture files | `begin`, `finish`, `restore`, three `Drop`s |
| Data directory | `native/src/lib.rs` | `PG_VERSION`, `postmaster.pid` | `ensure_data_dir`, removal of a stale lock in `open` and of the current one in `shutdown` |
| Protocol execution | `native/src/lib.rs`, `native/c/libpglite_native_trap.c` | the transport's buffers, PostgreSQL's receive and send buffers | the request loop, `native_read`, `native_write`, the exit trap |
| Dynamic runtime and plugin ABI | `src/dynamic.rs`, `plugin/src/lib.rs` | the process-wide try-lock, the handle, a shutdown flag | `load`, `exec_protocol_raw`, `shutdown`, `Drop`, the C functions behind them |
| Tokio stream | `src/postgres_client.rs` | read and write buffer, shutdown flag, session ledger | `connect`, `connect_with_driver`, the four polls, `Drop`, the drain |
| Plugin resolution | `src/release.rs`, `src/dynamic.rs` | none; it reads a file system that may change | two resolvers, the packaged PostgreSQL prefix |
| Dependency sources and prefix | `scripts/fetch-native-dependency-sources.py`, `build-native-dependency-prefix.sh`, `describe-native-dependency-prefix.py` | cached archives and checkouts, the installed prefix | fetch or verify each source, build all or one dependency, describe the result |
| Link preparation | `scripts/prepare-native-pglite-link.sh` and the extension scripts it calls | the patched tree and its mark, fetched extensions, objects, the PostgreSQL build and its environment file, archives, the link manifest | one run in three modes, keeping what its fingerprints allow |
| Plugin linking and packaging | `plugin/build.rs`, `scripts/link-linux-native-plugin.sh`, `package-native-plugin-release.sh`, `preflight-native-plugin-release.sh` | the target directory, test results, the output directory with its checksums | link, check symbols, run conformance tests, assemble, write assets, self-test |
| Dependency scan and package doctor | `scripts/generate-native-dependency-manifest.py`, `doctor-native-plugin-package.py`, the repair in `package-native-plugin-release.sh` | the package's files; the doctor's list of complaints | repair and classify what libraries load; twelve checks in a fixed order, a search for install paths, the verdict |

How they interact: the tokio stream owns a runtime and calls it synchronously from its
polls. A dynamic runtime forwards each call over the C ABI to a native runtime in the
plugin, under a lock that is held from load to drop. A native runtime touches the data
directory at its two ends, takes the stdio lease around its calls of PostgreSQL, and
exchanges bytes with PostgreSQL through callbacks that find their buffers through a global
pointer. The scripts call each other as processes and meet only in files: the prefix feeds
the preparation, whose manifest feeds the link, whose plugin, together with the installed
prefix and the test results, feeds the package, which the host's resolver and loader read.

What is hard about it: PostgreSQL, the descriptors and the callbacks belong to the process
and not to the value that uses them; PostgreSQL leaves by `exit`, which a `longjmp` turns
into a status, possibly in the middle of anything; every resource is given back both by an
explicit call that may fail and by a `Drop` that tries again; several processes meet at one
lockfile without a lock around reading and removing it; and the stream has no waker of its
own. On the build side nothing is done in one step: a script that is killed leaves half of
something under the name of the whole, and the next run decides by marks, fingerprints and
file names what to keep. `PROJECT.json` lists these hazards line by line.

What makes each part correct, in one line each:

- lease: the process's descriptors come back, and text stays on its side of the boundary;
- native runtime: PostgreSQL is started once in a process and used by one thread, and a
  shutdown that says it succeeded has undone everything;
- data directory: whoever uses the files holds the lockfile;
- protocol: the calls together are the wire protocol's reply to the requests together;
- dynamic runtime: one runtime at a time behind the plugin, and its end leaves nothing;
- stream: every request is answered in order and every record of output kept;
- resolver: an explicit choice is obeyed exactly, and a host finds its own bundle;
- prefix, preparation, package: what a finished run leaves is of one version, whatever
  earlier runs left, and what is released has been tested as it is;
- doctor: what it accepts is complete as far as it looks, of one package, relocatable and
  installable, whichever faults come together, and what is sound is accepted.

## 2. The modules

| Module | Models | Correspondence |
| --- | --- | --- |
| `StdioLease` | the lease, system call by system call | `fd` is where each descriptor leads, `saved`/`guards`/`restored` are the guards' fields, `cbuf` the C library's stdout buffer. Each `dup2` is one action, so that host threads print in between; every failing call is an action of its own. |
| `SingleStart` | the contract of ADR-0011, abstractly | one variable: unused, starting, running, over |
| `NativeRuntime` | the lifecycle of `NativePgliteRuntime` among several threads | `phase[t]` is how far the thread's `open` has come; `claimed`, `active`, `callbacks`, `pgActive` are the statics; `backend`, `lock`, `entered`, `hooks` what PostgreSQL has been through. One action per stretch of code without another thread's business in it; success and failure are separate actions; a stale lockfile is read in one and removed in another. |
| `DynamicRuntime` | `DynamicPgliteRuntime` over `NativeRuntime` | `INSTANCE NativeRuntime`; each action is the native one plus the host's guard, handle and flag. `Drop` is two actions, so that the state between shutdown and destroy is seen. |
| `DataDir` | the data directory among processes | one action per file operation, each of which may fail; processes start, die anywhere and get a reused id; the lockfile's content is its kind and its process id, `by` is a history field with the real writer; `seen` is the lockfile a process is about to remove, and `overtaken` remembers that one was not the one removed |
| `NativeProtocol` | one runtime's byte path | bytes are messages and answers; reads take any piece, writes happen at any time; a round of PostgreSQL is external and may end in each way the trap reports |
| `ProtocolStream` | the stream, its session drain and the connection's task | one action per poll method; requests, responses and records are numbers in order |
| `PluginResolver` | both resolvers and the prefix configuration | one action per file-system probe, with a deployment possible between any two |
| `DependencyInventory` | what the next two share | the inventory's dependencies, versions and packages, and `prefix`, the version of each library and of its pkg-config file |
| `DependencyPrefix` | sources and prefix, run after run | `cache` is what HEAD or checksum says of a source and whether it is whole, `making` how far the script is; one action per file operation that can be the last one |
| `NativeBuild` | the preparation, run after run | one variable per artefact with the inputs it was made of; marks, environment file and manifest hold what they say, which need not be so; `settled` says that the last run came to its end |
| `NativePackage` | preparation's result, link, package, doctor, preflight | plugins, prefixes, manifests and test results carry the build they come from and the symbols they define, need, export or list; the output directory is a map of assets and a sequence of checksum lines |
| `AtomicRelease` | what the release directory promises, abstractly | `made` and `pending`, the newest package and which of its assets may still come up; `offered`, per name the package whose asset the checksums confirm |
| `PackageDoctor` | what goes into a package, what may happen to it, and the doctor | `stage` is what the packager is given, `pkg` the content of each file of the package, or that it is missing or unreadable; `doc` the doctor's run: the check it is at, its complaints, the symbols it read, the inventory entries still to do. One action per check (`validate_*`), each with its early returns; entry by entry through the inventory. |
| `InstallPath` | the doctor's search for a chain of scripts to an extension's default version | its two sets `seen` and `pending`, one action per version looked at, in any order |
| `MC*` | values of the constants for TLC | |
| `NativeRuntimeProofs`, `DataDirProofs`, `StdioLeaseProofs`, `ProtocolStreamProofs`, `DynamicRuntimeProofs`, `NativePackageProofs`, `NativeBuildProofs`, `PackageDoctorProofs` | theorems and proofs about the module of that name | `ProtocolStreamProofs` also proves what is said of `NativeProtocol`, `DynamicRuntimeProofs` what is said of `PluginResolver`, `NativeBuildProofs` what is said of `DependencyPrefix`, each of them by extending both modules, whose definitions have names of their own (`CallInit`, `ResolverSpec`, `PrefixTypeOK`); `PackageDoctorProofs` proves what is said of `InstallPath`, of the instance that the doctor runs. |

`DynamicRuntime` composes with `NativeRuntime`, which refines `SingleStart`; `NativePackage`
refines `AtomicRelease`. The lease is an
abstract step of `NativeRuntime` (it may fail before or after the leased call) and is
detailed in `StdioLease`; the lockfile is a three-valued variable there and is detailed in
`DataDir`; a call is one step there and is detailed in `NativeProtocol`. `ProtocolStream`
uses any runtime by its trait. `DependencyPrefix`, `NativeBuild` and `NativePackage` are a
chain: each takes the result of the one before as an input that changes between its runs,
so that none depends on how the one before is scheduled. The first two share `prefix`:
`DependencyPrefix` changes one dependency with each step, and `NativeBuild` lets library and
package of one change in any way between its runs (`OneReinstalled`).
`PackageDoctor` looks
into the package of `NativePackage`, which knows only builds and symbols; its searches are
runs of `InstallPath`, one after the other.

External, modelled from how the code uses them: PostgreSQL's rounds, hooks and own
lockfile handling, `initdb`, the operating system's process ids, `tokio-postgres` and its
executor, other threads and processes, and deployments; git, downloads, compilers, linkers,
cargo, tar and the tests the scripts run; the files and results the packager is given, and
what happens to a package before the doctor sees it.

The build-side modules assume what the scripts assume: one of them runs at a time, with one
output directory and one release version, its inputs change between runs only, and a source
with files missing does not compile. `NativeBuild` is given a dependency prefix and a
source directory without extension submodules. A person may keep test results of any
earlier preflight and hand them to the packager.

## 3. What the runs check

| Run | Instance | Shows |
| --- | --- | --- |
| `StdioLease` | 2 leases, 3 failing calls, 3 writes | text never crosses the boundary in either direction or between calls, whatever is buffered; nothing said is lost; descriptors and files come back unless as many calls fail as there are attempts; a fault is reported |
| `NativeRuntime` | 3 threads, 2 failing shutdowns | one start per process, one user of the backend, a complete shutdown, hooks repeated only after an error, calls that reach their own transport, and the refinement of `SingleStart` |
| `DynamicRuntime` | 2 threads, 2 failing shutdowns | the guard covers the native value, `Drop` leaves nothing behind, every load returns |
| `DataDir` | 3 processes, a server, 4 process ids | whoever uses the files holds the lock, whatever locks crashes leave, unless a removal has met another lockfile than the one read before it; a finished shutdown leaves none |
| `NativeProtocol` | 3 messages in batches of up to 3 | the responses in a row are the wire protocol's reply to the requests in a row; clean runs answer each request once; every call returns, unless it keeps asking a backend that has left and reports nothing |
| `ProtocolStream` | 4 requests, 4 records | no record lost or repeated, responses in order, nothing waits for ever: every request is answered and a closed session shuts its runtime down |
| `PluginResolver` | 3 directories, 1 deployment | the right plugin is chosen: explicit choices exactly, whatever is deployed meanwhile; a host's own bundle through symlinks and `deps`, when nothing is |
| `DependencyPrefix` | 3 dependencies (archive with and without pkg-config, checkout), 2 edits, 2 stops | a full build that ends leaves the pinned version of everything |
| `NativeBuild` | 1 dependency, 2 versions of each input, 2 changes, 1 stop | after a run that ended, whatever can be linked or is installed was compiled from what the manifest names; an extension called present was built from its complete source, in a tree that no removal was cut off in |
| `NativePackage` | macOS, 2 builds, 2 packages, 2 stops, 2 symbols | a passed preflight ships plugin, prefix, manifest and test results of one build with no symbol hidden; the checksums of a finished package are those of its assets; and, between any two writes, the refinement of `AtomicRelease` |
| `PackageDoctor` | both systems, both modes, 1 backend symbol, 1 patch, 3 versions, 2 tests, 2 faults | what the doctor accepts lacks no file, is of one package, installable and, if it was strict, names no path of the build machine or out of the package; sound packages pass; its searches answer as PostgreSQL does and get on |

Bounds. Three failing calls are the number of nested attempts to restore a descriptor, so
that the case where one is lost is reached; two leases are needed for text of one to show in
the other. With three threads, one wins, one is refused while the winner starts, and one
comes when it is over. In `DataDir` three processes let one meet a race between the
others, and four process ids let each of them, and the server, have one of its own or a
reused one. Three messages allow an error, what is skipped after it, and the Sync that ends the
skipping. Two changes and one
stop let an input change, the run after it be killed, and the input change back; two
packages let one be written over another that was killed half-way, and two builds let each
part of a package be of the older one. Two faults in `PackageDoctor` are what it takes for one
to hide the other; upgrade scripts chain, end elsewhere, go round, and go round with a way
out; odd dependencies are given to the plugin and to one library, since the scripts treat all
libraries alike, and strictness is varied in development mode only, where alone it makes a
difference. Everything else in the models is finite by itself. `CHECK_DEADLOCK FALSE` is set
where the system may stop: bounds used up, sessions over, a poisoned guard, no build or
package left to make.

Fairness. `DynamicRuntime` assumes weak fairness of the steps inside `load` and `Drop` per
thread: they run on without waiting for anybody, since the guard is only tried. A host may
keep its runtime for ever. `NativeProtocol` assumes that a call in progress goes on.
`ProtocolStream` assumes that the executor polls a task that has been woken; the clients
are free to do nothing. No fairness is assumed of processes, failures or other threads.

### Disagreements found

One is a run that expects a violation; the others have a configuration beside the runs, with
which TLC finds the violation. `PROJECT.json` quotes both sides.

| Configuration | The repository says | What happens |
| --- | --- | --- |
| `DataDirLockRace` | a server's lockfile is left in place (test, `native/src/lib.rs:904-912`) | between reading a stale lockfile and removing it, a server takes the directory and loses its lock |
| `NativePackageLinux` (run) | the Linux linker's one version script has the host's ABI (`scripts/link-linux-native-plugin.sh:13-16`) | it lists six of the seven functions the host requires, so no plugin linked on Linux loads |
| `NativeBuildTorn` | materializing populates an extension's directory at the recorded commit (`docs/done/ADR-0008-NATIVE-EXTENSION-PARITY.md:171-173`) | the `rm -rf` of the tree is killed with mark and provenance still there, the change that led to it is taken back, and the next run calls the half of the extension that is left materialized and present |
| `DataDirPidReuse` | a stale single-user lock is removed before startup (test, `native/src/lib.rs:891-901`) | a reused process id, even the caller's own, makes the open fail |
| `DynamicHooks` | the shutdown hooks run exactly once (ADR-0011) | a shutdown that fails behind the hooks repeats them on retry or drop |
| `NativePoison` | a start that fails before PostgreSQL is entered does not use up the process (ADR-0011:58-59) | the claim is not given back (`native/src/lib.rs:163-168`) |
| `StdioBareCalls` | no backend output on the caller's streams (ADR-0014) | startup packet, ReadyForQuery and flush run without the lease |
| `StreamDropShutdown` | the stream drains drop-shutdown output (ADR-0015) | after a failed `poll_shutdown`, the output of the runtime's own drop is lost |
| `NativePackageModules` | the doctor fails on missing exported backend symbols (ADR-0010:76-78) | it compares lists and never finds a symbol that is in none; a separate package run ships modules that do not resolve |
| `NativePackageResults` | production packages hold the packaged artefact's test results (ADR-0004:96-98) | a separate package run takes any results |
| `PackageDoctorHost` | Linux artefacts must not depend on host-provider packages, and the doctor must reject them (`docs/LINUX-RELEASE-POLICY.md:10-12, 20-22`) | there is no class for them: what lies in the system's library directories is `platform` (`scripts/generate-native-dependency-manifest.py:134-137`) |
| `PackageDoctorAstray` | the doctor fails strict packages on unresolved classifications (ADR-0009:195-201) | the packager's repair writes `@loader_path/<name>` into the plugin, too, which does not lie in `postgres/lib`; the doctor looks for `..` in such a path only |
| `NativeBuildPins` | the manifest names the version of every dependency | a library exchanged without its pkg-config package is not noticed, and a build against the old one is kept |
| `DependencyRefill` | the fetch script fetches the pinned sources | a fetch that failed after `git init` makes every later run fail |

`PackageDoctor` also shows how far a check reaches; these are limits of what the code claims
rather than disagreements, and the properties are worded accordingly:

- An extension inventory that is cut short between two entries is accepted, since nothing says
  how many there are, and so is a `dependencies.txt` that names one object only.
  `AcceptedIsWhole` asks for completeness of the test results and the build provenance only.
- The doctor trusts the packaged `dependencies.json` and does not scan again, so
  `AcceptedIsRelocatable` is about packages whose scan is of their files. It excepts the paths
  that lead astray and what a host package left in the system's directories (above).
- The link manifest and the source provenance are tied to each other, and to the plugin only
  by the list of backend symbols; the test results are tied to no plugin.
- A library named by a `contrib_module` entry is not looked for, and a loader-relative path
  that stays in the package need not lead to a file.

One more was met while reading and needs no run: the bundle's `pluginAbiVersion` is written
and checked as 1 (`scripts/package-native-plugin-release.sh:576`,
`scripts/doctor-native-plugin-package.py:218`), while the ABI the host and the plugin
compare is 2 (`src/lib.rs:21`). The host does not read the bundle's number.

## 4. What is proved

All proofs hold for any set of threads, processes, process ids, dependencies, directories,
symbols, patches, versions and tests, and for any number of leases, requests, builds, faults
and stops, under the named assumptions of the modules (`NativeAssumption`,
`DataDirAssumption`, `LeaseBounds`, `StreamAssumption`, `ProtocolAssumption`,
`DynamicAssumption`, `ResolverAssumption`, `InventoryAssumption`, `DependencyPrefixAssumption`,
`NativePackageAssumption`, `DoctorAssumption`, `AbsenceAssumption`, and `NoneAssumption` where
there is one). They say that null values are none of the others,
that bounds are numbers, that given relations are about the given sets, and that modules take
some backend symbol; TLC evaluates them in the runs.

`NativeRuntimeProofs` proves type correctness, `StartedAtMostOnce`, `OneUserOfTheBackend`,
`ShutdownIsComplete`, `HooksRepeatOnlyAfterFailure`, `CallsReachTheirTransport`, and that
the runtime implements `SingleStart`. None of the invariants is inductive alone: they lean
on the fact that a thread past the claim found the flag clear and that it is never cleared,
hence on exclusive use; that PostgreSQL is entered only by such a thread; and that the
transport pointer is that thread's from publication to the exit hooks. These are the
conjuncts of the inductive invariant, each proved in a lemma with one step per action. The
refinement uses them to show that each step is a step of the contract or a stutter.

`DynamicRuntimeProofs` proves first that the host with its plugin implements the native
runtime (`HostImplementsNative`): each of its actions is one of the native ones or leaves
the native variables alone. So what is proved of the native runtime holds through the plugin
(`HostInherits`), and its invariants can be used in the proofs about the host. The invariant
added here ties the three records of one fact to each other: the guard, the host's phase and
the native thread's phase, together with the host's flag of a shutdown that was done. It
gives `GuardCoversTheNativeRuntime`, and `DestroyedAfterCleanShutdown`, which also needs that
hooks were run once if no shutdown failed.

The module's second part is about the resolver, which reads a file system that changes while
it is read. The invariant says what is left to try (`FrontierIsRest`: the frontier is the
rest of the list of places, in its order) and what has been tried (`FirstIsChosen`: no place
before it has a plugin, unless there was a deployment); that the list has each place near the
host at its rank is a lemma about `push_unique`. This proves `TheRightPluginIsChosen`.

`DataDirProofs` proves type correctness, `UserHoldsTheLock` and `ShutdownLeavesNoLock`. Its
invariant adds that living processes have different ids, that a lockfile with a living
writer carries its id, and that whoever is about to remove a lockfile has read its own or one
that nobody living had written (`RemovalsAreOwn`): what it then removes is that one, unless
it has been overtaken. For the shutdown it adds `OwnLocksAreSeen`: the
lockfile of a process that lives is a single-user one, so that its shutdown takes it for its
own.

`StdioLeaseProofs` proves all four properties of the lease: types, `TextStaysOnItsSide`,
`LeasedTextReachesLedger` and `DescriptorsComeBack`. `GuardsFollow` and `GuardsLead` say at
each point of the code which guards exist and where each descriptor then leads, in both
directions; `TextIsOfThisLease` that what is buffered or captured was said in this lease;
`SaidIsKept` where it is on its way to the ledger; `FaultsShow` that a fault leads to an
error; `AttemptsRemain` counts the failed calls against the attempts to restore a descriptor
that are left, which is what makes three nested attempts enough for two faults.

`ProtocolStreamProofs` proves types, `ResponsesInOrder` and `OutputReachesTheSession`.
Requests, responses and records are numbers in order, so that a buffer is a stretch of
numbers: `RequestsInOrder` and `OutputInOrder` say that the buffers from one end to the other
are adjoining stretches, which each poll keeps, however little it moves. `ShutDownOrFailed`
says when a runtime may be gone with output in it.

Its second part proves the types of `NativeProtocol` and `CallsArePipe`, for any number of
messages in requests of any length. What the protocol replies is a recursive function of the
messages, so the proof needs induction: `Counting` is the induction rule for a set of
numbers, from the well-foundedness of their order, and from it follow that the function is
what its definition says (`StatesAreReplies`) and that later messages change nothing of the
replies to earlier ones (`StatesStay`). The invariant says that PostgreSQL's receive buffer and
the rest of the input are the messages not yet taken (`AnsweredTo`), that what has been
returned, written and said is in the order of the messages, whatever failed calls lost of it
(`Increasing`), and that, as long as no call has failed, it is the reply to the messages taken,
up to a ReadyForQuery that is due (`CleanCall`).

`NativeBuildProofs` proves types, `SettledBuildIsOfOneVersion` and
`PresentExtensionsAreComplete`, the latter for trees that no removal was cut off in, which is
what `NativeBuildTorn` shows to be needed. The invariant says what each mark is worth: the tree is of
the version in its mark whenever the mark is there; the environment file is written only when
what was compiled agrees with every input; everything else is made anew in the run, so that
at its end it is of the run's inputs; and what is settled stays settled while at rest. It is
proved in one lemma per group of artefacts, each with a step per action. Its second part is
about `DependencyPrefix`: the sources looked at so far, and then the libraries installed so
far, in the order of the inventory, are the pinned ones (`SourcesArePinned`,
`InstalledArePinned`), hence `FullPrefixIsPinned`.

`NativePackageProofs` proves types, `PreflightShipsOneBuild`, `WrittenPackageVerifies` and
that `NativePackage` implements `AtomicRelease`.
For the first, builds are numbered, and a preflight that got past a step has that step's
artefact of its own build, while a plugin that cargo kept has the build number of its
manifest. For the second, the checksum lines are those of the assets written so far, in
order, whatever earlier runs left in the directory. For the refinement, packages are numbered
as well: until a run empties the checksum file, what is in it is of earlier packages
(`SumsInOrder`), so that an asset just written over an old one is confirmed by nothing. Hence
each write of an asset only withdraws, each line of checksums brings up one asset beside those
of the same package (`SumPublishes`), and a run that is killed abandons the rest. Reading the
directory in the middle of a run can thus find assets missing, never assets of two packages.

`PackageDoctorProofs` first proves the search for an install path, in the instance of
`InstallPath` that the doctor runs: it answers as PostgreSQL does, for every graph of scripts
and every order of looking at it. PostgreSQL's rule is stated without recursion: a version
can be installed when it is in every set that has the base versions and all that their
upgrades lead to. What has been seen lies in every such set, and when nothing is pending it
is one itself, so no induction is needed. Each step answers, finds a new version or leaves
fewer to look at, which bounds the search though scripts may go round.

Then it proves `AcceptedIsWhole`, `AcceptedIsOfOnePackage`, `AcceptedIsRelocatable` and
`AcceptedExtensionsInstall` for any number of faults, where TLC tries two. None of them says
anything until the verdict; the invariant carries what each check has found to it. `Judged`
says that, while there is no complaint, every check that is over found what it looks for: one
predicate per check (`BundleFine`, ... `DependenciesFine`), each implied by an empty set of
complaints, each kept because the doctor changes nothing it looks at. `CheckOver` does this
for all checks that only report, so that a check's own lemma is three steps. `Types` gives
the records their fields, through every fault. `Walking` says the same of the inventory: an
entry left behind can be installed, or is the one whose search is under way. It needs that a
search that says yes is right, which comes from `InstallPath`: the doctor implements it
(`DoctorSearches`), so that its theorems are theorems about the doctor
(`InstallSearchesAreRight`, `InstallSearchesEnd`).

Its last part is the converse, `SoundPackagesPass`: a sound package that nothing happened to
is not complained of. Each file of it is there and can be read (`PackedReads`), the bundle
names it, so that the doctor finds it (`FreshFound`), and there is one lemma per check that its
set of complaints is empty. It rests on `AbsenceAssumption`, that the values that stand for a
missing and for an unreadable file are not contents of a file, and on there being a backend
symbol to export at all. The invariant `Passing` carries this through the run. At an extension
it says that the entry being searched can be installed, whence `InstallPath`'s search cannot
say no; of the packager it says that what it is given either has an unpinned extension or is
one of its own inventories, and that it was accepted. The packager's own checks are needed:
without them neither the plugin's exports nor the dependency prefix would pass.

Only model-checked: the liveness properties `LoadReturns`, `CallsReturn` and
`NothingWaitsForEver`, which are out of the prover's reach, like all fairness. Every
invariant that a passing run checks is proved.

## 5. Not modelled

URL formatting and error texts (`src/release.rs`, `src/lib.rs`); the `setjmp` mechanism of
the trap, except by its outcomes; the ownership of ABI buffers; JSON; the doctor's unpacking
of a tarball and its checks of single formats, dates and log fields; the flags
`native/build.rs` passes to the linker; licence reports; the virtual machine of
`scripts/preflight-linux-smolvm.sh`; PostgreSQL itself. In `PackageDoctor` the bundle never
loses its entry for the test results alone, and a target neither script knows does not
occur.

## 6. Plan

1. Core (done): stdio lease, native lifecycle, data directory, protocol, plugin host,
   stream, resolver; proofs of the lifecycle, of its refinement and of the lockfile.
2. Build side (done): dependency prefix, link preparation, packaging; the package doctor and
   its search, with proofs.
3. Runtime side: `ExitTrap` (the jump buffer and its flag over nested calls), `PluginAbi`
   (buffers and handles owned once on either side).
4. Abstract specification of a release that `NativePackage` implements (done):
   `AtomicRelease`.
5. Proofs (done): `DynamicRuntime`, `StdioLease`, `ProtocolStream`, `NativeProtocol`,
   `NativeBuild`, `NativePackage`, `DependencyPrefix` and `PluginResolver`.
6. `PackageDoctor` (done): `SoundPackagesPass`, the last of the runs' invariants to be proved.
