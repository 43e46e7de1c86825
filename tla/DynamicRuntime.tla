----------------------------- MODULE DynamicRuntime -----------------------------
(***************************************************************************)
(* DynamicPgliteRuntime (src/dynamic.rs) over the plugin's C functions     *)
(* (plugin/src/lib.rs) over the native runtime: what a host process gets   *)
(* that loads the plugin library and calls it from several threads.        *)
(*                                                                         *)
(* Each plugin function is one native call behind catch_unwind and a       *)
(* status, so its action is the native one plus what the host does with    *)
(* the status.  The host adds a process-wide try-lock, held from load      *)
(* until the runtime is dropped, a shutdown flag of its own, and a Drop    *)
(* that shuts the native runtime down.                                     *)
(***************************************************************************)
EXTENDS Naturals

CONSTANTS Threads, NoThread, MaxShutdowns,
          Poisoned  \* the try-lock's state after a panic while it was held

ASSUME DynamicAssumption ==
  /\ NoThread \notin Threads
  /\ Poisoned \notin Threads \cup {NoThread}
  /\ MaxShutdowns \in Nat

VARIABLES phase, shut, claimed, active, callbacks, pgActive, backend, lock,
          ledger, entered, hooks, failed   \* the native runtime

VARIABLES
  guard,    \* DYNAMIC_RUNTIME_GUARD: free (NoThread), its holder, or Poisoned
  host,     \* thread -> where its DynamicPgliteRuntime stands
  hostShut  \* thread -> that value's "shutdown" flag

Native == INSTANCE NativeRuntime

nativeVars == <<phase, shut, claimed, active, callbacks, pgActive, backend, lock,
                ledger, entered, hooks, failed>>
hostVars == <<guard, host, hostShut>>
vars == <<nativeVars, hostVars>>

\* idle: no runtime; creating: load holds the guard and is in runtime_create;
\* holding: load has returned the value; dropping: Drop has dealt with shutdown
\* and has still to destroy the native runtime.
HostStates == {"idle", "creating", "holding", "dropping"}

TypeOK ==
  /\ Native!TypeOK
  /\ guard \in Threads \cup {NoThread, Poisoned}
  /\ host \in [Threads -> HostStates]
  /\ hostShut \in [Threads -> BOOLEAN]

Init ==
  /\ Native!Init
  /\ guard = NoThread
  /\ host = [t \in Threads |-> "idle"]
  /\ hostShut = [t \in Threads |-> FALSE]

-----------------------------------------------------------------------------
(* load                                                                    *)

Enter(t, s) == host' = [host EXCEPT ![t] = s]

\* Mutant: load blocks nobody.
NoTryLock == TRUE
TryLock == guard = NoThread

\* config.validate, the try-lock, and the plugin library with its ABI version and
\* its symbols are all right; a WouldBlock, a poisoned guard or a plugin that is
\* rejected returns Err with the guard as it was.
Load(t) ==
  /\ host[t] = "idle"
  /\ TryLock
  /\ guard' = t
  /\ Enter(t, "creating")
  /\ hostShut' = [hostShut EXCEPT ![t] = FALSE]
  /\ UNCHANGED nativeVars

\* Steps of NativePgliteRuntime::open inside libpglite_plugin_runtime_create.
Creating(t) ==
  /\ host[t] = "creating"
  /\ \/ Native!OpenPrepare(t)
     \/ Native!RemoveStale(t)
     \/ Native!OpenClaim(t)
     \/ Native!OpenPublish(t)
     \/ Native!StartFailsEarly(t)
     \/ Native!StartFailsInside(t)
  /\ UNCHANGED hostVars

\* open returned a value: it is boxed, and its address becomes the handle.
LoadSucceeds(t) ==
  /\ host[t] = "creating"
  /\ Native!StartSucceeds(t)
  /\ Enter(t, "holding")
  /\ UNCHANGED <<guard, hostShut>>

\* open returned an error: the handle stays null, the status is an error, load
\* returns it and its MutexGuard goes out of scope.
LoadFails(t) ==
  /\ host[t] = "creating"
  /\ \/ Native!OpenFails(t)
     \/ Native!OpenRefused(t)
     \/ Native!OpenCleanup(t)
  /\ Enter(t, "idle")
  /\ guard' = NoThread
  /\ UNCHANGED hostShut

-----------------------------------------------------------------------------
(* Calls on a loaded runtime                                               *)

ExecProtocolRaw(t) ==
  /\ host[t] = "holding" /\ ~hostShut[t]
  /\ Native!Exec(t)
  /\ UNCHANGED hostVars

TakeBackendOutput(t) ==
  /\ host[t] = "holding"
  /\ Native!TakeBackendOutput(t)
  /\ UNCHANGED hostVars

\* The host's flag follows the status of the plugin's shutdown.
ShutdownReturnsOk(t) ==
  /\ host[t] = "holding" /\ ~hostShut[t]
  /\ Native!ShutdownSucceeds(t)
  /\ hostShut' = [hostShut EXCEPT ![t] = TRUE]
  /\ UNCHANGED <<guard, host>>

ShutdownReturnsErr(t) ==
  /\ host[t] = "holding" /\ ~hostShut[t]
  /\ Native!ShutdownUnleased(t) \/ Native!ShutdownFails(t)
  /\ UNCHANGED hostVars

-----------------------------------------------------------------------------
(* Drop                                                                    *)

\* Mutant: Drop destroys the runtime and leaves shutting down to the caller.
NeverInDrop(t) == FALSE
ShutdownInDrop(t) == ~hostShut[t]

\* Drop calls runtime_shutdown unless the flag is set, and ignores the status.
DropShutsDown(t) ==
  /\ host[t] = "holding"
  /\ IF ShutdownInDrop(t)
       THEN \/ Native!ShutdownSucceeds(t)
            \/ Native!ShutdownUnleased(t)
            \/ Native!ShutdownFails(t)
       ELSE UNCHANGED nativeVars
  /\ Enter(t, "dropping")
  /\ UNCHANGED <<guard, hostShut>>

\* runtime_destroy drops the native value; then the fields go, the guard last.
\* Dropped by a panicking thread, the guard is poisoned for good.
DropDestroys(t) ==
  /\ host[t] = "dropping"
  /\ Native!DropRuntime(t)
  /\ Enter(t, "idle")
  /\ guard' \in {NoThread, Poisoned}
  /\ UNCHANGED hostShut

Step(t) ==
  \/ Load(t) \/ Creating(t) \/ LoadSucceeds(t) \/ LoadFails(t)
  \/ ExecProtocolRaw(t) \/ TakeBackendOutput(t)
  \/ ShutdownReturnsOk(t) \/ ShutdownReturnsErr(t)
  \/ DropShutsDown(t) \/ DropDestroys(t)

ForeignProcess == Native!ForeignProcess /\ UNCHANGED hostVars

Next == (\E t \in Threads : Step(t)) \/ ForeignProcess

\* Inside load and inside Drop nothing waits for anybody: the thread runs on.  A
\* holder that never drops its runtime is allowed.
InsideCall(t) ==
  Creating(t) \/ LoadSucceeds(t) \/ LoadFails(t) \/ DropDestroys(t)

Spec == Init /\ [][Next]_vars
FairSpec == Spec /\ \A t \in Threads : WF_vars(InsideCall(t))

-----------------------------------------------------------------------------
(* Properties.                                                             *)

\* Only the thread that holds the guard has a native value, at whatever stage:
\* the plugin is never entered for a runtime while another one is being opened,
\* used or taken down.
GuardCoversTheNativeRuntime ==
  \A t \in Threads : phase[t] \notin {"none", "gone"} => guard = t /\ host[t] # "idle"

\* When the native value is about to be destroyed and no shutdown has failed, the
\* hooks have run exactly once, the directory is not left locked by this process,
\* and no static points into the value.
DestroyedAfterCleanShutdown ==
  \A t \in Threads : host[t] = "dropping" /\ failed = 0 =>
    /\ shut[t] /\ hooks = 1
    /\ lock # "own" /\ active = NoThread /\ ~callbacks

\* A load returns, with a runtime or with an error, whoever else is loading.
LoadReturns == \A t \in Threads : host[t] = "creating" ~> host[t] # "creating"

\* The shutdown hooks are run once in the life of the runtime, not again by the
\* Drop that follows a shutdown (ADR-0011, acceptance criteria: "exactly once";
\* package manifest: "runs-postgres-pglite-shutdown-hooks-once").
HooksRunOnce == hooks <= 1
=============================================================================
