----------------------------- MODULE NativeRuntime -----------------------------
(***************************************************************************)
(* The lifecycle of NativePgliteRuntime (native/src/lib.rs): open,         *)
(* exec_protocol_raw, shutdown, take_backend_output and the drop of the    *)
(* value, called from the threads of one host process, with the statics    *)
(* they share: NATIVE_BACKEND_START_ATTEMPTED, ACTIVE_TRANSPORT, the       *)
(* backend's read/write callbacks and its "active" flag.                   *)
(*                                                                         *)
(* The stdio lease is the one of StdioLease, seen from its caller: taking  *)
(* it may fail before the leased call runs, and giving it back may fail    *)
(* after it.  The protocol loop inside exec_protocol_raw is the subject of *)
(* NativeProtocol; here a call succeeds, fails, or ends the backend.       *)
(***************************************************************************)
EXTENDS Naturals

CONSTANTS Threads,     \* threads of the process that call the crate
          NoThread,    \* the null transport pointer
          MaxShutdowns \* bound: calls of shutdown that fail

ASSUME NativeAssumption ==
  /\ NoThread \notin Threads
  /\ MaxShutdowns \in Nat

VARIABLES
  phase,     \* thread -> where its NativePgliteRuntime value stands
  shut,      \* thread -> the value's "shutdown" flag
  claimed,   \* NATIVE_BACKEND_START_ATTEMPTED
  active,    \* ACTIVE_TRANSPORT: the thread whose transport it points to
  callbacks, \* pgl_set_rw_cbs holds native_read and native_write
  pgActive,  \* pgl_setPGliteActive
  backend,   \* PostgreSQL's global state
  lock,      \* the data directory's postmaster.pid
  ledger,    \* thread -> phases with records in backend_output
  entered,   \* how often PostgresSingleUserMain was called
  hooks,     \* how often pgl_run_atexit_funcs was called
  failed     \* shutdown calls that returned an error

vars == <<phase, shut, claimed, active, callbacks, pgActive, backend, lock,
          ledger, entered, hooks, failed>>

statics == <<claimed, active, callbacks, pgActive>>
postgres == <<backend, lock, entered, hooks>>

(***************************************************************************)
(* none: no value; stale: open has read a dead process's lockfile and is   *)
(* about to remove it; prepared: it has passed its checks on the data      *)
(* directory; won: it has claimed the process's start; published: it has   *)
(* stored its transport; failing: the start failed and open cleans up;     *)
(* open: the caller holds the value; gone: the value has been dropped.     *)
(***************************************************************************)
Phases == {"none", "stale", "prepared", "won", "published", "failing", "open", "gone"}
Allocated == {"won", "published", "failing", "open"}
LedgerPhases == {"startup", "protocol", "shutdown"}

TypeOK ==
  /\ phase \in [Threads -> Phases]
  /\ shut \in [Threads -> BOOLEAN]
  /\ claimed \in BOOLEAN
  /\ active \in Threads \cup {NoThread}
  /\ callbacks \in BOOLEAN
  /\ pgActive \in BOOLEAN
  /\ backend \in {"cold", "running", "exited", "hooked"}
  /\ lock \in {"absent", "own", "foreign"}
  /\ ledger \in [Threads -> SUBSET LedgerPhases]
  /\ entered \in Nat
  /\ hooks \in Nat
  /\ failed \in Nat

Init ==
  /\ phase = [t \in Threads |-> "none"]
  /\ shut = [t \in Threads |-> FALSE]
  /\ claimed = FALSE
  /\ active = NoThread
  /\ callbacks = FALSE
  /\ pgActive = FALSE
  /\ backend = "cold"
  /\ lock = "absent"
  /\ ledger = [t \in Threads |-> {}]
  /\ entered = 0
  /\ hooks = 0
  /\ failed = 0

-----------------------------------------------------------------------------
(* open                                                                    *)

Become(t, p) == phase' = [phase EXCEPT ![t] = p]

\* validate, postgres_prefix and ensure_data_dir succeed, and the lockfile is
\* read: none, or another process's, which is left to PostgreSQL if it is a
\* server's and removed if its process is dead.
OpenPrepare(t) ==
  /\ phase[t] \in {"none", "gone"} /\ lock # "own"
  /\ \/ Become(t, "prepared")
     \/ lock = "foreign" /\ Become(t, "stale")
  /\ shut' = [shut EXCEPT ![t] = FALSE]
  /\ ledger' = [ledger EXCEPT ![t] = {}]
  /\ UNCHANGED <<statics, postgres, failed>>

\* The removal takes the lockfile that is there by now, be it another thread's.
RemoveStale(t) ==
  /\ phase[t] = "stale"
  /\ Become(t, "prepared")
  /\ lock' = "absent"
  /\ UNCHANGED <<shut, statics, backend, entered, hooks, ledger, failed>>

\* A check, the reading or the removal fails, or the lock is a living process's,
\* this one included: open returns Err.
OpenFails(t) ==
  /\ phase[t] \in {"none", "stale", "gone"}
  /\ Become(t, IF phase[t] = "stale" THEN "none" ELSE phase[t])
  /\ UNCHANGED <<shut, statics, postgres, ledger, failed>>

\* claim_native_backend_start: compare_exchange(false, true).
\* Mutant: the result of the exchange is not looked at.
IgnoreClaim == TRUE
ClaimWon == ~claimed
OpenClaim(t) ==
  /\ phase[t] = "prepared" /\ ClaimWon
  /\ claimed' = TRUE
  /\ Become(t, "won")
  /\ UNCHANGED <<shut, active, callbacks, pgActive, postgres, ledger, failed>>

\* Another open has claimed the start, now or ever before: this one returns Err.
\* Mutant: it waits for the claim to be handed back instead.
WaitForClaim == FALSE
RefusedNow == ~ClaimWon
OpenRefused(t) ==
  /\ phase[t] = "prepared" /\ RefusedNow
  /\ Become(t, "none")
  /\ UNCHANGED <<shut, statics, postgres, ledger, failed>>

\* Mutant: the callbacks are left as they were.
SkipCallbacks == callbacks
SetCallbacks == TRUE

\* The runtime value is built, its transport published, the callbacks set.
OpenPublish(t) ==
  /\ phase[t] = "won"
  /\ Become(t, "published")
  /\ active' = t
  /\ callbacks' = SetCallbacks
  /\ UNCHANGED <<shut, claimed, pgActive, postgres, ledger, failed>>

\* start_postgres fails before it enters PostgreSQL: the lease cannot be taken,
\* an argument holds a NUL byte, or pgl_setPGliteActive(1) reports an error.
StartFailsEarly(t) ==
  /\ phase[t] = "published"
  /\ Become(t, "failing")
  /\ pgActive' \in BOOLEAN
  /\ UNCHANGED <<shut, claimed, active, callbacks, postgres, ledger, failed>>

\* PostgresSingleUserMain runs and leaves with another status than 99, or
\* pgl_startPGlite does not return 0, or all went well and only giving the lease
\* back failed; open returns Err in each case.  PostgreSQL has created its
\* lockfile, and an exit may or may not have removed it again.
StartFailsInside(t) ==
  /\ phase[t] = "published"
  /\ Become(t, "failing")
  /\ pgActive' = TRUE
  /\ entered' = entered + 1
  /\ \/ backend' = "exited"
        /\ lock' \in IF lock = "absent" THEN {"absent", "own"} ELSE {lock}
     \/ backend' = "running" /\ lock = "absent" /\ lock' = "own"
  /\ UNCHANGED <<shut, claimed, active, callbacks, hooks, ledger, failed>>

\* PostgresSingleUserMain returned 99 through the exit trap, pgl_startPGlite
\* returned 0 and the lease was given back: open returns the value.
StartSucceeds(t) ==
  /\ phase[t] = "published" /\ lock = "absent"
  /\ Become(t, "open")
  /\ pgActive' = TRUE
  /\ entered' = entered + 1
  /\ backend' = "running"
  /\ lock' = "own"
  /\ ledger' = [ledger EXCEPT ![t] = @ \cup {"startup"}]
  /\ UNCHANGED <<shut, claimed, active, callbacks, hooks, failed>>

\* The error arm of open: the statics are reset, except the claim, and the
\* value is dropped with whatever its ledger held.
\* Mutant: the claim is handed back, so that open can be tried again.
ReleaseClaim == FALSE
KeepClaim == claimed
OpenCleanup(t) ==
  /\ phase[t] = "failing"
  /\ Become(t, "gone")
  /\ claimed' = KeepClaim
  /\ active' = NoThread
  /\ callbacks' = FALSE
  /\ pgActive' = FALSE
  /\ UNCHANGED <<shut, postgres, ledger, failed>>

-----------------------------------------------------------------------------
(* exec_protocol_raw and take_backend_output                               *)

\* A call on a runtime whose flag is not set.  The backend serves it, or leaves
\* through exit() in the middle of it, or has left already.
Exec(t) ==
  /\ phase[t] = "open" /\ ~shut[t]
  /\ IF backend = "running"
       THEN \/ backend' = "exited" /\ lock' \in {"absent", lock}
            \/ UNCHANGED <<backend, lock>>
       ELSE UNCHANGED <<backend, lock>>
  /\ \/ ledger' = [ledger EXCEPT ![t] = @ \cup {"protocol"}]
     \/ UNCHANGED ledger \* silent, or the lease failed
  /\ UNCHANGED <<phase, shut, statics, entered, hooks, failed>>

TakeBackendOutput(t) ==
  /\ phase[t] = "open"
  /\ ledger' = [ledger EXCEPT ![t] = {}]
  /\ UNCHANGED <<phase, shut, statics, postgres, failed>>

-----------------------------------------------------------------------------
(* shutdown                                                                *)

\* The lease cannot be taken: Err, and nothing of the closure has run.
ShutdownUnleased(t) ==
  /\ phase[t] = "open" /\ ~shut[t]
  /\ failed < MaxShutdowns /\ failed' = failed + 1
  /\ UNCHANGED <<phase, shut, statics, postgres, ledger>>

\* What the leased closure does whatever comes of it: clear the active flag,
\* run the exit hooks, drop the transport pointer and the callbacks.
\* Mutant: the transport pointer survives the hooks.
KeepTransport == active
ClearTransport == NoThread
Hooks(t) ==
  /\ phase[t] = "open" /\ ~shut[t]
  /\ pgActive' = FALSE
  /\ hooks' = hooks + 1
  /\ backend' = "hooked"
  /\ active' = ClearTransport
  /\ callbacks' = FALSE

\* The hooks remove PostgreSQL's own lockfile or leave it (both occur: that is
\* why remove_current_single_user_postmaster_pid exists); meanwhile another
\* process may have taken the freed directory.
LockAfterHooks == {"absent", "foreign"} \cup ({lock} \cap {"own"})

\* remove_current_single_user_postmaster_pid: its own lock goes.
\* Mutant: the lock is left to PostgreSQL.
LeaveLock(l) == l
RemoveOwnLock(l) == IF l = "own" THEN "absent" ELSE l

\* Mutant: the flag is left for Drop to set.
LeaveFlag(t) == shut
SetFlag(t) == [shut EXCEPT ![t] = TRUE]

\* Mutant: the shutdown lease labels its records with a phase of its own.
ExitPhase == "exit"
ShutdownPhase == "shutdown"

\* Everything succeeds, the lease included, and the flag is set.  Another
\* process's lock is left in place if it is a server's (a living single-user
\* process's is an error), and removed like one's own if its process is dead.
ShutdownSucceeds(t) ==
  /\ Hooks(t)
  /\ \E l \in LockAfterHooks : lock' = RemoveOwnLock(l)
  /\ shut' = SetFlag(t)
  /\ ledger' = [ledger EXCEPT ![t] = @ \cup {ShutdownPhase}]
  /\ UNCHANGED <<phase, claimed, entered, failed>>

\* The hooks exit with an error, or the lockfile cannot be read or removed or
\* is another process's, or the lease cannot be given back (then without
\* records): Err, and the flag stays clear although the hooks have run.
ShutdownFails(t) ==
  /\ Hooks(t)
  /\ \E l \in LockAfterHooks : lock' \in {l, RemoveOwnLock(l)}
  /\ failed < MaxShutdowns /\ failed' = failed + 1
  /\ ledger' \in {ledger, [ledger EXCEPT ![t] = @ \cup {ShutdownPhase}]}
  /\ UNCHANGED <<phase, shut, claimed, entered>>

-----------------------------------------------------------------------------

\* The value is dropped.  NativePgliteRuntime has no Drop: its transport is
\* freed, nothing else happens.
DropRuntime(t) ==
  /\ phase[t] = "open"
  /\ Become(t, "gone")
  /\ UNCHANGED <<shut, statics, postgres, ledger, failed>>

\* The other process lets go of the directory, or (directory free) takes it.
ForeignProcess ==
  /\ \/ lock = "foreign" /\ lock' = "absent"
     \/ lock = "absent" /\ lock' = "foreign"
  /\ UNCHANGED <<phase, shut, statics, backend, entered, hooks, ledger, failed>>

Step(t) ==
  \/ OpenPrepare(t) \/ RemoveStale(t) \/ OpenFails(t) \/ OpenClaim(t) \/ OpenRefused(t) \/ OpenPublish(t)
  \/ StartFailsEarly(t) \/ StartFailsInside(t) \/ StartSucceeds(t) \/ OpenCleanup(t)
  \/ Exec(t) \/ TakeBackendOutput(t)
  \/ ShutdownUnleased(t) \/ ShutdownSucceeds(t) \/ ShutdownFails(t)
  \/ DropRuntime(t)

Next == (\E t \in Threads : Step(t)) \/ ForeignProcess

Spec == Init /\ [][Next]_vars

-----------------------------------------------------------------------------
(* Properties.                                                             *)

\* PostgreSQL is entered at most once in the life of the process, however many
\* threads call open, and whether or not an earlier open failed.
StartedAtMostOnce == entered <= 1

\* At most one thread is past the claim: the statics and the backend, which are
\* the process's, have one user.
OneUserOfTheBackend ==
  \A t, u \in Threads : phase[t] \in Allocated /\ phase[u] \in Allocated => t = u

\* Once shutdown has returned Ok for a value, the hooks have run, no callback of
\* this crate and no transport is left installed, and the process's own lockfile
\* is gone from the data directory, even if earlier calls of shutdown failed.
ShutdownIsComplete ==
  \A t \in Threads : phase[t] = "open" /\ shut[t] =>
    /\ hooks >= 1 /\ backend = "hooked" /\ lock # "own"
    /\ active = NoThread /\ ~callbacks /\ ~pgActive

\* The exit hooks run again only because an earlier shutdown returned an error.
HooksRepeatOnlyAfterFailure == hooks <= failed + 1

\* While the backend can serve a call, the transport it reads and writes is that
\* of the value the call is made on.
CallsReachTheirTransport ==
  \A t \in Threads : phase[t] = "open" /\ backend = "running" => active = t /\ callbacks

\* Where the process stands with respect to the contract of ADR-0011.
Starting == \E t \in Threads : phase[t] \in {"won", "published"}
Running == backend = "running" /\ \E t \in Threads : phase[t] = "open"
ContractStatus ==
  IF ~claimed THEN "unused"
  ELSE IF Starting THEN "starting"
  ELSE IF Running THEN "running"
  ELSE "over"

Contract == INSTANCE SingleStart WITH status <- ContractStatus

\* The runtime implements the single-start-per-process contract.
ImplementsSingleStart == Contract!Spec

\* A startup that failed before PostgreSQL was entered leaves the process able to
\* start its backend (ADR-0011, acceptance criteria: a failed startup does not
\* poison the process).
EarlyFailureDoesNotPoison ==
  (entered = 0 /\ \A t \in Threads : phase[t] \in {"none", "gone"}) => ~claimed
=============================================================================
