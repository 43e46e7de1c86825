-------------------------------- MODULE DataDir --------------------------------
(***************************************************************************)
(* One data directory and the processes that open native runtimes on it:   *)
(* the steps of NativePgliteRuntime::open and shutdown that read and write *)
(* the directory (native/src/lib.rs), one file operation at a time, with   *)
(* other processes, their crashes and the reuse of process ids in between. *)
(*                                                                         *)
(* External: initdb, PostgreSQL's own handling of postmaster.pid, and an   *)
(* ordinary PostgreSQL server that may use the same directory.             *)
(***************************************************************************)
EXTENDS Naturals

CONSTANTS Procs,   \* host processes that may open the directory
          Pids,    \* process ids the system hands out, and reuses
          Server,  \* the ordinary PostgreSQL server
          Nobody   \* no process, no process id

ASSUME DataDirAssumption ==
  /\ Nobody \notin Procs \cup Pids
  /\ Server \notin Procs \cup {Nobody}

VARIABLES
  at,      \* process -> the next thing it does
  tried,   \* process -> it has claimed its backend start
  pid,     \* process or Server -> its process id, Nobody when it does not run
  cluster, \* what the directory holds
  initdb,  \* an initdb is running
  lock,    \* postmaster.pid
  seen,    \* process -> the lockfile it has read and decided to remove
  overtaken \* a removal met another lockfile than the one read before it

vars == <<at, tried, pid, cluster, initdb, lock, seen, overtaken>>

Users == Procs \cup {Server}

(***************************************************************************)
(* The lockfile: none, a single-user process's (a negative pid in its      *)
(* first line) or a server's (any other), and that pid.  "by" is not in    *)
(* the file: the process that wrote it, Nobody once that has ended.        *)
(***************************************************************************)
Lockfiles == [kind : {"none", "single", "server"}, pid : Pids \cup {Nobody},
              by : Users \cup {Nobody}]
NoLock == [kind |-> "none", pid |-> Nobody, by |-> Nobody]
LockOf(p) == [kind |-> "single", pid |-> pid[p], by |-> p]

Points == {"off", "ensure", "initdb", "waiting", "readLock", "removeStale", "start",
           "running", "hooked", "remove", "down", "shutdownFailed", "failed",
           "refused"}

TypeOK ==
  /\ at \in [Procs -> Points]
  /\ tried \in [Procs -> BOOLEAN]
  /\ pid \in [Users -> Pids \cup {Nobody}]
  /\ cluster \in {"missing", "partial", "versioned", "ready"}
  /\ initdb \in BOOLEAN
  /\ lock \in Lockfiles
  /\ seen \in [Procs -> Lockfiles]
  /\ overtaken \in BOOLEAN

Init ==
  /\ at = [p \in Procs |-> "off"]
  /\ tried = [p \in Procs |-> FALSE]
  /\ pid = [u \in Users |-> Nobody]
  /\ cluster \in {"missing", "ready"}
  /\ initdb = FALSE
  /\ lock = NoLock
  /\ seen = [p \in Procs |-> NoLock]
  /\ overtaken = FALSE

Goto(p, s) == at' = [at EXCEPT ![p] = s]
Alive(n) == \E u \in Users : pid[u] = n

-----------------------------------------------------------------------------
(* Processes come and go.                                                  *)

\* A process starts, with an id no living process has, and calls open.
Begin(p) ==
  /\ at[p] = "off"
  /\ \E n \in Pids : ~Alive(n) /\ pid' = [pid EXCEPT ![p] = n]
  /\ Goto(p, "ensure")
  /\ tried' = [tried EXCEPT ![p] = FALSE]
  /\ UNCHANGED <<cluster, initdb, lock, seen, overtaken>>

\* A process whose open or whose runtime is over calls open again; the claim is
\* looked at only after the directory has been dealt with.
Reopen(p) ==
  /\ at[p] \in {"down", "shutdownFailed", "failed", "refused"}
  /\ Goto(p, "ensure")
  /\ UNCHANGED <<tried, pid, cluster, initdb, lock, seen, overtaken>>

\* A process ends, at any point: it exits or is killed.  Its initdb goes on.
End(p) ==
  /\ at[p] # "off"
  /\ Goto(p, "off")
  /\ pid' = [pid EXCEPT ![p] = Nobody]
  /\ lock' = IF lock.by = p THEN [lock EXCEPT !.by = Nobody] ELSE lock
  /\ seen' = [seen EXCEPT ![p] = NoLock]
  /\ UNCHANGED <<tried, cluster, initdb, overtaken>>

-----------------------------------------------------------------------------
(* ensure_data_dir                                                         *)

HasPgVersion == cluster \in {"versioned", "ready"}

EnsureDataDir(p) ==
  /\ at[p] = "ensure"
  /\ Goto(p, IF HasPgVersion THEN "readLock"
             ELSE IF cluster = "partial" THEN "failed"
             ELSE "initdb")
  /\ UNCHANGED <<tried, pid, cluster, initdb, lock, seen, overtaken>>

\* The initdb child finds the directory empty and starts to fill it, or fails.
RunInitdb(p) ==
  /\ at[p] = "initdb"
  /\ IF cluster = "missing"
       THEN cluster' = "partial" /\ initdb' = TRUE /\ Goto(p, "waiting")
       ELSE Goto(p, "failed") /\ UNCHANGED <<cluster, initdb>>
  /\ UNCHANGED <<tried, pid, lock, seen, overtaken>>

\* initdb writes PG_VERSION first and the rest of the cluster after it.
InitdbWrites ==
  /\ initdb /\ cluster = "partial"
  /\ cluster' = "versioned"
  /\ UNCHANGED <<at, tried, pid, initdb, lock, seen, overtaken>>

\* initdb ends: with a cluster; with an error, having removed what it wrote; or
\* killed, with the directory as it stands.  Its caller, if it is still there and
\* waits, goes on accordingly.
InitdbEnds ==
  /\ initdb
  /\ \E done \in BOOLEAN :
       /\ IF done
            THEN cluster = "versioned" /\ cluster' = "ready"
            ELSE cluster' \in {"missing", cluster}
       /\ at' = [p \in Procs |->
                   IF at[p] = "waiting" THEN (IF done THEN "readLock" ELSE "failed") ELSE at[p]]
  /\ initdb' = FALSE
  /\ UNCHANGED <<tried, pid, lock, seen, overtaken>>

-----------------------------------------------------------------------------
(* The lockfile in open and shutdown: read, then removed.                  *)

\* Mutant: EPERM, as for another user's process, counts as dead.
DeadToItsUser(n) == FALSE

\* kill(pid, 0) succeeds, or fails with EPERM.
NativeProcessIsAlive(n) == Alive(n)

\* The file that was read is to be removed, in a step of its own.
ToRemove(p, s) ==
  /\ Goto(p, s)
  /\ seen' = [seen EXCEPT ![p] = lock]

\* remove_postmaster_pid: whatever lockfile is there by now goes, and none is as
\* good; or the removal fails, and the caller with it.
Remove(p, ok, left, failed) ==
  /\ seen' = [seen EXCEPT ![p] = NoLock]
  /\ \/ Goto(p, ok) /\ lock' = left /\ overtaken' = (overtaken \/ lock \notin {NoLock, seen[p]})
     \/ Goto(p, failed) /\ lock # NoLock /\ UNCHANGED <<lock, overtaken>>

\* read_postmaster_pid_lock and the decision: no lock, or a server's, is left to
\* PostgreSQL; a living single-user process refuses the open; a dead one does not.
\* A file that cannot be read, or whose id is out of range, ends the open.
ReadLock(p) ==
  /\ at[p] = "readLock"
  /\ \/ lock.kind # "single" /\ Goto(p, "start") /\ UNCHANGED seen
     \/ /\ lock.kind = "single" /\ NativeProcessIsAlive(lock.pid)
        /\ Goto(p, "refused") /\ UNCHANGED seen
     \/ /\ lock.kind = "single" /\ ~NativeProcessIsAlive(lock.pid)
        /\ ToRemove(p, "removeStale")
     \/ lock.kind # "none" /\ Goto(p, "failed") /\ UNCHANGED seen
  /\ UNCHANGED <<tried, pid, cluster, initdb, lock, overtaken>>

RemoveStale(p) ==
  /\ at[p] = "removeStale"
  /\ Remove(p, "start", NoLock, "failed")
  /\ UNCHANGED <<tried, pid, cluster, initdb>>

\* PostgreSQL's own rule for taking postmaster.pid: nobody living holds it, or
\* the id in it is one's own, left by a process that had it before.
MayTake(p) == lock.kind = "none" \/ ~Alive(lock.pid) \/ lock.pid = pid[p]

\* The process has claimed a backend start before: open returns Err.
ClaimRefused(p) ==
  /\ at[p] = "start" /\ tried[p]
  /\ Goto(p, "failed")
  /\ UNCHANGED <<tried, pid, cluster, initdb, lock, seen, overtaken>>

\* The claim, and start_postgres: PostgreSQL takes the lockfile, or exits because
\* it cannot; it then runs, or fails (a cluster that is not complete fails), with
\* its lockfile removed again or left.
StartPostgres(p) ==
  /\ at[p] = "start" /\ ~tried[p]
  /\ tried' = [tried EXCEPT ![p] = TRUE]
  /\ \/ ~MayTake(p) /\ Goto(p, "failed") /\ UNCHANGED lock
     \/ MayTake(p) /\ cluster = "ready" /\ Goto(p, "running") /\ lock' = LockOf(p)
     \/ MayTake(p) /\ Goto(p, "failed") /\ lock' \in {NoLock, LockOf(p)}
  /\ UNCHANGED <<pid, cluster, initdb, seen, overtaken>>

\* pgl_run_atexit_funcs: the backend has stopped; its lockfile is gone, or not.
\* Hooks that fail end the shutdown.  One that failed may be called again.
RunHooks(p) ==
  /\ at[p] \in {"running", "shutdownFailed"}
  /\ Goto(p, "hooked") \/ Goto(p, "shutdownFailed")
  /\ lock' \in {lock, IF lock.by = p THEN NoLock ELSE lock}
  /\ UNCHANGED <<tried, pid, cluster, initdb, seen, overtaken>>

\* remove_current_single_user_postmaster_pid, up to the decision: a lockfile of
\* this process or of a dead one goes, one of another living process is an error.
ReadLockAgain(p) ==
  /\ at[p] = "hooked"
  /\ \/ lock.kind # "single" /\ Goto(p, "down") /\ UNCHANGED seen
     \/ /\ lock.kind = "single"
        /\ lock.pid = pid[p] \/ ~NativeProcessIsAlive(lock.pid)
        /\ ToRemove(p, "remove")
     \/ /\ lock.kind = "single"
        /\ lock.pid # pid[p] /\ NativeProcessIsAlive(lock.pid)
        /\ Goto(p, "shutdownFailed") /\ UNCHANGED seen
     \/ lock.kind # "none" /\ Goto(p, "shutdownFailed") /\ UNCHANGED seen
  /\ UNCHANGED <<tried, pid, cluster, initdb, lock, overtaken>>

\* Mutant: the shutdown leaves the lockfile to the next open.
KeepLock == lock
DropLock == NoLock
RemoveCurrent(p) ==
  /\ at[p] = "remove"
  /\ Remove(p, "down", DropLock, "shutdownFailed")
  /\ UNCHANGED <<tried, pid, cluster, initdb>>

-----------------------------------------------------------------------------
(* The server                                                              *)

ServerStarts ==
  /\ pid[Server] = Nobody /\ cluster = "ready"
  /\ \E n \in Pids :
       /\ ~Alive(n)
       /\ lock.kind = "none" \/ ~Alive(lock.pid)
       /\ pid' = [pid EXCEPT ![Server] = n]
       /\ lock' = [kind |-> "server", pid |-> n, by |-> Server]
  /\ UNCHANGED <<at, tried, cluster, initdb, seen, overtaken>>

\* A shutdown removes the server's lockfile, a crash leaves it.
ServerStops ==
  /\ pid[Server] # Nobody
  /\ pid' = [pid EXCEPT ![Server] = Nobody]
  /\ lock' \in IF lock.by = Server THEN {NoLock, [lock EXCEPT !.by = Nobody]} ELSE {lock}
  /\ UNCHANGED <<at, tried, cluster, initdb, seen, overtaken>>

Step(p) ==
  \/ Begin(p) \/ Reopen(p) \/ End(p)
  \/ EnsureDataDir(p) \/ RunInitdb(p)
  \/ ReadLock(p) \/ RemoveStale(p) \/ ClaimRefused(p) \/ StartPostgres(p)
  \/ RunHooks(p) \/ ReadLockAgain(p) \/ RemoveCurrent(p)

Next ==
  \/ \E p \in Procs : Step(p)
  \/ InitdbWrites \/ InitdbEnds \/ ServerStarts \/ ServerStops

Spec == Init /\ [][Next]_vars

-----------------------------------------------------------------------------
(* Properties.                                                             *)

\* The users of the directory's files: backends that run, and the server.
Using(u) == IF u = Server THEN pid[Server] # Nobody ELSE at[u] = "running"

\* Whoever uses the files holds the lock, so that they have at most one user,
\* whatever lockfiles crashes have left, however many opens and shutdowns remove
\* them and whichever process ids are used again.  There is one exception, and
\* this is the only one: between reading and removing a dead process's lockfile
\* somebody else has taken the directory, and its lockfile goes instead.
UserHoldsTheLock ==
  ~overtaken => \A u \in Users : Using(u) => lock.by = u

\* A shutdown that returned Ok leaves no lockfile of its process behind
\* (tests/dynamic_plugin.rs: "must not leave postmaster.pid").
ShutdownLeavesNoLock ==
  \A p \in Procs : at[p] = "down" => lock.by # p

\* An open is refused as "locked by active single-user process" only when the
\* process that wrote the lockfile is still there (the error's own words).
RefusedByTheHolder ==
  [][ \A p \in Procs :
        at[p] = "readLock" /\ at'[p] = "refused" => lock.by # Nobody ]_vars

\* The open never removes a living server's lockfile (native/src/lib.rs, test
\* positive_postmaster_pid_is_not_removed_before_startup).
ServerLockIsKept ==
  [][ \A p \in Procs :
        at[p] = "removeStale" /\ at'[p] = "start" => lock.by # Server ]_vars
=============================================================================
