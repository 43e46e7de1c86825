----------------------------- MODULE DataDirProofs -----------------------------
(***************************************************************************)
(* Proofs about DataDir, for every set of processes and of process ids.    *)
(* Ids tell living processes apart, and a lockfile whose writer lives has  *)
(* its id in it; so whoever decides to remove a lockfile has read its own  *)
(* or one without a writer, and the file that it removes later is that     *)
(* file, is gone, or has overtaken it.                                     *)
(***************************************************************************)
EXTENDS DataDir, TLAPS

\* The living processes have an id, and no two the same.
IdsAreDistinct ==
  /\ \A p \in Procs : at[p] = "off" <=> pid[p] = Nobody
  /\ \A u, v \in Users : pid[u] = pid[v] /\ pid[u] # Nobody => u = v

\* A lockfile whose writer lives has the writer's id in it.
WriterIsNamed ==
  lock.by # Nobody =>
    /\ lock.kind # "none" /\ lock.pid = pid[lock.by] /\ pid[lock.by] # Nobody

\* What is about to be removed was, when it was read, the reader's own lockfile or
\* one that nobody living had written.
RemovalsAreOwn ==
  \A p \in Procs : seen[p].by \in {p, Nobody}

\* The lockfile of a process that is still there is a single-user one, and of a
\* process that has shut down there is none.
OwnLocksAreSeen ==
  /\ \A p \in Procs : lock.by = p => lock.kind = "single"
  /\ ShutdownLeavesNoLock

IInv == /\ TypeOK /\ IdsAreDistinct /\ WriterIsNamed /\ RemovalsAreOwn
        /\ UserHoldsTheLock /\ OwnLocksAreSeen

-----------------------------------------------------------------------------

\* The invariant holds initially.
LEMMA Initially == Init => IInv
  <1> SUFFICES ASSUME Init PROVE IInv
    OBVIOUS
  <1> USE DataDirAssumption DEF Init
  <1>1. lock \in Lockfiles
    BY DEF Lockfiles, NoLock
  <1>2. TypeOK
    BY <1>1 DEF TypeOK, Points
  <1>3. IdsAreDistinct /\ RemovalsAreOwn /\ WriterIsNamed
    BY DEF IdsAreDistinct, RemovalsAreOwn, WriterIsNamed, NoLock, Users
  <1>4. UserHoldsTheLock
    BY DEF UserHoldsTheLock, Using, Users
  <1>5. OwnLocksAreSeen
    BY DEF OwnLocksAreSeen, ShutdownLeavesNoLock, NoLock
  <1>6. QED
    BY <1>2, <1>3, <1>4, <1>5 DEF IInv

\* Every variable keeps its type.
LEMMA TypeStep == TypeOK /\ [Next]_vars => TypeOK'
  <1> SUFFICES ASSUME TypeOK, [Next]_vars PROVE TypeOK'
    OBVIOUS
  <1> USE DataDirAssumption
      DEF TypeOK, Points, Users, Lockfiles, NoLock, LockOf, Goto
  <1>1. ASSUME NEW p \in Procs, Step(p) PROVE TypeOK'
    <2>1. CASE Begin(p)         BY <2>1 DEF Begin
    <2>2. CASE Reopen(p)        BY <2>2 DEF Reopen
    <2>3. CASE End(p)
      <3>1. lock' \in Lockfiles
        <4>1. CASE lock.by = p
          <5>1. lock' = [lock EXCEPT !.by = Nobody]
            BY <2>3, <4>1 DEF End
          <5>2. QED BY <5>1
        <4>2. CASE lock.by # p BY <2>3, <4>2 DEF End
        <4>3. QED BY <4>1, <4>2
      <3>2. at' \in [Procs -> Points] /\ pid' \in [Users -> Pids \cup {Nobody}]
        BY <2>3 DEF End
      <3>3. seen' \in [Procs -> Lockfiles] /\ UNCHANGED <<tried, cluster, initdb, overtaken>>
        BY <2>3 DEF End
      <3>4. QED BY <3>1, <3>2, <3>3
    <2>4. CASE EnsureDataDir(p) BY <2>4 DEF EnsureDataDir, HasPgVersion
    <2>5. CASE RunInitdb(p)     BY <2>5 DEF RunInitdb
    <2>6. CASE ReadLock(p)      BY <2>6 DEF ReadLock, ToRemove
    <2>7. CASE RemoveStale(p)
      <3>1. lock' \in {NoLock, lock} /\ overtaken' \in BOOLEAN
        BY <2>7 DEF RemoveStale, Remove
      <3>2. QED BY <2>7, <3>1 DEF RemoveStale, Remove
    <2>8. CASE ClaimRefused(p)  BY <2>8 DEF ClaimRefused
    <2>9. CASE StartPostgres(p) BY <2>9 DEF StartPostgres
    <2>10. CASE RunHooks(p)     BY <2>10 DEF RunHooks
    <2>11. CASE ReadLockAgain(p) BY <2>11 DEF ReadLockAgain, ToRemove
    <2>12. CASE RemoveCurrent(p)
      <3>1. lock' \in {NoLock, lock} /\ overtaken' \in BOOLEAN
        BY <2>12 DEF RemoveCurrent, Remove, DropLock
      <3>2. QED BY <2>12, <3>1 DEF RemoveCurrent, Remove
    <2>13. QED
      BY <1>1, <2>1, <2>2, <2>3, <2>4, <2>5, <2>6, <2>7, <2>8, <2>9, <2>10, <2>11,
         <2>12 DEF Step
  <1>2. CASE InitdbWrites       BY <1>2 DEF InitdbWrites
  <1>3. CASE InitdbEnds
    <2>1. at' \in [Procs -> Points]
      BY <1>3 DEF InitdbEnds
    <2>2. cluster' \in {"missing", "ready", cluster} /\ initdb' = FALSE
      BY <1>3 DEF InitdbEnds
    <2>3. UNCHANGED <<tried, pid, lock, seen, overtaken>>
      BY <1>3 DEF InitdbEnds
    <2>4. QED BY <2>1, <2>2, <2>3
  <1>4. CASE ServerStarts       BY <1>4 DEF ServerStarts
  <1>5. CASE ServerStops
    <2>1. pid' \in [Users -> Pids \cup {Nobody}]
      BY <1>5 DEF ServerStops
    <2>2. lock' \in Lockfiles
      <3>1. CASE lock' = [lock EXCEPT !.by = Nobody] BY <3>1
      <3>2. CASE lock' \in {NoLock, lock} BY <3>2
      <3>3. QED BY <1>5, <3>1, <3>2 DEF ServerStops
    <2>3. QED BY <1>5, <2>1, <2>2 DEF ServerStops
  <1>6. CASE UNCHANGED vars     BY <1>6 DEF vars
  <1>7. QED BY <1>1, <1>2, <1>3, <1>4, <1>5, <1>6 DEF Next

Claim == IdsAreDistinct /\ WriterIsNamed /\ RemovalsAreOwn /\ UserHoldsTheLock

\* Every step keeps the rest of the invariant.
LEMMA LockStep == IInv /\ [Next]_vars => Claim'
  <1> SUFFICES ASSUME IInv, [Next]_vars PROVE Claim'
    OBVIOUS
  <1> USE DataDirAssumption
      DEF IInv, TypeOK, Users, Lockfiles, NoLock, LockOf, Goto, Alive, Using, Claim,
          IdsAreDistinct, WriterIsNamed, RemovalsAreOwn, UserHoldsTheLock
  <1>1. ASSUME NEW p \in Procs, Step(p) PROVE Claim'
    <2>1. CASE Begin(p)
      <3>1. PICK n \in Pids : ~Alive(n) /\ pid' = [pid EXCEPT ![p] = n]
        BY <2>1 DEF Begin
      <3>2. at[p] = "off" /\ at' = [at EXCEPT ![p] = "ensure"] /\ UNCHANGED <<lock, seen, overtaken>>
        BY <2>1 DEF Begin
      <3>3. \A u \in Users : pid[u] # n /\ pid'[u] = IF u = p THEN n ELSE pid[u]
        BY <3>1
      <3>4. lock.by # p
        BY <3>2
      <3>5. IdsAreDistinct'
        BY <3>2, <3>3
      <3>6. WriterIsNamed'
        BY <3>2, <3>3, <3>4
      <3>7. RemovalsAreOwn' /\ UserHoldsTheLock'
        BY <3>2, <3>3
      <3>8. QED BY <3>5, <3>6, <3>7
    <2>2. CASE Reopen(p)        BY <2>2 DEF Reopen
    <2>3. CASE End(p)           BY <2>3 DEF End
    <2>4. CASE EnsureDataDir(p) BY <2>4 DEF EnsureDataDir, HasPgVersion
    <2>5. CASE RunInitdb(p)     BY <2>5 DEF RunInitdb
    <2>6. CASE ReadLock(p)      BY <2>6 DEF ReadLock, ToRemove, NativeProcessIsAlive
    <2>7. CASE RemoveStale(p)
      <3>1. CASE UNCHANGED <<lock, overtaken>>
        BY <2>7, <3>1 DEF RemoveStale, Remove
      <3>2. CASE lock' = NoLock /\ overtaken' = (overtaken \/ lock \notin {NoLock, seen[p]})
        <4>1. ~overtaken' => ~overtaken /\ lock.by \in {p, Nobody}
          <5>1. ~overtaken' => ~overtaken /\ (lock = NoLock \/ lock = seen[p])
            BY <3>2, ZenonT(20)
          <5>2. lock = NoLock \/ lock = seen[p] => lock.by \in {p, Nobody}
            OBVIOUS
          <5>3. QED BY <5>1, <5>2
        <4>2. at[p] \notin {"running", "off"} /\ UNCHANGED pid
          BY <2>7 DEF RemoveStale
        <4>3. \E to \in Points \ {"running", "off"} : at' = [at EXCEPT ![p] = to]
          BY <2>7 DEF RemoveStale, Remove, Points
        <4>4. seen' = [seen EXCEPT ![p] = NoLock]
          BY <2>7 DEF RemoveStale, Remove
        <4>5. UserHoldsTheLock'
          BY <3>2, <4>1, <4>2, <4>3
        <4>6. IdsAreDistinct' /\ WriterIsNamed' /\ RemovalsAreOwn'
          BY <3>2, <4>2, <4>3, <4>4
        <4>7. QED BY <4>5, <4>6
      <3>3. QED BY <2>7, <3>1, <3>2 DEF RemoveStale, Remove
    <2>8. CASE ClaimRefused(p)  BY <2>8 DEF ClaimRefused
    <2>9. CASE StartPostgres(p) BY <2>9 DEF StartPostgres, MayTake
    <2>10. CASE RunHooks(p)     BY <2>10 DEF RunHooks
    <2>11. CASE ReadLockAgain(p) BY <2>11 DEF ReadLockAgain, ToRemove, NativeProcessIsAlive
    <2>12. CASE RemoveCurrent(p)
      <3>1. CASE UNCHANGED <<lock, overtaken>>
        BY <2>12, <3>1 DEF RemoveCurrent, Remove, DropLock
      <3>2. CASE lock' = NoLock /\ overtaken' = (overtaken \/ lock \notin {NoLock, seen[p]})
        <4>1. ~overtaken' => ~overtaken /\ lock.by \in {p, Nobody}
          <5>1. ~overtaken' => ~overtaken /\ (lock = NoLock \/ lock = seen[p])
            BY <3>2, ZenonT(20)
          <5>2. lock = NoLock \/ lock = seen[p] => lock.by \in {p, Nobody}
            OBVIOUS
          <5>3. QED BY <5>1, <5>2
        <4>2. at[p] \notin {"running", "off"} /\ UNCHANGED pid
          BY <2>12 DEF RemoveCurrent
        <4>3. \E to \in Points \ {"running", "off"} : at' = [at EXCEPT ![p] = to]
          BY <2>12 DEF RemoveCurrent, Remove, Points
        <4>4. seen' = [seen EXCEPT ![p] = NoLock]
          BY <2>12 DEF RemoveCurrent, Remove
        <4>5. UserHoldsTheLock'
          BY <3>2, <4>1, <4>2, <4>3
        <4>6. IdsAreDistinct' /\ WriterIsNamed' /\ RemovalsAreOwn'
          BY <3>2, <4>2, <4>3, <4>4
        <4>7. QED BY <4>5, <4>6
      <3>3. QED BY <2>12, <3>1, <3>2 DEF RemoveCurrent, Remove, DropLock
    <2>13. QED
      BY <1>1, <2>1, <2>2, <2>3, <2>4, <2>5, <2>6, <2>7, <2>8, <2>9, <2>10, <2>11,
         <2>12 DEF Step
  <1>2. CASE InitdbWrites       BY <1>2 DEF InitdbWrites
  <1>3. CASE InitdbEnds         BY <1>3 DEF InitdbEnds
  <1>4. CASE ServerStarts       BY <1>4 DEF ServerStarts
  <1>5. CASE ServerStops        BY <1>5 DEF ServerStops
  <1>6. CASE UNCHANGED vars     BY <1>6 DEF vars
  <1>7. QED BY <1>1, <1>2, <1>3, <1>4, <1>5, <1>6 DEF Next

\* A lock is written at the start and by its writer's own hand; a shutdown that is
\* about to return Ok found no lock of its own, or has removed it.
LEMMA SeenStep == TypeOK /\ IdsAreDistinct /\ WriterIsNamed /\ OwnLocksAreSeen /\ [Next]_vars
                    => OwnLocksAreSeen'
  <1> SUFFICES ASSUME TypeOK, IdsAreDistinct, WriterIsNamed, OwnLocksAreSeen, [Next]_vars
               PROVE  OwnLocksAreSeen'
    OBVIOUS
  <1> USE DataDirAssumption
      DEF TypeOK, Users, Lockfiles, NoLock, LockOf, Goto, IdsAreDistinct, WriterIsNamed,
          OwnLocksAreSeen, ShutdownLeavesNoLock
  <1>1. ASSUME NEW p \in Procs, Step(p) PROVE OwnLocksAreSeen'
    <2>1. CASE Begin(p)         BY <2>1 DEF Begin
    <2>2. CASE Reopen(p)        BY <2>2 DEF Reopen
    <2>3. CASE End(p)           BY <2>3 DEF End
    <2>4. CASE EnsureDataDir(p) BY <2>4 DEF EnsureDataDir, HasPgVersion
    <2>5. CASE RunInitdb(p)     BY <2>5 DEF RunInitdb
    <2>6. CASE ReadLock(p)      BY <2>6 DEF ReadLock, ToRemove
    <2>7. CASE RemoveStale(p)   BY <2>7 DEF RemoveStale, Remove
    <2>8. CASE ClaimRefused(p)  BY <2>8 DEF ClaimRefused
    <2>9. CASE StartPostgres(p) BY <2>9 DEF StartPostgres
    <2>10. CASE RunHooks(p)     BY <2>10 DEF RunHooks
    <2>11. CASE ReadLockAgain(p) BY <2>11 DEF ReadLockAgain, ToRemove
    <2>12. CASE RemoveCurrent(p) BY <2>12 DEF RemoveCurrent, Remove, DropLock
    <2>13. QED
      BY <1>1, <2>1, <2>2, <2>3, <2>4, <2>5, <2>6, <2>7, <2>8, <2>9, <2>10, <2>11,
         <2>12 DEF Step
  <1>2. CASE InitdbWrites       BY <1>2 DEF InitdbWrites
  <1>3. CASE InitdbEnds         BY <1>3 DEF InitdbEnds
  <1>4. CASE ServerStarts       BY <1>4 DEF ServerStarts
  <1>5. CASE ServerStops        BY <1>5 DEF ServerStops
  <1>6. CASE UNCHANGED vars     BY <1>6 DEF vars
  <1>7. QED BY <1>1, <1>2, <1>3, <1>4, <1>5, <1>6 DEF Next

\* The invariant holds throughout.
LEMMA Invariance == Spec => []IInv
  <1>1. IInv /\ [Next]_vars => IInv'
    BY TypeStep, LockStep, SeenStep DEF IInv, Claim
  <1>2. QED BY Initially, <1>1, PTL DEF Spec

\* Unless a removal was overtaken, whoever uses the files holds the lock, whatever
\* lockfiles crashes have left and whichever process ids are used again.
THEOREM ExclusiveDataDir == Spec => []UserHoldsTheLock
  <1>1. IInv => UserHoldsTheLock BY DEF IInv
  <1>2. QED BY <1>1, Invariance, PTL

\* Processes, directory and lockfile keep their types.
THEOREM DataDirTypes == Spec => []TypeOK
  <1>1. IInv => TypeOK BY DEF IInv
  <1>2. QED BY <1>1, Invariance, PTL

\* A shutdown that returned Ok leaves no lockfile of its process behind, whatever
\* lockfiles others have left, and whoever else opens the directory meanwhile.
THEOREM CleanShutdown == Spec => []ShutdownLeavesNoLock
  <1>1. IInv => ShutdownLeavesNoLock BY DEF IInv, OwnLocksAreSeen
  <1>2. QED BY <1>1, Invariance, PTL
=============================================================================
