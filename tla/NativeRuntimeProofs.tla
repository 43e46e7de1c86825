-------------------------- MODULE NativeRuntimeProofs --------------------------
(***************************************************************************)
(* Proofs about NativeRuntime, for every set of threads and every bound.   *)
(* The argument rests on one fact: the claim is taken by compare-exchange  *)
(* and never handed back, so at most one value is ever past it.            *)
(***************************************************************************)
EXTENDS NativeRuntime, TLAPS

\* Before anybody claims the start, nobody is past the claim and PostgreSQL is
\* untouched.
UntouchedBeforeClaim ==
  ~claimed => /\ entered = 0 /\ hooks = 0
              /\ \A t \in Threads : phase[t] \in {"none", "stale", "prepared"}

\* The winner has not entered PostgreSQL yet, and its value is not shut down.
WinnerIsFresh ==
  \A t \in Threads :
    /\ phase[t] \in {"won", "published"} => entered = 0
    /\ phase[t] \in {"won", "published", "failing"} => hooks = 0
    /\ phase[t] \in {"stale", "prepared", "won", "published", "failing"} => ~shut[t]
    /\ phase[t] = "published" => active = t /\ callbacks

\* While a value is not shut down, every run of the hooks was a failed shutdown.
HooksCounted ==
  \A t \in Threads : phase[t] = "open" /\ ~shut[t] => hooks <= failed

IInv ==
  /\ TypeOK
  /\ UntouchedBeforeClaim
  /\ OneUserOfTheBackend
  /\ WinnerIsFresh
  /\ StartedAtMostOnce
  /\ ShutdownIsComplete
  /\ HooksCounted
  /\ HooksRepeatOnlyAfterFailure
  /\ CallsReachTheirTransport

-----------------------------------------------------------------------------

\* Every variable keeps its type (TypeOK).
LEMMA TypeCorrect == TypeOK /\ [Next]_vars => TypeOK'
  <1> SUFFICES ASSUME TypeOK, [Next]_vars PROVE TypeOK'
    OBVIOUS
  <1> USE NativeAssumption DEF TypeOK, Phases, LedgerPhases, Become, statics, postgres
  <1>1. ASSUME NEW t \in Threads, Step(t) PROVE TypeOK'
    <2>1. CASE OpenPrepare(t)       BY <2>1 DEF OpenPrepare
    <2>1a. CASE RemoveStale(t)      BY <2>1a DEF RemoveStale
    <2>1b. CASE OpenFails(t)        BY <2>1b DEF OpenFails
    <2>2. CASE OpenClaim(t)         BY <2>2 DEF OpenClaim
    <2>3. CASE OpenRefused(t)       BY <2>3 DEF OpenRefused
    <2>4. CASE OpenPublish(t)       BY <2>4 DEF OpenPublish, SetCallbacks
    <2>5. CASE StartFailsEarly(t)   BY <2>5 DEF StartFailsEarly
    <2>6. CASE StartFailsInside(t)  BY <2>6 DEF StartFailsInside
    <2>7. CASE StartSucceeds(t)     BY <2>7 DEF StartSucceeds
    <2>8. CASE OpenCleanup(t)       BY <2>8 DEF OpenCleanup, KeepClaim
    <2>9. CASE Exec(t)              BY <2>9 DEF Exec
    <2>10. CASE TakeBackendOutput(t) BY <2>10 DEF TakeBackendOutput
    <2>11. CASE ShutdownUnleased(t) BY <2>11 DEF ShutdownUnleased
    <2>12. CASE ShutdownSucceeds(t)
      <3>1. lock' \in {"absent", "own", "foreign"}
        BY <2>12 DEF ShutdownSucceeds, LockAfterHooks, RemoveOwnLock
      <3>2. ledger' \in [Threads -> SUBSET LedgerPhases]
        BY <2>12 DEF ShutdownSucceeds, ShutdownPhase
      <3>3. shut' \in [Threads -> BOOLEAN]
        BY <2>12 DEF ShutdownSucceeds, SetFlag
      <3>4. backend' = "hooked" /\ hooks' = hooks + 1 /\ ~callbacks' /\ ~pgActive'
            /\ active' = NoThread
        BY <2>12 DEF ShutdownSucceeds, Hooks, ClearTransport
      <3>5. UNCHANGED <<phase, claimed, entered, failed>>
        BY <2>12 DEF ShutdownSucceeds
      <3>6. callbacks' \in BOOLEAN /\ pgActive' \in BOOLEAN
        BY <2>12 DEF ShutdownSucceeds, Hooks
      <3>7. QED
        BY <3>1, <3>2, <3>3, <3>4, <3>5, <3>6
    <2>13. CASE ShutdownFails(t)
      <3>1. lock' \in {"absent", "own", "foreign"}
        BY <2>13 DEF ShutdownFails, LockAfterHooks, RemoveOwnLock
      <3>2. ledger' \in [Threads -> SUBSET LedgerPhases]
        BY <2>13 DEF ShutdownFails, ShutdownPhase
      <3>3. failed' \in Nat
        BY <2>13 DEF ShutdownFails
      <3>4. backend' = "hooked" /\ hooks' = hooks + 1 /\ active' = NoThread
        BY <2>13 DEF ShutdownFails, Hooks, ClearTransport
      <3>5. UNCHANGED <<phase, shut, claimed, entered>>
        BY <2>13 DEF ShutdownFails
      <3>6. callbacks' \in BOOLEAN /\ pgActive' \in BOOLEAN
        BY <2>13 DEF ShutdownFails, Hooks
      <3>7. QED
        BY <3>1, <3>2, <3>3, <3>4, <3>5, <3>6
    <2>14. CASE DropRuntime(t)      BY <2>14 DEF DropRuntime
    <2>15. QED
      BY <1>1, <2>1, <2>1a, <2>1b, <2>2, <2>3, <2>4, <2>5, <2>6, <2>7, <2>8, <2>9, <2>10, <2>11,
         <2>12, <2>13, <2>14 DEF Step
  <1>2. CASE ForeignProcess          BY <1>2 DEF ForeignProcess
  <1>3. CASE UNCHANGED vars          BY <1>3 DEF vars
  <1>4. QED BY <1>1, <1>2, <1>3 DEF Next

-----------------------------------------------------------------------------

\* Nobody else gets past the claim (OneUserOfTheBackend).
LEMMA OneUserStep == IInv /\ [Next]_vars => OneUserOfTheBackend'
  <1> SUFFICES ASSUME IInv, [Next]_vars PROVE OneUserOfTheBackend'
    OBVIOUS
  <1> USE NativeAssumption DEF IInv, TypeOK, UntouchedBeforeClaim, OneUserOfTheBackend, Become, Allocated, statics, postgres
  <1>1. ASSUME NEW t \in Threads, Step(t) PROVE OneUserOfTheBackend'
    <2>1. CASE OpenPrepare(t)       BY <2>1 DEF OpenPrepare
    <2>1a. CASE RemoveStale(t)      BY <2>1a DEF RemoveStale
    <2>1b. CASE OpenFails(t)        BY <2>1b DEF OpenFails
    <2>2. CASE OpenClaim(t)         BY <2>2 DEF OpenClaim, ClaimWon
    <2>3. CASE OpenRefused(t)       BY <2>3 DEF OpenRefused, RefusedNow, ClaimWon
    <2>4. CASE OpenPublish(t)       BY <2>4 DEF OpenPublish, SetCallbacks
    <2>5. CASE StartFailsEarly(t)   BY <2>5 DEF StartFailsEarly
    <2>6. CASE StartFailsInside(t)  BY <2>6 DEF StartFailsInside
    <2>7. CASE StartSucceeds(t)     BY <2>7 DEF StartSucceeds
    <2>8. CASE OpenCleanup(t)       BY <2>8 DEF OpenCleanup, KeepClaim
    <2>9. CASE Exec(t)              BY <2>9 DEF Exec
    <2>10. CASE TakeBackendOutput(t) BY <2>10 DEF TakeBackendOutput
    <2>11. CASE ShutdownUnleased(t) BY <2>11 DEF ShutdownUnleased
    <2>12. CASE ShutdownSucceeds(t)
      BY <2>12 DEF ShutdownSucceeds, Hooks, ClearTransport, SetFlag, LockAfterHooks,
                   RemoveOwnLock
    <2>13. CASE ShutdownFails(t)
      BY <2>13 DEF ShutdownFails, Hooks, ClearTransport, LockAfterHooks, RemoveOwnLock
    <2>14. CASE DropRuntime(t)      BY <2>14 DEF DropRuntime
    <2>15. QED
      BY <1>1, <2>1, <2>1a, <2>1b, <2>2, <2>3, <2>4, <2>5, <2>6, <2>7, <2>8, <2>9, <2>10, <2>11,
         <2>12, <2>13, <2>14 DEF Step
  <1>2. CASE ForeignProcess         BY <1>2 DEF ForeignProcess
  <1>3. CASE UNCHANGED vars         BY <1>3 DEF vars
  <1>4. QED BY <1>1, <1>2, <1>3 DEF Next

\* Only the claim ends the untouched state (UntouchedBeforeClaim).
LEMMA UntouchedStep == IInv /\ [Next]_vars => UntouchedBeforeClaim'
  <1> SUFFICES ASSUME IInv, [Next]_vars PROVE UntouchedBeforeClaim'
    OBVIOUS
  <1> USE NativeAssumption DEF IInv, TypeOK, UntouchedBeforeClaim, Become, Allocated, statics, postgres
  <1>1. ASSUME NEW t \in Threads, Step(t) PROVE UntouchedBeforeClaim'
    <2>1. CASE OpenPrepare(t)       BY <2>1 DEF OpenPrepare
    <2>1a. CASE RemoveStale(t)      BY <2>1a DEF RemoveStale
    <2>1b. CASE OpenFails(t)        BY <2>1b DEF OpenFails
    <2>2. CASE OpenClaim(t)         BY <2>2 DEF OpenClaim, ClaimWon
    <2>3. CASE OpenRefused(t)       BY <2>3 DEF OpenRefused, RefusedNow, ClaimWon
    <2>4. CASE OpenPublish(t)       BY <2>4 DEF OpenPublish, SetCallbacks
    <2>5. CASE StartFailsEarly(t)   BY <2>5 DEF StartFailsEarly
    <2>6. CASE StartFailsInside(t)  BY <2>6 DEF StartFailsInside
    <2>7. CASE StartSucceeds(t)     BY <2>7 DEF StartSucceeds
    <2>8. CASE OpenCleanup(t)       BY <2>8 DEF OpenCleanup, KeepClaim
    <2>9. CASE Exec(t)              BY <2>9 DEF Exec
    <2>10. CASE TakeBackendOutput(t) BY <2>10 DEF TakeBackendOutput
    <2>11. CASE ShutdownUnleased(t) BY <2>11 DEF ShutdownUnleased
    <2>12. CASE ShutdownSucceeds(t)
      BY <2>12 DEF ShutdownSucceeds, Hooks, ClearTransport, SetFlag, LockAfterHooks,
                   RemoveOwnLock
    <2>13. CASE ShutdownFails(t)
      BY <2>13 DEF ShutdownFails, Hooks, ClearTransport, LockAfterHooks, RemoveOwnLock
    <2>14. CASE DropRuntime(t)      BY <2>14 DEF DropRuntime
    <2>15. QED
      BY <1>1, <2>1, <2>1a, <2>1b, <2>2, <2>3, <2>4, <2>5, <2>6, <2>7, <2>8, <2>9, <2>10, <2>11,
         <2>12, <2>13, <2>14 DEF Step
  <1>2. CASE ForeignProcess         BY <1>2 DEF ForeignProcess
  <1>3. CASE UNCHANGED vars         BY <1>3 DEF vars
  <1>4. QED BY <1>1, <1>2, <1>3 DEF Next

\* The winner stays fresh until it has entered PostgreSQL (WinnerIsFresh).
LEMMA FreshStep == IInv /\ [Next]_vars => WinnerIsFresh'
  <1> SUFFICES ASSUME IInv, [Next]_vars PROVE WinnerIsFresh'
    OBVIOUS
  <1> USE NativeAssumption DEF IInv, TypeOK, UntouchedBeforeClaim, OneUserOfTheBackend, WinnerIsFresh, Become, Allocated, statics, postgres
  <1>1. ASSUME NEW t \in Threads, Step(t) PROVE WinnerIsFresh'
    <2>1. CASE OpenPrepare(t)       BY <2>1 DEF OpenPrepare
    <2>1a. CASE RemoveStale(t)      BY <2>1a DEF RemoveStale
    <2>1b. CASE OpenFails(t)        BY <2>1b DEF OpenFails
    <2>2. CASE OpenClaim(t)         BY <2>2 DEF OpenClaim, ClaimWon
    <2>3. CASE OpenRefused(t)       BY <2>3 DEF OpenRefused, RefusedNow, ClaimWon
    <2>4. CASE OpenPublish(t)       BY <2>4 DEF OpenPublish, SetCallbacks
    <2>5. CASE StartFailsEarly(t)   BY <2>5 DEF StartFailsEarly
    <2>6. CASE StartFailsInside(t)  BY <2>6 DEF StartFailsInside
    <2>7. CASE StartSucceeds(t)     BY <2>7 DEF StartSucceeds
    <2>8. CASE OpenCleanup(t)       BY <2>8 DEF OpenCleanup, KeepClaim
    <2>9. CASE Exec(t)              BY <2>9 DEF Exec
    <2>10. CASE TakeBackendOutput(t) BY <2>10 DEF TakeBackendOutput
    <2>11. CASE ShutdownUnleased(t) BY <2>11 DEF ShutdownUnleased
    <2>12. CASE ShutdownSucceeds(t)
      BY <2>12 DEF ShutdownSucceeds, Hooks, ClearTransport, SetFlag, LockAfterHooks,
                   RemoveOwnLock
    <2>13. CASE ShutdownFails(t)
      BY <2>13 DEF ShutdownFails, Hooks, ClearTransport, LockAfterHooks, RemoveOwnLock
    <2>14. CASE DropRuntime(t)      BY <2>14 DEF DropRuntime
    <2>15. QED
      BY <1>1, <2>1, <2>1a, <2>1b, <2>2, <2>3, <2>4, <2>5, <2>6, <2>7, <2>8, <2>9, <2>10, <2>11,
         <2>12, <2>13, <2>14 DEF Step
  <1>2. CASE ForeignProcess         BY <1>2 DEF ForeignProcess
  <1>3. CASE UNCHANGED vars         BY <1>3 DEF vars
  <1>4. QED BY <1>1, <1>2, <1>3 DEF Next

\* PostgreSQL is not entered again (StartedAtMostOnce).
LEMMA StartedStep == IInv /\ [Next]_vars => StartedAtMostOnce'
  <1> SUFFICES ASSUME IInv, [Next]_vars PROVE StartedAtMostOnce'
    OBVIOUS
  <1> USE NativeAssumption DEF IInv, TypeOK, WinnerIsFresh, StartedAtMostOnce, Become, Allocated, statics, postgres
  <1>1. ASSUME NEW t \in Threads, Step(t) PROVE StartedAtMostOnce'
    <2>1. CASE OpenPrepare(t)       BY <2>1 DEF OpenPrepare
    <2>1a. CASE RemoveStale(t)      BY <2>1a DEF RemoveStale
    <2>1b. CASE OpenFails(t)        BY <2>1b DEF OpenFails
    <2>2. CASE OpenClaim(t)         BY <2>2 DEF OpenClaim, ClaimWon
    <2>3. CASE OpenRefused(t)       BY <2>3 DEF OpenRefused, RefusedNow, ClaimWon
    <2>4. CASE OpenPublish(t)       BY <2>4 DEF OpenPublish, SetCallbacks
    <2>5. CASE StartFailsEarly(t)   BY <2>5 DEF StartFailsEarly
    <2>6. CASE StartFailsInside(t)  BY <2>6 DEF StartFailsInside
    <2>7. CASE StartSucceeds(t)     BY <2>7 DEF StartSucceeds
    <2>8. CASE OpenCleanup(t)       BY <2>8 DEF OpenCleanup, KeepClaim
    <2>9. CASE Exec(t)              BY <2>9 DEF Exec
    <2>10. CASE TakeBackendOutput(t) BY <2>10 DEF TakeBackendOutput
    <2>11. CASE ShutdownUnleased(t) BY <2>11 DEF ShutdownUnleased
    <2>12. CASE ShutdownSucceeds(t)
      BY <2>12 DEF ShutdownSucceeds, Hooks, ClearTransport, SetFlag, LockAfterHooks,
                   RemoveOwnLock
    <2>13. CASE ShutdownFails(t)
      BY <2>13 DEF ShutdownFails, Hooks, ClearTransport, LockAfterHooks, RemoveOwnLock
    <2>14. CASE DropRuntime(t)      BY <2>14 DEF DropRuntime
    <2>15. QED
      BY <1>1, <2>1, <2>1a, <2>1b, <2>2, <2>3, <2>4, <2>5, <2>6, <2>7, <2>8, <2>9, <2>10, <2>11,
         <2>12, <2>13, <2>14 DEF Step
  <1>2. CASE ForeignProcess         BY <1>2 DEF ForeignProcess
  <1>3. CASE UNCHANGED vars         BY <1>3 DEF vars
  <1>4. QED BY <1>1, <1>2, <1>3 DEF Next

\* A finished shutdown stays complete (ShutdownIsComplete).
LEMMA CompleteStep == IInv /\ [Next]_vars => ShutdownIsComplete'
  <1> SUFFICES ASSUME IInv, [Next]_vars PROVE ShutdownIsComplete'
    OBVIOUS
  <1> USE NativeAssumption DEF IInv, TypeOK, OneUserOfTheBackend, WinnerIsFresh, ShutdownIsComplete, Become, Allocated, statics, postgres
  <1>1. ASSUME NEW t \in Threads, Step(t) PROVE ShutdownIsComplete'
    <2>1. CASE OpenPrepare(t)       BY <2>1 DEF OpenPrepare
    <2>1a. CASE RemoveStale(t)      BY <2>1a DEF RemoveStale
    <2>1b. CASE OpenFails(t)        BY <2>1b DEF OpenFails
    <2>2. CASE OpenClaim(t)         BY <2>2 DEF OpenClaim, ClaimWon
    <2>3. CASE OpenRefused(t)       BY <2>3 DEF OpenRefused, RefusedNow, ClaimWon
    <2>4. CASE OpenPublish(t)       BY <2>4 DEF OpenPublish, SetCallbacks
    <2>5. CASE StartFailsEarly(t)   BY <2>5 DEF StartFailsEarly
    <2>6. CASE StartFailsInside(t)  BY <2>6 DEF StartFailsInside
    <2>7. CASE StartSucceeds(t)     BY <2>7 DEF StartSucceeds
    <2>8. CASE OpenCleanup(t)       BY <2>8 DEF OpenCleanup, KeepClaim
    <2>9. CASE Exec(t)              BY <2>9 DEF Exec
    <2>10. CASE TakeBackendOutput(t) BY <2>10 DEF TakeBackendOutput
    <2>11. CASE ShutdownUnleased(t) BY <2>11 DEF ShutdownUnleased
    <2>12. CASE ShutdownSucceeds(t)
      BY <2>12 DEF ShutdownSucceeds, Hooks, ClearTransport, SetFlag, LockAfterHooks,
                   RemoveOwnLock
    <2>13. CASE ShutdownFails(t)
      BY <2>13 DEF ShutdownFails, Hooks, ClearTransport, LockAfterHooks, RemoveOwnLock
    <2>14. CASE DropRuntime(t)      BY <2>14 DEF DropRuntime
    <2>15. QED
      BY <1>1, <2>1, <2>1a, <2>1b, <2>2, <2>3, <2>4, <2>5, <2>6, <2>7, <2>8, <2>9, <2>10, <2>11,
         <2>12, <2>13, <2>14 DEF Step
  <1>2. CASE ForeignProcess         BY <1>2 DEF ForeignProcess
  <1>3. CASE UNCHANGED vars         BY <1>3 DEF vars
  <1>4. QED BY <1>1, <1>2, <1>3 DEF Next

\* The hooks are counted (HooksCounted, HooksRepeatOnlyAfterFailure).
LEMMA CountStep == IInv /\ [Next]_vars => (HooksCounted /\ HooksRepeatOnlyAfterFailure)'
  <1> SUFFICES ASSUME IInv, [Next]_vars PROVE (HooksCounted /\ HooksRepeatOnlyAfterFailure)'
    OBVIOUS
  <1> USE NativeAssumption DEF IInv, TypeOK, WinnerIsFresh, HooksCounted, OneUserOfTheBackend, HooksRepeatOnlyAfterFailure, Become, Allocated, statics, postgres
  <1>1. ASSUME NEW t \in Threads, Step(t) PROVE (HooksCounted /\ HooksRepeatOnlyAfterFailure)'
    <2>1. CASE OpenPrepare(t)       BY <2>1 DEF OpenPrepare
    <2>1a. CASE RemoveStale(t)      BY <2>1a DEF RemoveStale
    <2>1b. CASE OpenFails(t)        BY <2>1b DEF OpenFails
    <2>2. CASE OpenClaim(t)         BY <2>2 DEF OpenClaim, ClaimWon
    <2>3. CASE OpenRefused(t)       BY <2>3 DEF OpenRefused, RefusedNow, ClaimWon
    <2>4. CASE OpenPublish(t)       BY <2>4 DEF OpenPublish, SetCallbacks
    <2>5. CASE StartFailsEarly(t)   BY <2>5 DEF StartFailsEarly
    <2>6. CASE StartFailsInside(t)  BY <2>6 DEF StartFailsInside
    <2>7. CASE StartSucceeds(t)     BY <2>7 DEF StartSucceeds
    <2>8. CASE OpenCleanup(t)       BY <2>8 DEF OpenCleanup, KeepClaim
    <2>9. CASE Exec(t)              BY <2>9 DEF Exec
    <2>10. CASE TakeBackendOutput(t) BY <2>10 DEF TakeBackendOutput
    <2>11. CASE ShutdownUnleased(t) BY <2>11 DEF ShutdownUnleased
    <2>12. CASE ShutdownSucceeds(t)
      BY <2>12 DEF ShutdownSucceeds, Hooks, ClearTransport, SetFlag, LockAfterHooks,
                   RemoveOwnLock
    <2>13. CASE ShutdownFails(t)
      BY <2>13 DEF ShutdownFails, Hooks, ClearTransport, LockAfterHooks, RemoveOwnLock
    <2>14. CASE DropRuntime(t)      BY <2>14 DEF DropRuntime
    <2>15. QED
      BY <1>1, <2>1, <2>1a, <2>1b, <2>2, <2>3, <2>4, <2>5, <2>6, <2>7, <2>8, <2>9, <2>10, <2>11,
         <2>12, <2>13, <2>14 DEF Step
  <1>2. CASE ForeignProcess         BY <1>2 DEF ForeignProcess
  <1>3. CASE UNCHANGED vars         BY <1>3 DEF vars
  <1>4. QED BY <1>1, <1>2, <1>3 DEF Next

\* The published transport is the caller's (CallsReachTheirTransport).
LEMMA TransportStep == IInv /\ [Next]_vars => CallsReachTheirTransport'
  <1> SUFFICES ASSUME IInv, [Next]_vars PROVE CallsReachTheirTransport'
    OBVIOUS
  <1> USE NativeAssumption DEF IInv, TypeOK, OneUserOfTheBackend, WinnerIsFresh, CallsReachTheirTransport, Become, Allocated, statics, postgres
  <1>1. ASSUME NEW t \in Threads, Step(t) PROVE CallsReachTheirTransport'
    <2>1. CASE OpenPrepare(t)       BY <2>1 DEF OpenPrepare
    <2>1a. CASE RemoveStale(t)      BY <2>1a DEF RemoveStale
    <2>1b. CASE OpenFails(t)        BY <2>1b DEF OpenFails
    <2>2. CASE OpenClaim(t)         BY <2>2 DEF OpenClaim, ClaimWon
    <2>3. CASE OpenRefused(t)       BY <2>3 DEF OpenRefused, RefusedNow, ClaimWon
    <2>4. CASE OpenPublish(t)       BY <2>4 DEF OpenPublish, SetCallbacks
    <2>5. CASE StartFailsEarly(t)   BY <2>5 DEF StartFailsEarly
    <2>6. CASE StartFailsInside(t)  BY <2>6 DEF StartFailsInside
    <2>7. CASE StartSucceeds(t)     BY <2>7 DEF StartSucceeds
    <2>8. CASE OpenCleanup(t)       BY <2>8 DEF OpenCleanup, KeepClaim
    <2>9. CASE Exec(t)              BY <2>9 DEF Exec
    <2>10. CASE TakeBackendOutput(t) BY <2>10 DEF TakeBackendOutput
    <2>11. CASE ShutdownUnleased(t) BY <2>11 DEF ShutdownUnleased
    <2>12. CASE ShutdownSucceeds(t)
      BY <2>12 DEF ShutdownSucceeds, Hooks, ClearTransport, SetFlag, LockAfterHooks,
                   RemoveOwnLock
    <2>13. CASE ShutdownFails(t)
      BY <2>13 DEF ShutdownFails, Hooks, ClearTransport, LockAfterHooks, RemoveOwnLock
    <2>14. CASE DropRuntime(t)      BY <2>14 DEF DropRuntime
    <2>15. QED
      BY <1>1, <2>1, <2>1a, <2>1b, <2>2, <2>3, <2>4, <2>5, <2>6, <2>7, <2>8, <2>9, <2>10, <2>11,
         <2>12, <2>13, <2>14 DEF Step
  <1>2. CASE ForeignProcess         BY <1>2 DEF ForeignProcess
  <1>3. CASE UNCHANGED vars         BY <1>3 DEF vars
  <1>4. QED BY <1>1, <1>2, <1>3 DEF Next

-----------------------------------------------------------------------------

\* The invariant holds initially.
LEMMA Initially == Init => IInv
  <1> SUFFICES ASSUME Init PROVE IInv
    OBVIOUS
  <1>1. TypeOK
    BY NativeAssumption DEF Init, TypeOK, Phases, LedgerPhases
  <1>2. UntouchedBeforeClaim /\ OneUserOfTheBackend /\ WinnerIsFresh
    BY DEF Init, UntouchedBeforeClaim, OneUserOfTheBackend, Allocated, WinnerIsFresh
  <1>3. StartedAtMostOnce /\ ShutdownIsComplete /\ HooksCounted
    BY DEF Init, StartedAtMostOnce, ShutdownIsComplete, HooksCounted
  <1>4. HooksRepeatOnlyAfterFailure /\ CallsReachTheirTransport
    BY DEF Init, HooksRepeatOnlyAfterFailure, CallsReachTheirTransport
  <1>5. QED BY <1>1, <1>2, <1>3, <1>4 DEF IInv

\* Every step keeps the invariant.
LEMMA Inductive == IInv /\ [Next]_vars => IInv'
  <1> SUFFICES ASSUME IInv, [Next]_vars PROVE IInv'
    OBVIOUS
  <1>1. TypeOK'                       BY TypeCorrect DEF IInv
  <1>2. UntouchedBeforeClaim'         BY UntouchedStep
  <1>3. OneUserOfTheBackend'          BY OneUserStep
  <1>4. WinnerIsFresh'                BY FreshStep
  <1>5. StartedAtMostOnce'            BY StartedStep
  <1>6. ShutdownIsComplete'           BY CompleteStep
  <1>7. (HooksCounted /\ HooksRepeatOnlyAfterFailure)'
    BY CountStep
  <1>8. CallsReachTheirTransport'     BY TransportStep
  <1>9. QED
    BY <1>1, <1>2, <1>3, <1>4, <1>5, <1>6, <1>7, <1>8 DEF IInv

\* The invariant holds throughout.
LEMMA Invariance == Spec => []IInv
  BY Initially, Inductive, PTL DEF Spec

\* Every variable of the runtime keeps its type.
THEOREM TypeCorrectness == Spec => []TypeOK
  <1>1. IInv => TypeOK BY DEF IInv
  <1>2. QED BY <1>1, Invariance, PTL

\* However many threads open runtimes, and whatever fails, PostgreSQL is entered
\* at most once.
THEOREM SingleStartTheorem == Spec => []StartedAtMostOnce
  <1>1. IInv => StartedAtMostOnce BY DEF IInv
  <1>2. QED BY <1>1, Invariance, PTL

\* The statics and the backend have one user at a time.
THEOREM ExclusiveUse == Spec => []OneUserOfTheBackend
  <1>1. IInv => OneUserOfTheBackend BY DEF IInv
  <1>2. QED BY <1>1, Invariance, PTL

\* A shutdown that returned Ok has undone everything open installed.
THEOREM CompleteShutdown == Spec => []ShutdownIsComplete
  <1>1. IInv => ShutdownIsComplete BY DEF IInv
  <1>2. QED BY <1>1, Invariance, PTL

\* The exit hooks run once more than shutdown has failed, at most.
THEOREM HooksTheorem == Spec => []HooksRepeatOnlyAfterFailure
  <1>1. IInv => HooksRepeatOnlyAfterFailure BY DEF IInv
  <1>2. QED BY <1>1, Invariance, PTL

\* A call that the backend can serve uses the caller's own transport.
THEOREM TransportTheorem == Spec => []CallsReachTheirTransport
  <1>1. IInv => CallsReachTheirTransport BY DEF IInv
  <1>2. QED BY <1>1, Invariance, PTL

-----------------------------------------------------------------------------
(* Refinement of the single-start contract.                                *)

\* Every step of the runtime is a step of the contract, or leaves it alone.
LEMMA StepRefines == IInv /\ [Next]_vars => [Contract!Next]_ContractStatus
  <1> SUFFICES ASSUME IInv, [Next]_vars
               PROVE  \/ Contract!Next
                      \/ ContractStatus' = ContractStatus
    OBVIOUS
  <1> USE NativeAssumption
      DEF IInv, TypeOK, UntouchedBeforeClaim, OneUserOfTheBackend, Become, Allocated,
          statics, postgres, ContractStatus, Starting, Running,
          Contract!Next, Contract!Claim, Contract!Start, Contract!Leave
  <1>1. ASSUME NEW t \in Threads, Step(t)
        PROVE  Contract!Next \/ ContractStatus' = ContractStatus
    <2>1. CASE OpenPrepare(t)       BY <2>1 DEF OpenPrepare
    <2>1a. CASE RemoveStale(t)      BY <2>1a DEF RemoveStale
    <2>1b. CASE OpenFails(t)        BY <2>1b DEF OpenFails
    <2>2. CASE OpenClaim(t)         BY <2>2 DEF OpenClaim, ClaimWon
    <2>3. CASE OpenRefused(t)       BY <2>3 DEF OpenRefused, RefusedNow, ClaimWon
    <2>4. CASE OpenPublish(t)       BY <2>4 DEF OpenPublish, SetCallbacks
    <2>5. CASE StartFailsEarly(t)   BY <2>5 DEF StartFailsEarly
    <2>6. CASE StartFailsInside(t)  BY <2>6 DEF StartFailsInside
    <2>7. CASE StartSucceeds(t)     BY <2>7 DEF StartSucceeds
    <2>8. CASE OpenCleanup(t)       BY <2>8 DEF OpenCleanup, KeepClaim
    <2>9. CASE Exec(t)              BY <2>9 DEF Exec
    <2>10. CASE TakeBackendOutput(t) BY <2>10 DEF TakeBackendOutput
    <2>11. CASE ShutdownUnleased(t) BY <2>11 DEF ShutdownUnleased
    <2>12. CASE ShutdownSucceeds(t) BY <2>12 DEF ShutdownSucceeds, Hooks
    <2>13. CASE ShutdownFails(t)    BY <2>13 DEF ShutdownFails, Hooks
    <2>14. CASE DropRuntime(t)      BY <2>14 DEF DropRuntime
    <2>15. QED
      BY <1>1, <2>1, <2>1a, <2>1b, <2>2, <2>3, <2>4, <2>5, <2>6, <2>7, <2>8, <2>9, <2>10, <2>11,
         <2>12, <2>13, <2>14 DEF Step
  <1>2. CASE ForeignProcess         BY <1>2 DEF ForeignProcess
  <1>3. CASE UNCHANGED vars         BY <1>3 DEF vars
  <1>4. QED BY <1>1, <1>2, <1>3 DEF Next

\* The native runtime implements the single-start-per-process contract.
THEOREM Refinement == Spec => ImplementsSingleStart
  <1>1. Init => Contract!Init
    BY DEF Init, Contract!Init, ContractStatus
  <1>2. QED
    BY <1>1, StepRefines, Invariance, PTL
    DEF Spec, ImplementsSingleStart, Contract!Spec
=============================================================================
