-------------------------- MODULE DynamicRuntimeProofs --------------------------
(***************************************************************************)
(* Proofs about DynamicRuntime, for every set of threads and every bound.  *)
(* The host implements the native runtime, so what is proved of that holds *)
(* of it.  The rest is about the guard: it is held from load to the end of *)
(* Drop, and meanwhile the host knows how its native value stands.  At the *)
(* end, about the plugin library that load gets.                           *)
(***************************************************************************)
EXTENDS DynamicRuntime, PluginResolver, TLAPS

Proved == INSTANCE NativeRuntimeProofs

\* Who is in load, has a runtime or is dropping one has the guard.
HostHoldsGuard == \A t \in Threads : host[t] # "idle" => guard = t

\* A thread has a native value when its host is past load, and none when it is idle.
HostKnowsPhase ==
  \A t \in Threads :
    /\ host[t] = "idle" => phase[t] \in {"none", "gone"}
    /\ host[t] = "creating" => phase[t] # "open"
    /\ host[t] \in {"holding", "dropping"} => phase[t] = "open"

\* The host's flag is set only when the native one is, from load on; and when Drop has been
\* through its shutdown, the native flag is set unless a shutdown failed.
HostKnowsFlag ==
  \A t \in Threads :
    /\ host[t] = "creating" => ~hostShut[t]
    /\ host[t] = "holding" /\ hostShut[t] => shut[t]
    /\ host[t] = "dropping" => shut[t] \/ failed > 0

HostTypes ==
  /\ guard \in Threads \cup {NoThread, Poisoned}
  /\ host \in [Threads -> HostStates]
  /\ hostShut \in [Threads -> BOOLEAN]

HostInv == HostTypes /\ HostHoldsGuard /\ HostKnowsPhase /\ HostKnowsFlag
IInv == Proved!IInv /\ HostInv

-----------------------------------------------------------------------------
(* The host implements the native runtime                                  *)

\* The constants of the native runtime are the host's.
LEMMA NativeConstants == Proved!NativeAssumption
  BY DynamicAssumption DEF Proved!NativeAssumption

\* Every step of the host is a step of the native runtime, or leaves it alone.
LEMMA NativeSteps ==
  ASSUME [Next]_vars PROVE [Native!Next]_(Native!vars)
  <1>1. UNCHANGED nativeVars => UNCHANGED Native!vars
    BY DEF nativeVars, Native!vars
  <1>2. ASSUME NEW t \in Threads, Step(t) PROVE [Native!Next]_(Native!vars)
    <2>1. Native!Step(t) => Native!Next
      BY DEF Native!Next
    <2>2. CASE Load(t)             BY <1>1, <2>2 DEF Load
    <2>3. CASE Creating(t)         BY <2>1, <2>3 DEF Creating, Native!Step
    <2>4. CASE LoadSucceeds(t)     BY <2>1, <2>4 DEF LoadSucceeds, Native!Step
    <2>5. CASE LoadFails(t)        BY <2>1, <2>5 DEF LoadFails, Native!Step
    <2>6. CASE ExecProtocolRaw(t)  BY <2>1, <2>6 DEF ExecProtocolRaw, Native!Step
    <2>7. CASE TakeBackendOutput(t) BY <2>1, <2>7 DEF TakeBackendOutput, Native!Step
    <2>8. CASE ShutdownReturnsOk(t) BY <2>1, <2>8 DEF ShutdownReturnsOk, Native!Step
    <2>9. CASE ShutdownReturnsErr(t) BY <2>1, <2>9 DEF ShutdownReturnsErr, Native!Step
    <2>10. CASE DropShutsDown(t)   BY <1>1, <2>1, <2>10 DEF DropShutsDown, Native!Step
    <2>11. CASE DropDestroys(t)    BY <2>1, <2>11 DEF DropDestroys, Native!Step
    <2>12. QED
      BY <1>2, <2>2, <2>3, <2>4, <2>5, <2>6, <2>7, <2>8, <2>9, <2>10, <2>11 DEF Step
  <1>3. CASE ForeignProcess        BY <1>3 DEF ForeignProcess, Native!Next
  <1>4. CASE UNCHANGED vars        BY <1>1, <1>4 DEF vars
  <1>5. QED BY <1>2, <1>3, <1>4 DEF Next

\* The runtime the host composes with is the one the proofs are about.
LEMMA SameRuntime ==
  /\ Native!Init => Proved!Init
  /\ [Native!Next]_(Native!vars) => [Proved!Next]_(Proved!vars)
  <1>1. Native!Init => Proved!Init
    BY DEF Native!Init, Proved!Init
  <1>2. ASSUME NEW t, Native!Step(t) PROVE Proved!Step(t)
    <2> USE DEF Native!Become, Proved!Become, Native!statics, Proved!statics,
                Native!postgres, Proved!postgres
    <2>1. Native!OpenPrepare(t) => Proved!OpenPrepare(t)
      BY DEF Native!OpenPrepare, Proved!OpenPrepare
    <2>1a. Native!RemoveStale(t) => Proved!RemoveStale(t)
      BY DEF Native!RemoveStale, Proved!RemoveStale
    <2>1b. Native!OpenFails(t) => Proved!OpenFails(t)
      BY DEF Native!OpenFails, Proved!OpenFails
    <2>2. Native!OpenClaim(t) => Proved!OpenClaim(t)
      BY DEF Native!OpenClaim, Proved!OpenClaim, Native!ClaimWon, Proved!ClaimWon
    <2>3. Native!OpenRefused(t) => Proved!OpenRefused(t)
      BY DEF Native!OpenRefused, Proved!OpenRefused, Native!RefusedNow, Proved!RefusedNow,
             Native!ClaimWon, Proved!ClaimWon
    <2>4. Native!OpenPublish(t) => Proved!OpenPublish(t)
      BY DEF Native!OpenPublish, Proved!OpenPublish, Native!SetCallbacks, Proved!SetCallbacks
    <2>5. Native!StartFailsEarly(t) => Proved!StartFailsEarly(t)
      BY DEF Native!StartFailsEarly, Proved!StartFailsEarly
    <2>6. Native!StartFailsInside(t) => Proved!StartFailsInside(t)
      BY DEF Native!StartFailsInside, Proved!StartFailsInside
    <2>7. Native!StartSucceeds(t) => Proved!StartSucceeds(t)
      BY DEF Native!StartSucceeds, Proved!StartSucceeds
    <2>8. Native!OpenCleanup(t) => Proved!OpenCleanup(t)
      BY DEF Native!OpenCleanup, Proved!OpenCleanup, Native!KeepClaim, Proved!KeepClaim
    <2>9. Native!Exec(t) => Proved!Exec(t)
      BY DEF Native!Exec, Proved!Exec
    <2>10. Native!TakeBackendOutput(t) => Proved!TakeBackendOutput(t)
      BY DEF Native!TakeBackendOutput, Proved!TakeBackendOutput
    <2>11. Native!ShutdownUnleased(t) => Proved!ShutdownUnleased(t)
      BY DEF Native!ShutdownUnleased, Proved!ShutdownUnleased
    <2>12. Native!Hooks(t) => Proved!Hooks(t)
      BY DEF Native!Hooks, Proved!Hooks, Native!ClearTransport, Proved!ClearTransport
    <2>13. Native!ShutdownSucceeds(t) => Proved!ShutdownSucceeds(t)
      BY <2>12 DEF Native!ShutdownSucceeds, Proved!ShutdownSucceeds, Native!LockAfterHooks,
                   Proved!LockAfterHooks, Native!RemoveOwnLock, Proved!RemoveOwnLock,
                   Native!SetFlag, Proved!SetFlag, Native!ShutdownPhase, Proved!ShutdownPhase
    <2>14. Native!ShutdownFails(t) => Proved!ShutdownFails(t)
      BY <2>12 DEF Native!ShutdownFails, Proved!ShutdownFails, Native!LockAfterHooks,
                   Proved!LockAfterHooks, Native!RemoveOwnLock, Proved!RemoveOwnLock,
                   Native!ShutdownPhase, Proved!ShutdownPhase
    <2>15. Native!DropRuntime(t) => Proved!DropRuntime(t)
      BY DEF Native!DropRuntime, Proved!DropRuntime
    <2>16. QED
      BY <1>2, <2>1, <2>1a, <2>1b, <2>2, <2>3, <2>4, <2>5, <2>6, <2>7, <2>8, <2>9, <2>10,
         <2>11, <2>13,
         <2>14, <2>15 DEF Native!Step, Proved!Step
  <1>3. Native!ForeignProcess => Proved!ForeignProcess
    BY DEF Native!ForeignProcess, Proved!ForeignProcess, Native!statics, Proved!statics
  <1>4. Native!vars = Proved!vars /\ (UNCHANGED Native!vars => UNCHANGED Proved!vars)
    BY DEF Native!vars, Proved!vars
  <1>5. QED BY <1>1, <1>2, <1>3, <1>4 DEF Native!Next, Proved!Next

\* So the native runtime's invariant holds under the host.
LEMMA NativeInvariant ==
  /\ Init => Proved!IInv
  /\ Proved!IInv /\ [Next]_vars => Proved!IInv'
  <1>1. Init => Proved!IInv
    BY NativeConstants, SameRuntime, Proved!Initially DEF Init
  <1>2. Proved!IInv /\ [Next]_vars => Proved!IInv'
    BY NativeConstants, NativeSteps, SameRuntime, Proved!Inductive
  <1>3. QED BY <1>1, <1>2

-----------------------------------------------------------------------------
(* The guard and the host's flag                                           *)

\* What a native step does to the thread that takes it, and that it does nothing
\* to the phase or the flag of another.
LEMMA NativeEffects ==
  ASSUME Native!TypeOK, NEW t \in Threads
  PROVE  /\ Native!OpenPrepare(t) \/ Native!RemoveStale(t)
              => phase' \in {[phase EXCEPT ![t] = "stale"], [phase EXCEPT ![t] = "prepared"]}
         /\ Native!OpenFails(t)
              => /\ phase' \in {[phase EXCEPT ![t] = "none"], [phase EXCEPT ![t] = "gone"]}
                 /\ UNCHANGED <<shut, failed>>
         /\ Native!OpenClaim(t) => phase' = [phase EXCEPT ![t] = "won"]
         /\ Native!OpenPublish(t) => phase' = [phase EXCEPT ![t] = "published"]
         /\ Native!StartFailsEarly(t) \/ Native!StartFailsInside(t)
              => phase' = [phase EXCEPT ![t] = "failing"]
         /\ Native!StartSucceeds(t) => phase' = [phase EXCEPT ![t] = "open"]
         /\ Native!OpenRefused(t) => phase' = [phase EXCEPT ![t] = "none"]
         /\ Native!OpenCleanup(t) \/ Native!DropRuntime(t)
              => phase' = [phase EXCEPT ![t] = "gone"]
         /\ Native!Exec(t) \/ Native!TakeBackendOutput(t)
              => UNCHANGED <<phase, shut, failed>>
         /\ Native!ShutdownSucceeds(t)
              => UNCHANGED <<phase, failed>> /\ shut' = [shut EXCEPT ![t] = TRUE]
         /\ Native!ShutdownUnleased(t) \/ Native!ShutdownFails(t)
              => UNCHANGED <<phase, shut>> /\ failed' = failed + 1
  BY DEF Native!TypeOK, Native!Become, Native!OpenPrepare, Native!RemoveStale,
         Native!OpenFails, Native!OpenClaim, Native!OpenPublish, Native!StartFailsEarly, Native!StartFailsInside, Native!StartSucceeds,
         Native!OpenRefused, Native!OpenCleanup, Native!DropRuntime, Native!Exec,
         Native!TakeBackendOutput, Native!ShutdownSucceeds, Native!SetFlag,
         Native!ShutdownUnleased, Native!ShutdownFails

\* Before the value is open, a native step may clear the flag of its own thread only.
LEMMA OpeningEffects ==
  ASSUME Native!TypeOK, NEW t \in Threads,
         \/ Native!OpenPrepare(t) \/ Native!RemoveStale(t) \/ Native!OpenFails(t)
         \/ Native!OpenClaim(t) \/ Native!OpenPublish(t)
         \/ Native!StartFailsEarly(t) \/ Native!StartFailsInside(t)
         \/ Native!StartSucceeds(t) \/ Native!OpenRefused(t) \/ Native!OpenCleanup(t)
  PROVE  failed' = failed /\ \A u \in Threads \ {t} : shut'[u] = shut[u]
  BY DEF Native!TypeOK, Native!Become, Native!OpenPrepare, Native!RemoveStale,
         Native!OpenFails, Native!OpenClaim, Native!OpenPublish, Native!StartFailsEarly, Native!StartFailsInside,
         Native!StartSucceeds, Native!OpenRefused, Native!OpenCleanup

\* Every step keeps the guard and the flag in step with the native value.
LEMMA HostStep ==
  ASSUME Native!TypeOK, HostInv, [Next]_vars PROVE HostInv'
  <1> USE DynamicAssumption
      DEF HostInv, HostTypes, HostStates, HostHoldsGuard, HostKnowsPhase, HostKnowsFlag,
          hostVars, Enter
  <1>1. /\ phase \in [Threads -> Native!Phases] /\ shut \in [Threads -> BOOLEAN]
        /\ failed \in Nat
    BY DEF Native!TypeOK
  <1>2. ASSUME NEW t \in Threads, Step(t) PROVE HostInv'
    <2>1. CASE Load(t)
      <3>1. /\ host[t] = "idle" /\ guard = NoThread /\ guard' = t
            /\ host' = [host EXCEPT ![t] = "creating"]
            /\ hostShut' = [hostShut EXCEPT ![t] = FALSE]
            /\ UNCHANGED <<phase, shut, failed>>
        BY <2>1 DEF Load, TryLock, nativeVars
      <3>2. \A u \in Threads : host[u] = "idle"
        BY <3>1
      <3>3. QED BY <3>1, <3>2
    <2>2. CASE Creating(t)
      <3>1. /\ host[t] = "creating" /\ UNCHANGED <<guard, host, hostShut>>
            /\ \E p \in {"stale", "prepared", "won", "published", "failing"} :
                 phase' = [phase EXCEPT ![t] = p]
        BY <2>2, NativeEffects DEF Creating
      <3>2. failed' = failed /\ \A u \in Threads \ {t} : shut'[u] = shut[u]
        BY <2>2, OpeningEffects DEF Creating
      <3>3. QED BY <1>1, <3>1, <3>2
    <2>3. CASE LoadSucceeds(t)
      <3>1. /\ host[t] = "creating" /\ host' = [host EXCEPT ![t] = "holding"]
            /\ phase' = [phase EXCEPT ![t] = "open"] /\ UNCHANGED <<guard, hostShut>>
        BY <2>3, NativeEffects DEF LoadSucceeds
      <3>2. failed' = failed /\ \A u \in Threads \ {t} : shut'[u] = shut[u]
        BY <2>3, OpeningEffects DEF LoadSucceeds
      <3>3. QED BY <1>1, <3>1, <3>2
    <2>4. CASE LoadFails(t)
      <3>1. /\ host[t] = "creating" /\ host' = [host EXCEPT ![t] = "idle"]
            /\ guard' = NoThread /\ UNCHANGED hostShut
        BY <2>4 DEF LoadFails
      <3>2. /\ phase' \in {[phase EXCEPT ![t] = "none"], [phase EXCEPT ![t] = "gone"]}
            /\ failed' = failed /\ \A u \in Threads \ {t} : shut'[u] = shut[u]
        BY <2>4, NativeEffects, OpeningEffects DEF LoadFails
      <3>3. QED BY <1>1, <3>1, <3>2
    <2>5. CASE ExecProtocolRaw(t)
      BY <1>1, <2>5, NativeEffects DEF ExecProtocolRaw
    <2>6. CASE TakeBackendOutput(t)
      BY <1>1, <2>6, NativeEffects DEF TakeBackendOutput
    <2>7. CASE ShutdownReturnsOk(t)
      BY <1>1, <2>7, NativeEffects DEF ShutdownReturnsOk
    <2>8. CASE ShutdownReturnsErr(t)
      BY <1>1, <2>8, NativeEffects DEF ShutdownReturnsErr
    <2>9. CASE DropShutsDown(t)
      <3>1. /\ host[t] = "holding" /\ host' = [host EXCEPT ![t] = "dropping"]
            /\ UNCHANGED <<guard, hostShut>>
        BY <2>9 DEF DropShutsDown
      <3>2. CASE hostShut[t]
        BY <1>1, <2>9, <3>1, <3>2 DEF DropShutsDown, ShutdownInDrop, nativeVars
      <3>3. CASE ~hostShut[t] /\ Native!ShutdownSucceeds(t)
        BY <1>1, <3>1, <3>3, NativeEffects
      <3>4. CASE Native!ShutdownUnleased(t) \/ Native!ShutdownFails(t)
        BY <1>1, <3>1, <3>4, NativeEffects
      <3>5. QED BY <2>9, <3>2, <3>3, <3>4 DEF DropShutsDown, ShutdownInDrop
    <2>10. CASE DropDestroys(t)
      <3>1. /\ host[t] = "dropping" /\ host' = [host EXCEPT ![t] = "idle"]
            /\ guard' \in {NoThread, Poisoned} /\ UNCHANGED hostShut
            /\ phase' = [phase EXCEPT ![t] = "gone"]
        BY <2>10, NativeEffects DEF DropDestroys
      <3>2. UNCHANGED <<shut, failed>>
        BY <2>10 DEF DropDestroys, Native!DropRuntime
      <3>3. \A u \in Threads \ {t} : host[u] = "idle"
        BY <3>1
      <3>4. QED BY <1>1, <3>1, <3>2, <3>3
    <2>11. QED
      BY <1>2, <2>1, <2>2, <2>3, <2>4, <2>5, <2>6, <2>7, <2>8, <2>9, <2>10 DEF Step
  <1>3. CASE ForeignProcess
    BY <1>3 DEF ForeignProcess, Native!ForeignProcess
  <1>4. CASE UNCHANGED vars
    BY <1>4 DEF vars, nativeVars
  <1>5. QED BY <1>2, <1>3, <1>4 DEF Next

-----------------------------------------------------------------------------
(* The invariant and what follows from it                                  *)

\* The types of the native runtime are the same on both sides.
LEMMA SameTypes == Proved!TypeOK <=> Native!TypeOK
  BY DEF Native!TypeOK, Proved!TypeOK, Native!Phases, Proved!Phases,
         Native!LedgerPhases, Proved!LedgerPhases

\* The invariant holds throughout.
LEMMA Invariance == Spec => []IInv
  <1>1. Init => IInv
    <2> SUFFICES ASSUME Init PROVE IInv
      OBVIOUS
    <2>1. HostInv
      BY DEF Init, HostInv, HostTypes, HostStates, HostHoldsGuard, HostKnowsPhase,
             HostKnowsFlag, Native!Init
    <2>2. QED BY <2>1, NativeInvariant DEF IInv
  <1>2. IInv /\ [Next]_vars => IInv'
    <2> SUFFICES ASSUME IInv, [Next]_vars PROVE IInv'
      OBVIOUS
    <2>1. Native!TypeOK
      BY SameTypes DEF IInv, Proved!IInv
    <2>2. QED BY <2>1, HostStep, NativeInvariant DEF IInv
  <1>3. QED BY <1>1, <1>2, PTL DEF Spec

\* Host and native runtime keep their types.
THEOREM DynamicTypes == Spec => []TypeOK
  <1>1. IInv => TypeOK
    BY SameTypes DEF IInv, Proved!IInv, HostInv, HostTypes, TypeOK
  <1>2. QED BY Invariance, <1>1, PTL

\* The host's process is one of the native runtime's: loading, calling and dropping
\* plugins does nothing that the native runtime does not provide for.
THEOREM HostImplementsNative == Spec => Native!Spec
  <1>1. Init => Native!Init
    BY DEF Init
  <1>2. QED BY <1>1, NativeSteps, PTL DEF Spec, Native!Spec

\* Whichever threads load and drop runtimes, PostgreSQL is entered at most once, a
\* shutdown that returned Ok is complete and calls reach their own transport.
THEOREM HostInherits ==
  Spec => [](/\ Native!StartedAtMostOnce /\ Native!OneUserOfTheBackend
             /\ Native!ShutdownIsComplete /\ Native!CallsReachTheirTransport)
  <1>1. IInv => /\ Native!StartedAtMostOnce /\ Native!OneUserOfTheBackend
                /\ Native!ShutdownIsComplete /\ Native!CallsReachTheirTransport
    BY DEF IInv, Proved!IInv, Native!StartedAtMostOnce, Proved!StartedAtMostOnce,
           Native!OneUserOfTheBackend, Proved!OneUserOfTheBackend, Native!Allocated,
           Proved!Allocated, Native!ShutdownIsComplete, Proved!ShutdownIsComplete,
           Native!CallsReachTheirTransport, Proved!CallsReachTheirTransport
  <1>2. QED BY Invariance, <1>1, PTL

\* The plugin is never entered for a runtime while another one is being opened,
\* used or taken down.
THEOREM GuardTheorem == Spec => []GuardCoversTheNativeRuntime
  <1>1. IInv => GuardCoversTheNativeRuntime
    BY DEF IInv, HostInv, HostTypes, HostStates, HostHoldsGuard, HostKnowsPhase,
           GuardCoversTheNativeRuntime
  <1>2. QED BY Invariance, <1>1, PTL

\* A value is destroyed after a complete shutdown that ran the hooks once, unless a
\* shutdown failed: whether the caller shut the runtime down, Drop did, or both.
THEOREM DestroyTheorem == Spec => []DestroyedAfterCleanShutdown
  <1>1. IInv => DestroyedAfterCleanShutdown
    <2> SUFFICES ASSUME IInv, NEW t \in Threads, host[t] = "dropping", failed = 0
                 PROVE  /\ shut[t] /\ hooks = 1
                        /\ lock # "own" /\ active = NoThread /\ ~callbacks
      BY DEF DestroyedAfterCleanShutdown
    <2>1. phase[t] = "open" /\ shut[t]
      BY DEF IInv, HostInv, HostKnowsPhase, HostKnowsFlag
    <2>2. hooks >= 1 /\ lock # "own" /\ active = NoThread /\ ~callbacks
      BY <2>1 DEF IInv, Proved!IInv, Proved!ShutdownIsComplete
    <2>3. hooks \in Nat /\ hooks <= 1
      BY DEF IInv, Proved!IInv, Proved!TypeOK, Proved!HooksRepeatOnlyAfterFailure
    <2>4. QED BY <2>1, <2>2, <2>3
  <1>2. QED BY Invariance, <1>1, PTL
-----------------------------------------------------------------------------
(***************************************************************************)
(* Which library load gets: PluginResolver, before there is a runtime.     *)
(***************************************************************************)
Places == Candidates(ask)

\* The elements of a list of directories.
Listed(s) == {s[i] : i \in 1..Len(s)}

LEMMA PushUniqueAdds ==
  ASSUME NEW s \in Seq(Dirs), NEW d \in Dirs
  PROVE  LET r == PushUnique(s, d)
         IN /\ r \in Seq(Dirs) /\ Len(s) \in 0..Len(r)
            /\ Listed(r) = Listed(s) \cup {d}
            /\ \A i \in 1..Len(s) : r[i] = s[i]
  <1>1. CASE d \in ToSet(s)
    BY <1>1 DEF PushUnique, ToSet, Listed
  <1>2. CASE d \notin ToSet(s)
    <2>1. PushUnique(s, d) = Append(s, d)
      BY <1>2 DEF PushUnique
    <2> QED BY <2>1 DEF Listed
  <1> QED BY <1>1, <1>2

\* A directory, and its parent when it is called "deps".
Near(d) == {d} \cup {Parent[e] : e \in {d} \cap DepsDirs \cap DOMAIN Parent}

LEMMA PushHostAdds ==
  ASSUME NEW s \in Seq(Dirs), NEW d \in Dirs
  PROVE  LET r == PushHost(s, d)
         IN /\ r \in Seq(Dirs) /\ Len(s) \in 0..Len(r)
            /\ Listed(r) = Listed(s) \cup Near(d)
            /\ \A i \in 1..Len(s) : r[i] = s[i]
  <1> DEFINE own == PushUnique(s, d)
  <1>1. /\ own \in Seq(Dirs) /\ Len(s) \in 0..Len(own) /\ Listed(own) = Listed(s) \cup {d}
        /\ \A i \in 1..Len(s) : own[i] = s[i]
    BY PushUniqueAdds
  <1>2. CASE d \in DepsDirs /\ d \in DOMAIN Parent
    <2> DEFINE r == PushUnique(own, Parent[d])
    <2>1. Parent[d] \in Dirs
      BY <1>2, ResolverAssumption
    <2>2. /\ r \in Seq(Dirs) /\ Len(own) \in 0..Len(r)
          /\ Listed(r) = Listed(own) \cup {Parent[d]} /\ \A i \in 1..Len(own) : r[i] = own[i]
      <3> HIDE DEF own
      <3> QED BY <1>1, <2>1, PushUniqueAdds
    <2>3. PushHost(s, d) = r
      BY <1>2 DEF PushHost
    <2>4. Near(d) = {d, Parent[d]}
      BY <1>2 DEF Near
    <2> HIDE DEF own, r
    <2>5. Len(s) \in 0..Len(r) /\ \A i \in 1..Len(s) : r[i] = s[i]
      BY <1>1, <2>2
    <2>6. Listed(r) = Listed(s) \cup Near(d)
      BY <1>1, <2>2, <2>4
    <2> QED BY <2>2, <2>3, <2>5, <2>6
  <1>3. CASE ~(d \in DepsDirs /\ d \in DOMAIN Parent)
    <2>1. PushHost(s, d) = own /\ Near(d) = {d}
      BY <1>3 DEF PushHost, Near
    <2> QED BY <1>1, <2>1
  <1> QED BY <1>2, <1>3

\* The host's frontier begins with the places near the host as it was called.
LEMMA HostFrontierIsNear ==
  ASSUME NEW h \in Dirs, NEW c \in Dirs \cup {None}
  PROVE  LET r == HostFrontier(h, c)
         IN /\ r \in Seq(Dirs)
            /\ \E n \in 0..Len(r) : Near(h) = {r[i] : i \in 1..n}
            /\ c # None => Near(c) \subseteq Listed(r)
  <1> DEFINE raw == PushHost(<<>>, h)
  <1>1. raw \in Seq(Dirs) /\ Listed(raw) = Near(h)
    <2>1. <<>> \in Seq(Dirs) /\ Listed(<<>>) = {}
      BY DEF Listed
    <2> QED BY <2>1, PushHostAdds
  <1>2. CASE c = None
    <2>1. HostFrontier(h, c) = raw
      BY <1>2 DEF HostFrontier
    <2> HIDE DEF raw
    <2>2. Len(raw) \in 0..Len(raw)
      BY <1>1
    <2> QED BY <1>1, <1>2, <2>1, <2>2 DEF Listed
  <1>3. CASE c # None
    <2> DEFINE r == PushHost(raw, c)
    <2>1. HostFrontier(h, c) = r
      BY <1>3 DEF HostFrontier
    <2>2. /\ r \in Seq(Dirs) /\ Len(raw) \in 0..Len(r) /\ Listed(r) = Listed(raw) \cup Near(c)
          /\ \A i \in 1..Len(raw) : r[i] = raw[i]
      <3> HIDE DEF raw
      <3>1. c \in Dirs
        BY <1>3
      <3> QED BY <1>1, <3>1, PushHostAdds
    <2> HIDE DEF raw, r
    <2>3. Near(h) = {r[i] : i \in 1..Len(raw)}
      BY <1>1, <2>2 DEF Listed
    <2> QED BY <2>1, <2>2, <2>3
  <1> QED BY <1>2, <1>3

LEMMA PlacesAreDirs ==
  ASSUME ask \in Requests
  PROVE  Places \in Seq(Dirs)
  <1>1. /\ ask.pluginPath \in Dirs \cup {None} /\ ask.dir \in Dirs \cup {None}
        /\ ask.host \in Dirs \cup {None} /\ ask.canonical \in Dirs \cup {None}
    BY DEF Requests, MaybeDir
  <1>2. CASE ask.pluginPath # None
    BY <1>1, <1>2 DEF Places, Candidates, PathAlone
  <1>3. CASE ask.pluginPath = None /\ ask.dir # None
    BY <1>1, <1>3 DEF Places, Candidates
  <1>4. CASE ask.pluginPath = None /\ ask.dir = None /\ ask.host # None
    BY <1>1, <1>4, HostFrontierIsNear DEF Places, Candidates
  <1>5. CASE ask.pluginPath = None /\ ask.dir = None /\ ask.host = None
    BY <1>5 DEF Places, Candidates
  <1> QED BY <1>2, <1>3, <1>4, <1>5

Searched == {"probe", "prefix", "config", "done", "failed"}
Chosen == {"prefix", "config", "done"}

RequestTypes ==
  /\ ask \in Requests /\ pc \in {"start"} \cup Searched
  /\ changes \in Nat

\* The frontier is what is left of the places to look at; while nothing changes, there is
\* no plugin in those before it.
FrontierIsRest ==
  pc \in Searched =>
    /\ frontier \in Seq(Dirs) /\ Len(frontier) \in 0..Len(Places)
    /\ \A i \in 1..Len(frontier) : frontier[i] = Places[Len(Places) - Len(frontier) + i]
    /\ Quiet =>
         \A i \in 1..(Len(Places) - Len(frontier)) : Places[i] \notin plugins

\* The first of it is chosen, or it is empty.
FirstIsChosen ==
  /\ pc \notin Chosen => chosen = None
  /\ pc = "failed" => frontier = <<>>
  /\ pc \in Chosen => /\ frontier # <<>> /\ chosen = Head(frontier)
                      /\ source = SourceOf(ask)

ResolverInv == RequestTypes /\ FrontierIsRest /\ FirstIsChosen

LEMMA InitResolver == ASSUME ResolverInit PROVE ResolverInv
  BY DEF ResolverInit, ResolverInv, RequestTypes, FrontierIsRest, FirstIsChosen,
         Searched, Chosen

LEMMA NextResolver ==
  ASSUME ResolverInv, [ResolverNext]_resolverVars
  PROVE  ResolverInv'
  <1> USE DEF Searched, Chosen, files
  <1>0. Places \in Seq(Dirs)
    BY PlacesAreDirs DEF ResolverInv, RequestTypes
  <1>1. CASE Start
    <2>1. /\ pc = "start" /\ pc' = "probe" /\ frontier' = Places /\ chosen' = None
          /\ UNCHANGED <<ask, changes, plugins, prefixes>> /\ Places' = Places
      BY <1>1 DEF Start, Places, ResolverInv, FirstIsChosen
    <2>2. FrontierIsRest'
      BY <1>0, <2>1 DEF FrontierIsRest
    <2> QED BY <2>1, <2>2 DEF ResolverInv, RequestTypes, FirstIsChosen
  <1>2. CASE Probe
    <2>1. /\ pc = "probe" /\ UNCHANGED <<ask, changes, plugins, prefixes>> /\ Places' = Places
          /\ chosen = None /\ Quiet' = Quiet
      BY <1>2 DEF Probe, Places, ResolverInv, FirstIsChosen, Quiet
    <2>2. CASE frontier = <<>>
      <3>1. pc' = "failed" /\ UNCHANGED <<frontier, chosen, source>>
        BY <1>2, <2>2 DEF Probe
      <3> QED BY <2>1, <2>2, <3>1
          DEF ResolverInv, RequestTypes, FrontierIsRest, FirstIsChosen
    <2>3. CASE frontier # <<>> /\ Head(frontier) \in plugins
      <3>1. /\ pc' = "prefix" /\ chosen' = Head(frontier) /\ source' = SourceOf(ask)
            /\ frontier' = frontier
        BY <1>2, <2>3 DEF Probe
      <3>2. source' = SourceOf(ask)'
        BY <2>1, <3>1 DEF SourceOf
      <3> QED BY <2>1, <2>3, <3>1, <3>2
          DEF ResolverInv, RequestTypes, FrontierIsRest, FirstIsChosen
    <2>4. CASE frontier # <<>> /\ Head(frontier) \notin plugins
      <3>1. pc' = "probe" /\ frontier' = Tail(frontier) /\ chosen' = None
        BY <1>2, <2>1, <2>4 DEF Probe
      <3>2. /\ frontier \in Seq(Dirs) /\ Len(frontier) \in 1..Len(Places)
            /\ \A i \in 1..Len(frontier) :
                 frontier[i] = Places[Len(Places) - Len(frontier) + i]
        BY <2>1, <2>4 DEF ResolverInv, FrontierIsRest
      <3>3. /\ frontier' \in Seq(Dirs) /\ Len(frontier') = Len(frontier) - 1
            /\ \A i \in 1..(Len(frontier) - 1) : frontier'[i] = frontier[i + 1]
        BY <3>1, <3>2
      <3>4. \A i \in 1..Len(frontier') :
              frontier'[i] = Places[Len(Places) - Len(frontier') + i]
        BY <1>0, <3>2, <3>3
      <3>5. Places[Len(Places) - Len(frontier) + 1] \notin plugins
        BY <2>4, <3>2
      <3>6. Quiet =>
              \A i \in 1..(Len(Places) - Len(frontier')) : Places[i] \notin plugins
        BY <1>0, <2>1, <3>2, <3>3, <3>5 DEF ResolverInv, FrontierIsRest
      <3>7. Len(frontier') \in 0..Len(Places)
        BY <1>0, <3>2, <3>3
      <3> QED BY <2>1, <3>1, <3>3, <3>4, <3>6, <3>7
          DEF ResolverInv, RequestTypes, FrontierIsRest, FirstIsChosen
    <2> QED BY <2>2, <2>3, <2>4
  <1>3. CASE PackagedPrefix
    <2>1. /\ pc = "prefix" /\ pc' = "config"
          /\ packaged' = IF chosen \in prefixes THEN chosen ELSE None
          /\ UNCHANGED <<ask, changes, plugins, prefixes, frontier, chosen, source>>
      BY <1>3 DEF PackagedPrefix
    <2>2. FrontierIsRest' /\ FirstIsChosen'
      BY <2>1 DEF ResolverInv, FrontierIsRest, FirstIsChosen, Places, Quiet,
                  SourceOf
    <2> QED BY <2>1, <2>2 DEF ResolverInv, RequestTypes
  <1>4. CASE Configure
    <2>1. /\ pc = "config" /\ pc' = "done" /\ prefix' = GivenFirst
          /\ UNCHANGED <<ask, changes, plugins, prefixes, frontier, chosen, source, packaged>>
      BY <1>4 DEF Configure
    <2>2. FrontierIsRest' /\ FirstIsChosen'
      BY <2>1 DEF ResolverInv, FrontierIsRest, FirstIsChosen, Places, Quiet,
                  SourceOf
    <2> QED BY <2>1, <2>2
        DEF ResolverInv, RequestTypes, GivenFirst, Quiet
  <1>5. CASE Deploy
    <2>1. /\ pc \in {"probe", "prefix"} /\ changes' = changes + 1
          /\ UNCHANGED <<ask, pc, frontier, chosen, source, packaged, prefix>>
      BY <1>5 DEF Deploy
    <2>2. ~Quiet' /\ changes' \in Nat
      BY <2>1 DEF ResolverInv, RequestTypes, Quiet
    <2>3. FrontierIsRest' /\ FirstIsChosen'
      BY <2>1, <2>2 DEF ResolverInv, FrontierIsRest, FirstIsChosen, Places, SourceOf
    <2> QED BY <2>1, <2>2, <2>3 DEF ResolverInv, RequestTypes
  <1>6. CASE UNCHANGED resolverVars
    <2>1. UNCHANGED <<plugins, prefixes, changes, ask, pc, frontier, chosen, source, packaged,
                      prefix>>
      BY <1>6 DEF resolverVars
    <2>2. FrontierIsRest' /\ FirstIsChosen'
      BY <2>1 DEF ResolverInv, FrontierIsRest, FirstIsChosen, Places, Quiet,
                  SourceOf
    <2> QED BY <2>1, <2>2 DEF ResolverInv, RequestTypes, Quiet
  <1> QED BY <1>1, <1>2, <1>3, <1>4, <1>5, <1>6 DEF ResolverNext

(***************************************************************************)
(* A plugin path or a directory that was named is the only place a plugin  *)
(* is taken from, whatever is deployed meanwhile.  Otherwise, while        *)
(* nothing changes, a plugin near the host is found, one near the binary   *)
(* as it was called before one near the binary itself, for any directories *)
(* and links between them (release.rs:205-281, 315-374).                   *)
(***************************************************************************)
THEOREM RightPlugin == ResolverSpec => []TheRightPluginIsChosen
  <1>1. ResolverInv => TheRightPluginIsChosen
    <2> SUFFICES ASSUME ResolverInv PROVE TheRightPluginIsChosen
      OBVIOUS
    <2> USE DEF ResolverInv, RequestTypes, FrontierIsRest, FirstIsChosen, Searched, Chosen
    <2>0. Places \in Seq(Dirs)
      BY PlacesAreDirs
    <2>1. chosen # None => /\ Len(frontier) \in 1..Len(Places)
                           /\ chosen = Places[Len(Places) - Len(frontier) + 1]
                           /\ source = SourceOf(ask)
      <3>1. SUFFICES ASSUME chosen # None
                     PROVE  /\ Len(frontier) \in 1..Len(Places)
                            /\ chosen = Places[Len(Places) - Len(frontier) + 1]
                            /\ source = SourceOf(ask)
        OBVIOUS
      <3>2. pc \in Chosen /\ frontier # <<>> /\ chosen = Head(frontier)
        BY <3>1
      <3>3. frontier \in Seq(Dirs) /\ Len(frontier) \in 1..Len(Places) /\ chosen = frontier[1]
        BY <3>2
      <3> QED BY <3>2, <3>3
    <2>2. ASSUME chosen # None, ask.pluginPath # None
          PROVE  chosen = ask.pluginPath /\ source = "environment"
      <3>1. Places = <<ask.pluginPath>> /\ SourceOf(ask) = "environment"
        BY <2>2 DEF Places, Candidates, PathAlone, SourceOf
      <3> QED BY <2>1, <2>2, <3>1
    <2>3. ASSUME chosen # None, ask.pluginPath = None, ask.dir # None
          PROVE  chosen = ask.dir
      <3>1. Places = <<ask.dir>>
        BY <2>3 DEF Places, Candidates
      <3> QED BY <2>1, <2>3, <3>1
    <2>4. ASSUME Quiet, ask.pluginPath = None, ask.dir = None, ask.host # None
          PROVE  /\ pc = "failed" => plugins \cap Near(ask.host) = {}
                 /\ pc = "failed" /\ ask.canonical # None =>
                      plugins \cap Near(ask.canonical) = {}
                 /\ chosen # None /\ plugins \cap Near(ask.host) # {} =>
                      chosen \in Near(ask.host)
      <3>1. /\ Places = HostFrontier(ask.host, ask.canonical)
            /\ ask.host \in Dirs /\ ask.canonical \in Dirs \cup {None}
        BY <2>4 DEF Places, Candidates, Requests, MaybeDir
      <3>2. /\ \E n \in 0..Len(Places) : Near(ask.host) = {Places[i] : i \in 1..n}
            /\ ask.canonical # None => Near(ask.canonical) \subseteq Listed(Places)
        <4> HIDE DEF ResolverInv
        <4>1. LET r == HostFrontier(ask.host, ask.canonical)
              IN /\ \E n \in 0..Len(r) : Near(ask.host) = {r[i] : i \in 1..n}
                 /\ ask.canonical # None => Near(ask.canonical) \subseteq Listed(r)
          BY <3>1, HostFrontierIsNear
        <4> QED BY <3>1, <4>1
      <3>3. PICK n \in 0..Len(Places) : Near(ask.host) = {Places[i] : i \in 1..n}
        BY <3>2
      <3>4. ASSUME pc = "failed" PROVE \A i \in 1..Len(Places) : Places[i] \notin plugins
        BY <2>0, <2>4, <3>4
      <3>5. ASSUME chosen # None, NEW i \in 1..n, Places[i] \in plugins
            PROVE  chosen \in Near(ask.host)
        <4>1. pc \in Searched
          BY <3>5
        <4>2. \A j \in 1..(Len(Places) - Len(frontier)) : Places[j] \notin plugins
          BY <2>4, <4>1
        <4>3. Len(Places) \in Nat /\ Len(frontier) \in 1..Len(Places) /\ n \in 0..Len(Places)
          BY <2>0, <2>1, <3>5
        <4>4. ~(i <= Len(Places) - Len(frontier))
          BY <3>5, <4>2, <4>3
        <4>5. Len(Places) - Len(frontier) + 1 \in 1..n
          BY <3>5, <4>3, <4>4
        <4>6. chosen = Places[Len(Places) - Len(frontier) + 1]
          BY <2>1, <3>5
        <4> QED BY <3>3, <4>5, <4>6
      <3>6. n \in Nat /\ Len(Places) \in Nat /\ n <= Len(Places)
        BY <2>0
      <3>7. pc = "failed" => plugins \cap Near(ask.host) = {}
        BY <3>3, <3>4, <3>6
      <3>8. pc = "failed" /\ ask.canonical # None => plugins \cap Near(ask.canonical) = {}
        BY <3>2, <3>4 DEF Listed
      <3>9. chosen # None /\ plugins \cap Near(ask.host) # {} => chosen \in Near(ask.host)
        BY <3>3, <3>5
      <3> QED BY <3>7, <3>8, <3>9
    <2> QED BY <2>2, <2>3, <2>4 DEF TheRightPluginIsChosen, Near
  <1> QED BY <1>1, InitResolver, NextResolver, PTL DEF ResolverSpec
=============================================================================
