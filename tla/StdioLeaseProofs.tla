---------------------------- MODULE StdioLeaseProofs ----------------------------
(***************************************************************************)
(* Proofs about StdioLease, for any number of leases, of failing calls and *)
(* of things said.  Which guards exist follows from how far the lease has  *)
(* come, and what a descriptor leads to from which guards exist; where     *)
(* text can be follows from that.                                          *)
(***************************************************************************)
EXTENDS StdioLease, TLAPS

\* The guards are built in order and are all there until the fields are dropped.
GuardsFollow ==
  /\ pc \in {"idle", "stdin"} => guards = {}
  /\ pc = "stdout" => guards = {"stdin"}
  /\ pc = "stderr" => guards = {"stdin", "stdout"}
  /\ pc \in {"held", "restore", "lease_drop", "read"} => guards = Std
  /\ pc \in {"idle", "stdin", "stdout", "stderr", "held", "unwind"} => restored = {}
  /\ pc = "read" => restored = Std
  /\ pc # "idle" => lease # 0

\* Only a guard's descriptor leads to a capture file, and to its own while it is
\* not restored; the duplicates never do.  Files and guards go together.
GuardsLead ==
  /\ \A s \in Std : saved[s] # "capture"
  /\ \A s \in Std : fd[s] = "capture" => s \in guards \ restored
  /\ \A s \in Captured \cap guards : pc \in {"stderr", "held"} => fd[s] = "capture"
  /\ files = guards \cap Captured
  /\ orphaned <= faults.redirect

\* What one lease may hold in a capture file, or leave in the buffer.
OfThisLease(t) ==
  /\ t.who = "host" => t.lease # 0
  /\ t.who = "leased" => t.lease = lease

\* Leased text is in the buffer only until the call returns; under a lease, the
\* buffer and the capture files hold what may become a record of it.
TextIsOfThisLease ==
  /\ \A t \in cbuf : t.who = "leased" => pc = "held"
  /\ pc # "idle" => \A t \in cbuf : OfThisLease(t)
  /\ \A s \in Captured : s \in guards => \A t \in capture[s] : OfThisLease(t)

\* Text said under a lease is on its way to the ledger: in the buffer until the
\* call returns, in the capture file until that is read back, and then there.
OnItsWay(s, t) ==
  /\ t.lease = lease
  /\ pc \in {"held", "restore", "lease_drop", "read"}
  /\ \/ t \in capture[s]
     \/ s = "stdout" /\ pc = "held" /\ t \in cbuf

Recorded(s, t) == [stream |-> s, lease |-> t.lease, text |-> t] \in ledger

SaidIsKept ==
  /\ \A s \in Captured : \A t \in said[s] : t.who = "leased"
  /\ faults.read = 0 /\ faults.restore = 0 =>
       \A s \in Captured : \A t \in said[s] : Recorded(s, t) \/ OnItsWay(s, t)

\* How a fault of the lease in progress shows, in the result or in the step.
FaultsShow ==
  /\ pc \in {"stdin", "stdout", "stderr", "held", "restore", "read"} => faults.now = 0
  /\ pc = "unwind" => result = "begin_err"
  /\ pc = "lease_drop" => result = "finish_err"
  /\ pc = "fields" /\ result = "ok" => guards \subseteq restored /\ faults.now = 0
  /\ pc = "idle" /\ result = "ok" => faults.now = 0

\* Enough calls have failed to lose a descriptor.
MayBeLost ==
  \/ faults.restore >= 3
  \/ faults.redirect >= 1 /\ faults.restore >= 1

\* Until then, what is not redirected is the caller's, and so is what the guards
\* hold; a restore that has been given up once or twice has failed as often.
AttemptsRemain ==
  /\ pc = "unwind" => faults.redirect >= 1
  /\ pc = "lease_drop" => faults.restore >= 1
  /\ pc = "fields" /\ ~(guards \subseteq restored) => faults.restore >= 2
  /\ ~MayBeLost =>
       \A s \in Std : /\ s \in guards => saved[s] = "caller"
                      /\ s \notin guards \/ s \in restored => fd[s] = "caller"

IInv ==
  /\ TypeOK
  /\ GuardsFollow
  /\ GuardsLead
  /\ TextIsOfThisLease
  /\ TextStaysOnItsSide
  /\ SaidIsKept
  /\ FaultsShow
  /\ AttemptsRemain

-----------------------------------------------------------------------------
(* What the actions have in common: the guard taken next, a fault counted. *)

\* The guard restored next is one that has not been restored.
LEMMA RestorePicks ==
  ASSUME Pending # {} PROVE NextToRestore \in guards \ restored
  <1>1. PICK i \in Pending : \A j \in Pending : i <= j
    BY DEF Pending
  <1> DEFINE next == CHOOSE k \in Pending : \A j \in Pending : k <= j
  <1>2. next \in Pending
    BY <1>1
  <1>3. Order[next] \in guards \ restored
    BY <1>2 DEF Pending
  <1>4. QED BY <1>3 DEF NextToRestore

\* When none is left, all have been.
LEMMA NothingPending ==
  ASSUME TypeOK, Pending = {} PROVE guards \subseteq restored
  <1>1. \A s \in Std : \E i \in 1..3 : Order[i] = s
    BY DEF Order, Std, Captured
  <1>2. QED BY <1>1 DEF Pending, TypeOK

\* The guard dropped next is one that is left.
LEMMA DropPicks ==
  ASSUME TypeOK, guards # {} PROVE NextToDrop \in guards
  <1>1. \A s \in Std : \E i \in 1..3 : DropOrder[i] = s
    BY DEF DropOrder, Order, Std, Captured
  <1>2. Live # {}
    BY <1>1 DEF Live, TypeOK
  <1>3. PICK i \in Live : \A j \in Live : i <= j
    BY <1>2 DEF Live
  <1> DEFINE next == CHOOSE k \in Live : \A j \in Live : k <= j
  <1>4. next \in Live
    BY <1>3
  <1>5. DropOrder[next] \in guards
    BY <1>4 DEF Live
  <1>6. QED BY <1>5 DEF NextToDrop

\* A failing call counts once under its kind and once for the lease.
LEMMA FaultCounted ==
  ASSUME TypeOK, NEW kind \in {"redirect", "restore", "read"}, Failing(kind)
  PROVE  /\ faults' \in [redirect : Nat, restore : Nat, read : Nat, now : Nat]
         /\ TotalFaults' <= MaxFaults
         /\ faults'.now = faults.now + 1
         /\ faults'[kind] = faults[kind] + 1
         /\ \A other \in {"redirect", "restore", "read"} \ {kind} :
              faults'[other] = faults[other]
  <1>1. /\ faults.redirect \in Nat /\ faults.restore \in Nat /\ faults.read \in Nat
        /\ faults.now \in Nat
    BY DEF TypeOK
  <1>2. faults' = [redirect |-> faults'.redirect, restore |-> faults'.restore,
                   read |-> faults'.read, now |-> faults.now + 1]
    BY DEF TypeOK, Failing
  <1>3. /\ faults'[kind] = faults[kind] + 1
        /\ \A other \in {"redirect", "restore", "read"} \ {kind} :
             faults'[other] = faults[other]
    BY DEF TypeOK, Failing
  <1>4. /\ faults'.redirect \in Nat /\ faults'.restore \in Nat /\ faults'.read \in Nat
        /\ TotalFaults' = TotalFaults + 1
    <2>1. CASE kind = "redirect"
      <3>1. /\ faults'.redirect = faults.redirect + 1
            /\ faults'.restore = faults.restore /\ faults'.read = faults.read
        BY <1>3, <2>1
      <3>2. QED BY <1>1, <3>1 DEF TotalFaults
    <2>2. CASE kind = "restore"
      <3>1. /\ faults'.restore = faults.restore + 1
            /\ faults'.redirect = faults.redirect /\ faults'.read = faults.read
        BY <1>3, <2>2
      <3>2. QED BY <1>1, <3>1 DEF TotalFaults
    <2>3. CASE kind = "read"
      <3>1. /\ faults'.read = faults.read + 1
            /\ faults'.redirect = faults.redirect /\ faults'.restore = faults.restore
        BY <1>3, <2>3
      <3>2. QED BY <1>1, <3>1 DEF TotalFaults
    <2>4. QED BY <2>1, <2>2, <2>3
  <1>5. faults' \in [redirect : Nat, restore : Nat, read : Nat, now : Nat]
    BY <1>1, <1>2, <1>4
  <1>6. TotalFaults' <= MaxFaults
    <2>1. TotalFaults < MaxFaults
      BY DEF Failing
    <2>2. QED BY <1>1, <1>4, <2>1, LeaseBounds DEF TotalFaults
  <1>7. QED BY <1>2, <1>3, <1>5, <1>6

-----------------------------------------------------------------------------
(* One lemma per part of the invariant: every step keeps it.               *)

\* Every variable keeps its type (TypeOK).
LEMMA TypeStep ==
  ASSUME TypeOK, GuardsFollow, GuardsLead, [Next]_vars
  PROVE  TypeOK'
  <1> USE LeaseBounds DEF TypeOK, GuardsFollow, GuardsLead, Std, Captured, Targets,
          Texts, Speakers, TotalFaults
  <1>1. ASSUME NEW s \in Std, Redirect(s) PROVE TypeOK'
    BY <1>1 DEF Redirect, AfterRedirect, NewCaptureFile
  <1>2. ASSUME NEW s \in Std, RedirectFails(s) PROVE TypeOK'
    BY <1>2, FaultCounted DEF RedirectFails, streams
  <1>3. ASSUME NEW s \in Captured, BackendSpeaks(s) PROVE TypeOK'
    BY <1>3 DEF BackendSpeaks, Speak, Deliver, LeasedText
  <1>4. ASSUME NEW s \in Captured, BareBackendSpeaks(s) PROVE TypeOK'
    BY <1>4 DEF BareBackendSpeaks, Speak, Deliver
  <1>5. ASSUME NEW s \in Captured, HostSpeaks(s) PROVE TypeOK'
    BY <1>5 DEF HostSpeaks, Speak, Deliver
  <1>6. CASE BeginLease BY <1>6 DEF BeginLease, FlushAtBegin, FlushAll, Deliver
  <1>7. CASE FinishLease BY <1>7 DEF FinishLease, FlushAtRestore, FlushAll, Deliver
  <1>8. CASE RestoreNext BY <1>8, RestorePicks DEF RestoreNext, streams
  <1>9. CASE RestoreFails
    BY <1>9, FaultCounted DEF RestoreFails, AfterRestoreFault, FlushAtRestore,
       FlushAll, Deliver, streams
  <1>10. CASE RestoreDone BY <1>10, NothingPending DEF RestoreDone, streams
  <1>11. CASE ReadCapture
    <2>1. ledger' \subseteq Records
      <3>1. \A s \in Captured : \A t \in capture[s] :
              [stream |-> s, lease |-> lease, text |-> t] \in Records
        BY DEF Records
      <3>2. \A r \in ledger' : \/ r \in ledger
                               \/ \E s \in Captured : \E t \in capture[s] :
                                    r = [stream |-> s, lease |-> lease, text |-> t]
        BY <1>11 DEF ReadCapture, ReadText
      <3>3. QED BY <3>1, <3>2
    <2>2. pc' = "fields" /\ result' = "ok"
      BY <1>11 DEF ReadCapture
    <2>3. UNCHANGED <<fd, saved, guards, restored, files, streams, lease, faults,
                      orphaned>>
      BY <1>11 DEF ReadCapture
    <2>4. QED BY <2>1, <2>2, <2>3 DEF streams
  <1>12. CASE ReadFails BY <1>12, FaultCounted DEF ReadFails, streams
  <1>13. CASE DropGuard
    BY <1>13, DropPicks DEF DropGuard, Discard, ForgetFlag, RemoveFile, DropRestore,
       streams
  <1>14. CASE DropGuardFails
    BY <1>14, DropPicks, FaultCounted DEF DropGuardFails, Discard, ForgetFlag,
       RemoveFile, streams
  <1>15. CASE EndLease BY <1>15 DEF EndLease, streams
  <1>16. CASE UNCHANGED vars BY <1>16 DEF vars, streams
  <1>17. QED
    BY <1>1, <1>2, <1>3, <1>4, <1>5, <1>6, <1>7, <1>8, <1>9, <1>10, <1>11, <1>12,
       <1>13, <1>14, <1>15, <1>16 DEF Next

\* The guards follow the step of the lease (GuardsFollow).
LEMMA GuardStep ==
  ASSUME TypeOK, GuardsFollow, [Next]_vars
  PROVE  GuardsFollow'
  <1> USE LeaseBounds DEF TypeOK, GuardsFollow, Std, Captured
  <1>1. ASSUME NEW s \in Std, Redirect(s) PROVE GuardsFollow'
    BY <1>1 DEF Redirect, AfterRedirect, NewCaptureFile
  <1>2. ASSUME NEW s \in Std, RedirectFails(s) PROVE GuardsFollow'
    BY <1>2, FaultCounted DEF RedirectFails, streams
  <1>3. ASSUME NEW s \in Captured, BackendSpeaks(s) PROVE GuardsFollow'
    BY <1>3 DEF BackendSpeaks, Speak, Deliver, LeasedText
  <1>4. ASSUME NEW s \in Captured, BareBackendSpeaks(s) PROVE GuardsFollow'
    BY <1>4 DEF BareBackendSpeaks, Speak, Deliver
  <1>5. ASSUME NEW s \in Captured, HostSpeaks(s) PROVE GuardsFollow'
    BY <1>5 DEF HostSpeaks, Speak, Deliver
  <1>6. CASE BeginLease BY <1>6 DEF BeginLease, FlushAtBegin, FlushAll, Deliver
  <1>7. CASE FinishLease BY <1>7 DEF FinishLease, FlushAtRestore, FlushAll, Deliver
  <1>8. CASE RestoreNext BY <1>8, RestorePicks DEF RestoreNext, streams
  <1>9. CASE RestoreFails
    BY <1>9, FaultCounted DEF RestoreFails, AfterRestoreFault, FlushAtRestore,
       FlushAll, Deliver, streams
  <1>10. CASE RestoreDone BY <1>10, NothingPending DEF RestoreDone, streams
  <1>11. CASE ReadCapture BY <1>11 DEF ReadCapture, streams, ReadText
  <1>12. CASE ReadFails BY <1>12, FaultCounted DEF ReadFails, streams
  <1>13. CASE DropGuard
    BY <1>13, DropPicks DEF DropGuard, Discard, ForgetFlag, RemoveFile, DropRestore,
       streams
  <1>14. CASE DropGuardFails
    BY <1>14, DropPicks, FaultCounted DEF DropGuardFails, Discard, ForgetFlag,
       RemoveFile, streams
  <1>15. CASE EndLease BY <1>15 DEF EndLease, streams
  <1>16. CASE UNCHANGED vars BY <1>16 DEF vars, streams
  <1>17. QED
    BY <1>1, <1>2, <1>3, <1>4, <1>5, <1>6, <1>7, <1>8, <1>9, <1>10, <1>11, <1>12,
       <1>13, <1>14, <1>15, <1>16 DEF Next

\* What the descriptors and the duplicates lead to (GuardsLead).
LEMMA LeadStep ==
  ASSUME TypeOK, GuardsFollow, GuardsLead, [Next]_vars
  PROVE  GuardsLead'
  <1> USE LeaseBounds DEF TypeOK, GuardsFollow, GuardsLead, Std, Captured, Targets
  <1>1. ASSUME NEW s \in Std, Redirect(s) PROVE GuardsLead'
    <2>1. CASE s = "stdin" BY <1>1, <2>1 DEF Redirect, AfterRedirect, NewCaptureFile
    <2>2. CASE s = "stdout" BY <1>1, <2>2 DEF Redirect, AfterRedirect, NewCaptureFile
    <2>3. CASE s = "stderr" BY <1>1, <2>3 DEF Redirect, AfterRedirect, NewCaptureFile
    <2>4. QED BY <2>1, <2>2, <2>3
  <1>2. ASSUME NEW s \in Std, RedirectFails(s) PROVE GuardsLead'
    BY <1>2, FaultCounted DEF RedirectFails, streams
  <1>3. ASSUME NEW s \in Captured, BackendSpeaks(s) PROVE GuardsLead'
    BY <1>3 DEF BackendSpeaks, Speak, Deliver, LeasedText
  <1>4. ASSUME NEW s \in Captured, BareBackendSpeaks(s) PROVE GuardsLead'
    BY <1>4 DEF BareBackendSpeaks, Speak, Deliver
  <1>5. ASSUME NEW s \in Captured, HostSpeaks(s) PROVE GuardsLead'
    BY <1>5 DEF HostSpeaks, Speak, Deliver
  <1>6. CASE BeginLease BY <1>6 DEF BeginLease, FlushAtBegin, FlushAll, Deliver
  <1>7. CASE FinishLease BY <1>7 DEF FinishLease, FlushAtRestore, FlushAll, Deliver
  <1>8. CASE RestoreNext BY <1>8, RestorePicks DEF RestoreNext, streams
  <1>9. CASE RestoreFails
    BY <1>9, FaultCounted DEF RestoreFails, AfterRestoreFault, FlushAtRestore,
       FlushAll, Deliver, streams
  <1>10. CASE RestoreDone BY <1>10, NothingPending DEF RestoreDone, streams
  <1>11. CASE ReadCapture BY <1>11 DEF ReadCapture, streams, ReadText
  <1>12. CASE ReadFails BY <1>12, FaultCounted DEF ReadFails, streams
  <1>13. CASE DropGuard
    BY <1>13, DropPicks DEF DropGuard, Discard, ForgetFlag, RemoveFile, DropRestore,
       streams
  <1>14. CASE DropGuardFails
    BY <1>14, DropPicks, FaultCounted DEF DropGuardFails, Discard, ForgetFlag,
       RemoveFile, streams
  <1>15. CASE EndLease BY <1>15 DEF EndLease, streams
  <1>16. CASE UNCHANGED vars BY <1>16 DEF vars, streams
  <1>17. QED
    BY <1>1, <1>2, <1>3, <1>4, <1>5, <1>6, <1>7, <1>8, <1>9, <1>10, <1>11, <1>12,
       <1>13, <1>14, <1>15, <1>16 DEF Next

\* Text stays in its lease until it is flushed (TextIsOfThisLease).
LEMMA TextStep ==
  ASSUME TypeOK, GuardsFollow, GuardsLead, TextIsOfThisLease, [Next]_vars
  PROVE  TextIsOfThisLease'
  <1> USE LeaseBounds DEF TypeOK, GuardsFollow, GuardsLead, TextIsOfThisLease,
          OfThisLease, Std, Captured, Texts
  <1>1. ASSUME NEW s \in Std, Redirect(s) PROVE TextIsOfThisLease'
    BY <1>1 DEF Redirect, AfterRedirect, NewCaptureFile
  <1>2. ASSUME NEW s \in Std, RedirectFails(s) PROVE TextIsOfThisLease'
    BY <1>2, FaultCounted DEF RedirectFails, streams
  <1>3. ASSUME NEW s \in Captured, BackendSpeaks(s) PROVE TextIsOfThisLease'
    BY <1>3 DEF BackendSpeaks, Speak, Deliver, LeasedText
  <1>4. ASSUME NEW s \in Captured, BareBackendSpeaks(s) PROVE TextIsOfThisLease'
    BY <1>4 DEF BareBackendSpeaks, Speak, Deliver
  <1>5. ASSUME NEW s \in Captured, HostSpeaks(s) PROVE TextIsOfThisLease'
    BY <1>5 DEF HostSpeaks, Speak, Deliver
  <1>6. CASE BeginLease BY <1>6 DEF BeginLease, FlushAtBegin, FlushAll, Deliver
  <1>7. CASE FinishLease BY <1>7 DEF FinishLease, FlushAtRestore, FlushAll, Deliver
  <1>8. CASE RestoreNext BY <1>8, RestorePicks DEF RestoreNext, streams
  <1>9. CASE RestoreFails
    BY <1>9, FaultCounted DEF RestoreFails, AfterRestoreFault, FlushAtRestore,
       FlushAll, Deliver, streams
  <1>10. CASE RestoreDone BY <1>10, NothingPending DEF RestoreDone, streams
  <1>11. CASE ReadCapture BY <1>11 DEF ReadCapture, streams, ReadText
  <1>12. CASE ReadFails BY <1>12, FaultCounted DEF ReadFails, streams
  <1>13. CASE DropGuard
    BY <1>13, DropPicks DEF DropGuard, Discard, ForgetFlag, RemoveFile, DropRestore,
       streams
  <1>14. CASE DropGuardFails
    BY <1>14, DropPicks, FaultCounted DEF DropGuardFails, Discard, ForgetFlag,
       RemoveFile, streams
  <1>15. CASE EndLease BY <1>15 DEF EndLease, streams
  <1>16. CASE UNCHANGED vars BY <1>16 DEF vars, streams
  <1>17. QED
    BY <1>1, <1>2, <1>3, <1>4, <1>5, <1>6, <1>7, <1>8, <1>9, <1>10, <1>11, <1>12,
       <1>13, <1>14, <1>15, <1>16 DEF Next

\* No text crosses the boundary (TextStaysOnItsSide).
LEMMA SideStep ==
  ASSUME TypeOK, GuardsFollow, GuardsLead, TextIsOfThisLease, TextStaysOnItsSide,
         [Next]_vars
  PROVE  TextStaysOnItsSide'
  <1> USE LeaseBounds DEF TypeOK, GuardsFollow, GuardsLead, TextIsOfThisLease,
          TextStaysOnItsSide, OfThisLease, Std, Captured, Texts
  <1>1. ASSUME NEW s \in Std, Redirect(s) PROVE TextStaysOnItsSide'
    BY <1>1 DEF Redirect, AfterRedirect, NewCaptureFile
  <1>2. ASSUME NEW s \in Std, RedirectFails(s) PROVE TextStaysOnItsSide'
    BY <1>2, FaultCounted DEF RedirectFails, streams
  <1>3. ASSUME NEW s \in Captured, BackendSpeaks(s) PROVE TextStaysOnItsSide'
    BY <1>3 DEF BackendSpeaks, Speak, Deliver, LeasedText
  <1>4. ASSUME NEW s \in Captured, BareBackendSpeaks(s) PROVE TextStaysOnItsSide'
    BY <1>4 DEF BareBackendSpeaks, Speak, Deliver
  <1>5. ASSUME NEW s \in Captured, HostSpeaks(s) PROVE TextStaysOnItsSide'
    BY <1>5 DEF HostSpeaks, Speak, Deliver
  <1>6. CASE BeginLease BY <1>6 DEF BeginLease, FlushAtBegin, FlushAll, Deliver
  <1>7. CASE FinishLease BY <1>7 DEF FinishLease, FlushAtRestore, FlushAll, Deliver
  <1>8. CASE RestoreNext BY <1>8, RestorePicks DEF RestoreNext, streams
  <1>9. CASE RestoreFails
    BY <1>9, FaultCounted DEF RestoreFails, AfterRestoreFault, FlushAtRestore,
       FlushAll, Deliver, streams
  <1>10. CASE RestoreDone BY <1>10, NothingPending DEF RestoreDone, streams
  <1>11. CASE ReadCapture BY <1>11 DEF ReadCapture, streams, ReadText
  <1>12. CASE ReadFails BY <1>12, FaultCounted DEF ReadFails, streams
  <1>13. CASE DropGuard
    BY <1>13, DropPicks DEF DropGuard, Discard, ForgetFlag, RemoveFile, DropRestore,
       streams
  <1>14. CASE DropGuardFails
    BY <1>14, DropPicks, FaultCounted DEF DropGuardFails, Discard, ForgetFlag,
       RemoveFile, streams
  <1>15. CASE EndLease BY <1>15 DEF EndLease, streams
  <1>16. CASE UNCHANGED vars BY <1>16 DEF vars, streams
  <1>17. QED
    BY <1>1, <1>2, <1>3, <1>4, <1>5, <1>6, <1>7, <1>8, <1>9, <1>10, <1>11, <1>12,
       <1>13, <1>14, <1>15, <1>16 DEF Next

\* What has been said goes on its way (SaidIsKept).
LEMMA SaidStep ==
  ASSUME TypeOK, GuardsFollow, GuardsLead, SaidIsKept, AttemptsRemain, [Next]_vars
  PROVE  SaidIsKept'
  <1> USE LeaseBounds DEF TypeOK, GuardsFollow, GuardsLead, SaidIsKept, OnItsWay,
          Recorded, Std, Captured, Texts
  <1>1. ASSUME NEW s \in Std, Redirect(s) PROVE SaidIsKept'
    BY <1>1 DEF Redirect, AfterRedirect, NewCaptureFile
  <1>2. ASSUME NEW s \in Std, RedirectFails(s) PROVE SaidIsKept'
    BY <1>2, FaultCounted DEF RedirectFails, streams
  <1>3. ASSUME NEW s \in Captured, BackendSpeaks(s) PROVE SaidIsKept'
    BY <1>3 DEF BackendSpeaks, Speak, Deliver, LeasedText
  <1>4. ASSUME NEW s \in Captured, BareBackendSpeaks(s) PROVE SaidIsKept'
    BY <1>4 DEF BareBackendSpeaks, Speak, Deliver
  <1>5. ASSUME NEW s \in Captured, HostSpeaks(s) PROVE SaidIsKept'
    BY <1>5 DEF HostSpeaks, Speak, Deliver
  <1>6. CASE BeginLease BY <1>6 DEF BeginLease, FlushAtBegin, FlushAll, Deliver
  <1>7. CASE FinishLease BY <1>7 DEF FinishLease, FlushAtRestore, FlushAll, Deliver
  <1>8. CASE RestoreNext BY <1>8, RestorePicks DEF RestoreNext, streams
  <1>9. CASE RestoreFails
    BY <1>9, FaultCounted DEF RestoreFails, AfterRestoreFault, FlushAtRestore,
       FlushAll, Deliver, streams
  <1>10. CASE RestoreDone BY <1>10 DEF RestoreDone, streams, AttemptsRemain
  <1>11. CASE ReadCapture
    <2>1. \A s \in Captured : \A t \in capture[s] :
            [stream |-> s, lease |-> lease, text |-> t] \in ledger'
      BY <1>11 DEF ReadCapture, ReadText
    <2>2. ledger \subseteq ledger'
      BY <1>11 DEF ReadCapture
    <2>3. pc = "read" /\ UNCHANGED <<said, faults>>
      BY <1>11 DEF ReadCapture, streams
    <2>4. ASSUME NEW s \in Captured, NEW t \in said[s], OnItsWay(s, t)
          PROVE  Recorded(s, t)'
      <3>1. t \in capture[s] /\ t.lease = lease
        BY <2>3, <2>4
      <3>2. QED BY <2>1, <2>3, <3>1
    <2>5. QED BY <2>2, <2>3, <2>4
  <1>12. CASE ReadFails BY <1>12, FaultCounted DEF ReadFails, streams
  <1>13. CASE DropGuard
    BY <1>13, DropPicks DEF DropGuard, Discard, ForgetFlag, RemoveFile, DropRestore,
       streams
  <1>14. CASE DropGuardFails
    BY <1>14, DropPicks, FaultCounted DEF DropGuardFails, Discard, ForgetFlag,
       RemoveFile, streams
  <1>15. CASE EndLease BY <1>15 DEF EndLease, streams
  <1>16. CASE UNCHANGED vars BY <1>16 DEF vars, streams
  <1>17. QED
    BY <1>1, <1>2, <1>3, <1>4, <1>5, <1>6, <1>7, <1>8, <1>9, <1>10, <1>11, <1>12,
       <1>13, <1>14, <1>15, <1>16 DEF Next

\* No fault is forgotten (FaultsShow).
LEMMA ShowStep ==
  ASSUME TypeOK, GuardsFollow, FaultsShow, [Next]_vars
  PROVE  FaultsShow'
  <1> USE LeaseBounds DEF TypeOK, GuardsFollow, FaultsShow, Std, Captured
  <1>1. ASSUME NEW s \in Std, Redirect(s) PROVE FaultsShow'
    BY <1>1 DEF Redirect, AfterRedirect, NewCaptureFile
  <1>2. ASSUME NEW s \in Std, RedirectFails(s) PROVE FaultsShow'
    BY <1>2, FaultCounted DEF RedirectFails, streams
  <1>3. ASSUME NEW s \in Captured, BackendSpeaks(s) PROVE FaultsShow'
    BY <1>3 DEF BackendSpeaks, Speak, Deliver, LeasedText
  <1>4. ASSUME NEW s \in Captured, BareBackendSpeaks(s) PROVE FaultsShow'
    BY <1>4 DEF BareBackendSpeaks, Speak, Deliver
  <1>5. ASSUME NEW s \in Captured, HostSpeaks(s) PROVE FaultsShow'
    BY <1>5 DEF HostSpeaks, Speak, Deliver
  <1>6. CASE BeginLease BY <1>6 DEF BeginLease, FlushAtBegin, FlushAll, Deliver
  <1>7. CASE FinishLease BY <1>7 DEF FinishLease, FlushAtRestore, FlushAll, Deliver
  <1>8. CASE RestoreNext BY <1>8, RestorePicks DEF RestoreNext, streams
  <1>9. CASE RestoreFails
    BY <1>9, FaultCounted DEF RestoreFails, AfterRestoreFault, FlushAtRestore,
       FlushAll, Deliver, streams
  <1>10. CASE RestoreDone BY <1>10, NothingPending DEF RestoreDone, streams
  <1>11. CASE ReadCapture BY <1>11 DEF ReadCapture, streams, ReadText
  <1>12. CASE ReadFails BY <1>12, FaultCounted DEF ReadFails, streams
  <1>13. CASE DropGuard
    BY <1>13, DropPicks DEF DropGuard, Discard, ForgetFlag, RemoveFile, DropRestore,
       streams
  <1>14. CASE DropGuardFails
    BY <1>14, DropPicks, FaultCounted DEF DropGuardFails, Discard, ForgetFlag,
       RemoveFile, streams
  <1>15. CASE EndLease BY <1>15 DEF EndLease, streams
  <1>16. CASE UNCHANGED vars BY <1>16 DEF vars, streams
  <1>17. QED
    BY <1>1, <1>2, <1>3, <1>4, <1>5, <1>6, <1>7, <1>8, <1>9, <1>10, <1>11, <1>12,
       <1>13, <1>14, <1>15, <1>16 DEF Next

\* A descriptor is lost only after its last attempt (AttemptsRemain).
LEMMA AttemptStep ==
  ASSUME TypeOK, GuardsFollow, GuardsLead, AttemptsRemain, [Next]_vars
  PROVE  AttemptsRemain'
  <1> USE LeaseBounds DEF TypeOK, GuardsFollow, GuardsLead, AttemptsRemain,
          MayBeLost, Std, Captured, Targets
  <1>1. ASSUME NEW s \in Std, Redirect(s) PROVE AttemptsRemain'
    BY <1>1 DEF Redirect, AfterRedirect, NewCaptureFile
  <1>2. ASSUME NEW s \in Std, RedirectFails(s) PROVE AttemptsRemain'
    BY <1>2, FaultCounted DEF RedirectFails, streams
  <1>3. ASSUME NEW s \in Captured, BackendSpeaks(s) PROVE AttemptsRemain'
    BY <1>3 DEF BackendSpeaks, Speak, Deliver, LeasedText
  <1>4. ASSUME NEW s \in Captured, BareBackendSpeaks(s) PROVE AttemptsRemain'
    BY <1>4 DEF BareBackendSpeaks, Speak, Deliver
  <1>5. ASSUME NEW s \in Captured, HostSpeaks(s) PROVE AttemptsRemain'
    BY <1>5 DEF HostSpeaks, Speak, Deliver
  <1>6. CASE BeginLease BY <1>6 DEF BeginLease, FlushAtBegin, FlushAll, Deliver
  <1>7. CASE FinishLease BY <1>7 DEF FinishLease, FlushAtRestore, FlushAll, Deliver
  <1>8. CASE RestoreNext BY <1>8, RestorePicks DEF RestoreNext, streams
  <1>9. CASE RestoreFails
    BY <1>9, FaultCounted DEF RestoreFails, AfterRestoreFault, FlushAtRestore,
       FlushAll, Deliver, streams
  <1>10. CASE RestoreDone BY <1>10, NothingPending DEF RestoreDone, streams
  <1>11. CASE ReadCapture BY <1>11 DEF ReadCapture, streams, ReadText
  <1>12. CASE ReadFails BY <1>12, FaultCounted DEF ReadFails, streams
  <1>13. CASE DropGuard
    BY <1>13, DropPicks DEF DropGuard, Discard, ForgetFlag, RemoveFile, DropRestore,
       streams
  <1>14. CASE DropGuardFails
    <2>1. faults'.restore = faults.restore + 1 /\ faults'.redirect = faults.redirect
      BY <1>14, FaultCounted DEF DropGuardFails
    <2>2. pc \in {"unwind", "fields"} /\ ~(guards \subseteq restored)
      BY <1>14, DropPicks DEF DropGuardFails
    <2>3. MayBeLost'
      BY <2>1, <2>2
    <2>4. QED BY <1>14, <2>1, <2>2, <2>3 DEF DropGuardFails, Discard
  <1>15. CASE EndLease BY <1>15 DEF EndLease, streams
  <1>16. CASE UNCHANGED vars BY <1>16 DEF vars, streams
  <1>17. QED
    BY <1>1, <1>2, <1>3, <1>4, <1>5, <1>6, <1>7, <1>8, <1>9, <1>10, <1>11, <1>12,
       <1>13, <1>14, <1>15, <1>16 DEF Next

-----------------------------------------------------------------------------

\* The invariant holds initially.
LEMMA Initially == Init => IInv
  <1> SUFFICES ASSUME Init PROVE IInv
    OBVIOUS
  <1> USE LeaseBounds DEF Init
  <1>1. TypeOK
    BY DEF TypeOK, Std, Captured, Targets, TotalFaults
  <1>2. GuardsFollow /\ GuardsLead
    BY DEF GuardsFollow, GuardsLead, Std, Captured
  <1>3. TextIsOfThisLease /\ TextStaysOnItsSide /\ SaidIsKept
    BY DEF TextIsOfThisLease, TextStaysOnItsSide, SaidIsKept
  <1>4. FaultsShow /\ AttemptsRemain
    BY DEF FaultsShow, AttemptsRemain, Std, Captured
  <1>5. QED BY <1>1, <1>2, <1>3, <1>4 DEF IInv

\* The invariant holds throughout.
LEMMA Invariance == Spec => []IInv
  <1>1. IInv /\ [Next]_vars => IInv'
    BY TypeStep, GuardStep, LeadStep, TextStep, SideStep, SaidStep, ShowStep,
       AttemptStep DEF IInv
  <1>2. QED BY Initially, <1>1, PTL DEF Spec

\* Every variable of the lease keeps its type.
THEOREM LeaseTypes == Spec => []TypeOK
  <1>1. IInv => TypeOK BY DEF IInv
  <1>2. QED BY <1>1, Invariance, PTL

\* However many leases are taken, whoever prints between two system calls and
\* whichever of these fail: no text said under a lease reaches the caller's
\* streams, nothing the host printed outside a lease is taken for backend output,
\* and a record is filed under the lease it was said in.
THEOREM TextStays == Spec => []TextStaysOnItsSide
  <1>1. IInv => TextStaysOnItsSide BY DEF IInv
  <1>2. QED BY <1>1, Invariance, PTL

\* What the backend said in leases that are over is in the ledger, unless a
\* restore or a read-back failed; and an operation with a fault does not return Ok.
THEOREM LeasedTextIsKept == Spec => []LeasedTextReachesLedger
  <1>1. IInv => LeasedTextReachesLedger
    BY DEF IInv, TypeOK, SaidIsKept, Recorded, OnItsWay, FaultsShow,
           LeasedTextReachesLedger
  <1>2. QED BY <1>1, Invariance, PTL

\* After a lease the descriptors are the caller's again, unless three restores
\* failed, or one did after a redirection that failed; no capture file stays but
\* those behind whose creation a redirection failed.
THEOREM DescriptorsReturn == Spec => []DescriptorsComeBack
  <1>1. IInv => DescriptorsComeBack
    BY DEF IInv, TypeOK, GuardsFollow, GuardsLead, AttemptsRemain, MayBeLost,
           DescriptorsComeBack
  <1>2. QED BY <1>1, Invariance, PTL
=============================================================================
