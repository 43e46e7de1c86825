------------------------------ MODULE StdioLease ------------------------------
(***************************************************************************)
(* The standard-descriptor lease of the in-process backend: the struct     *)
(* NativeBackendStdioLease of native/src/lib.rs and its two guards,        *)
(* RedirectedFd (stdin) and CapturedFd (stdout, stderr), as the function   *)
(* with_backend_stdio_capture drives them around one backend call.         *)
(*                                                                         *)
(* The descriptors 0, 1 and 2 belong to the whole process, so every dup2   *)
(* is a step of its own and a host thread may write between any two of     *)
(* them.  dup, dup2, open and lseek may fail; a failure is bounded by      *)
(* MaxFaults.  The C library's stdout buffer is modelled, because which    *)
(* descriptor buffered text reaches depends on where the code flushes.     *)
(***************************************************************************)
EXTENDS Naturals, FiniteSets

CONSTANTS MaxLeases, \* bound: leases one behaviour takes
          MaxFaults, \* bound: failing system calls in one behaviour
          MaxSpeech  \* bound: things said in one behaviour

ASSUME LeaseBounds ==
  MaxLeases \in Nat \ {0} /\ MaxFaults \in Nat /\ MaxSpeech \in Nat

Captured == {"stdout", "stderr"}
Std == {"stdin"} \cup Captured

(***************************************************************************)
(* Text is tagged with who said it and with the lease it was said in:      *)
(* "leased" by the backend inside a lease, "bare" by the backend in a      *)
(* call made without a lease, "host" by another thread of the host.        *)
(***************************************************************************)
Speakers == {"leased", "bare", "host"}
Texts == [who : Speakers, lease : 0..MaxLeases]

\* Where a descriptor leads: the caller's own stream, /dev/null, the capture
\* file of the lease in progress, or the unlinked file of an earlier lease.
Targets == {"caller", "devnull", "capture", "orphan"}

VARIABLES
  pc,        \* the step of the lease protocol
  fd,        \* descriptor -> target
  saved,     \* descriptor -> target of the duplicate its guard holds
  guards,    \* the guards that have been constructed and not dropped
  restored,  \* the guards whose "restored" flag is set
  files,     \* the capture files still present in the temporary directory
  cbuf,      \* text in the C library's stdout buffer
  terminal,  \* stream -> text that reached the caller's stream
  capture,   \* stream -> text in the capture file of the lease in progress
  ledger,    \* the captured records handed to the runtime's ledger
  lease,     \* number of the current (or latest) lease
  said,      \* stream -> text the backend said under a lease
  result,    \* what with_backend_stdio_capture returned last
  faults,    \* failing calls by kind, and in the current lease ("now")
  spoken,    \* how many things have been said
  orphaned   \* capture paths left behind by CapturedFd::redirect

vars == <<pc, fd, saved, guards, restored, files, cbuf, terminal, capture,
          ledger, lease, said, result, faults, spoken, orphaned>>

streams == <<cbuf, terminal, capture, said, spoken>>

TotalFaults == faults.redirect + faults.restore + faults.read

Records == [stream : Captured, lease : 0..MaxLeases, text : Texts]

TypeOK ==
  /\ pc \in {"idle", "stdin", "stdout", "stderr", "unwind", "held",
             "restore", "lease_drop", "read", "fields"}
  /\ fd \in [Std -> Targets]
  /\ saved \in [Std -> Targets]
  /\ guards \subseteq Std
  /\ restored \subseteq guards
  /\ files \subseteq Captured
  /\ cbuf \subseteq Texts
  /\ terminal \in [Captured -> SUBSET Texts]
  /\ capture \in [Captured -> SUBSET Texts]
  /\ said \in [Captured -> SUBSET Texts]
  /\ ledger \subseteq Records
  /\ lease \in 0..MaxLeases
  /\ result \in {"none", "ok", "begin_err", "finish_err"}
  /\ faults \in [redirect : Nat, restore : Nat, read : Nat, now : Nat]
  /\ TotalFaults <= MaxFaults
  /\ spoken \in 0..MaxSpeech
  /\ orphaned \in 0..MaxFaults

Init ==
  /\ pc = "idle"
  /\ fd = [s \in Std |-> "caller"]
  /\ saved = [s \in Std |-> "caller"]
  /\ guards = {} /\ restored = {} /\ files = {}
  /\ cbuf = {}
  /\ terminal = [s \in Captured |-> {}]
  /\ capture = [s \in Captured |-> {}]
  /\ said = [s \in Captured |-> {}]
  /\ ledger = {}
  /\ lease = 0
  /\ result = "none"
  /\ faults = [redirect |-> 0, restore |-> 0, read |-> 0, now |-> 0]
  /\ spoken = 0
  /\ orphaned = 0

-----------------------------------------------------------------------------
(* Writing.  A write lands wherever the descriptor leads at that moment.   *)

Deliver(s, texts) ==
  /\ terminal' = [terminal EXCEPT ![s] = IF fd[s] = "caller" THEN @ \cup texts ELSE @]
  /\ capture' = [capture EXCEPT ![s] = IF fd[s] = "capture" THEN @ \cup texts ELSE @]

\* libc::fflush(NULL): the buffered text goes to descriptor 1, as it is now.
FlushAll == cbuf' = {} /\ Deliver("stdout", cbuf)

\* One backend write to stream s: straight to the descriptor, or (stdout) into
\* the C library's buffer.
Speak(text, s) ==
  /\ spoken < MaxSpeech
  /\ spoken' = spoken + 1
  /\ \/ Deliver(s, {text}) /\ UNCHANGED cbuf
     \/ s = "stdout" /\ cbuf' = cbuf \cup {text} /\ UNCHANGED <<terminal, capture>>

Failing(kind) ==
  /\ TotalFaults < MaxFaults
  /\ faults' = [faults EXCEPT ![kind] = @ + 1, !.now = @ + 1]

-----------------------------------------------------------------------------
(* NativeBackendStdioLease::begin: flush, then the three guards in order.  *)

\* Mutant: a flush is left out.
NoFlush == UNCHANGED <<cbuf, terminal, capture>>
FlushAtBegin == FlushAll

BeginLease ==
  /\ pc = "idle" /\ lease < MaxLeases
  /\ lease' = lease + 1
  /\ faults' = [faults EXCEPT !.now = 0]
  /\ FlushAtBegin
  /\ pc' = "stdin"
  /\ UNCHANGED <<fd, saved, guards, restored, files, ledger, said, result, spoken,
                 orphaned>>

AfterRedirect(s) == CASE s = "stdin" -> "stdout"
                      [] s = "stdout" -> "stderr"
                      [] s = "stderr" -> "held"

\* create_capture_file opens with create_new, so a capture file starts empty.
NewCaptureFile(s) == IF s \in Captured THEN [capture EXCEPT ![s] = {}] ELSE capture

\* dup and dup2 succeed: the guard exists and the descriptor is redirected.
Redirect(s) ==
  /\ pc = s
  /\ saved' = [saved EXCEPT ![s] = fd[s]]
  /\ fd' = [fd EXCEPT ![s] = IF s = "stdin" THEN "devnull" ELSE "capture"]
  /\ guards' = guards \cup {s}
  /\ files' = files \cup ({s} \cap Captured)
  /\ capture' = NewCaptureFile(s)
  /\ pc' = AfterRedirect(s)
  /\ UNCHANGED <<restored, cbuf, terminal, ledger, lease, said, spoken, result, faults,
                 orphaned>>

\* The redirection fails: no guard is built, the guards built so far unwind.
\* A capture file that was already created stays on disk, since only
\* CapturedFd's Drop removes it.
RedirectFails(s) ==
  /\ pc = s
  /\ Failing("redirect")
  /\ \/ UNCHANGED orphaned                        \* open or create failed
     \/ s \in Captured /\ orphaned' = orphaned + 1 \* dup or dup2 failed
  /\ pc' = "unwind"
  /\ result' = "begin_err"
  /\ UNCHANGED <<fd, saved, guards, restored, files, streams, ledger, lease>>

-----------------------------------------------------------------------------
(* The leased backend call.                                                *)

LeasedText == [who |-> "leased", lease |-> lease]

BackendSpeaks(s) ==
  /\ pc = "held"
  /\ Speak(LeasedText, s)
  /\ said' = [said EXCEPT ![s] = @ \cup {LeasedText}]
  /\ UNCHANGED <<pc, fd, saved, guards, restored, files, ledger, lease, result,
                 faults, orphaned>>

\* A backend call the code makes without a lease: the startup-packet path and
\* the ReadyForQuery and flush calls that follow the leased loop.
BareBackendSpeaks(s) ==
  /\ pc = "idle" /\ lease > 0
  /\ Speak([who |-> "bare", lease |-> lease], s)
  /\ UNCHANGED <<pc, fd, saved, guards, restored, files, ledger, lease, said,
                 result, faults, orphaned>>

\* Another thread of the host prints, at any moment.  Text said while no lease
\* is in progress is numbered 0.
HostSpeaks(s) ==
  /\ Speak([who |-> "host", lease |-> IF pc = "idle" THEN 0 ELSE lease], s)
  /\ UNCHANGED <<pc, fd, saved, guards, restored, files, ledger, lease, said,
                 result, faults, orphaned>>

-----------------------------------------------------------------------------
(* Restoring: finish calls restore; its error drops the lease, whose Drop  *)
(* calls restore again; then the guards drop, each restoring once more.    *)

Order == <<"stderr", "stdout", "stdin">>
Pending == {i \in 1..3 : Order[i] \in guards \ restored}
NextToRestore == Order[CHOOSE i \in Pending : \A j \in Pending : i <= j]

FlushAtRestore == FlushAll

\* The call returns and lease.finish() enters restore(), which flushes first.
FinishLease ==
  /\ pc = "held"
  /\ FlushAtRestore
  /\ pc' = "restore"
  /\ UNCHANGED <<fd, saved, guards, restored, files, ledger, lease, said, spoken,
                 result, faults, orphaned>>

\* dup2(saved, fd) for the next guard of restore().
RestoreNext ==
  /\ pc \in {"restore", "lease_drop"} /\ Pending # {}
  /\ LET s == NextToRestore IN
       /\ fd' = [fd EXCEPT ![s] = saved[s]]
       /\ restored' = restored \cup {s}
  /\ UNCHANGED <<pc, saved, guards, files, streams, ledger, lease, result, faults,
                 orphaned>>

\* Mutant: finish ignores the error of restore and reads the files back.
IgnoreRestoreError == IF pc = "restore" THEN "read" ELSE "fields"
AfterRestoreFault == IF pc = "restore" THEN "lease_drop" ELSE "fields"

\* dup2 fails: restore() returns at once.  From finish the lease is dropped,
\* and its Drop flushes and tries again; from Drop the guards' Drops follow.
RestoreFails ==
  /\ pc \in {"restore", "lease_drop"} /\ Pending # {}
  /\ Failing("restore")
  /\ result' = "finish_err"
  /\ pc' = AfterRestoreFault
  /\ IF pc = "restore" THEN FlushAtRestore /\ UNCHANGED <<said, spoken>>
                       ELSE UNCHANGED streams
  /\ UNCHANGED <<fd, saved, guards, restored, files, ledger, lease, orphaned>>

\* restore() reached its end.
RestoreDone ==
  /\ pc \in {"restore", "lease_drop"} /\ Pending = {}
  /\ pc' = IF pc = "restore" THEN "read" ELSE "fields"
  /\ UNCHANGED <<fd, saved, guards, restored, files, streams, ledger, lease, result,
                 faults, orphaned>>

\* Mutant: finish reads only the stdout file back.
ReadStdoutOnly(s) == IF s = "stdout" THEN capture[s] ELSE {}
ReadText(s) == capture[s]

\* finish() reads both files back; with_backend_stdio_capture extends the ledger.
ReadCapture ==
  /\ pc = "read"
  /\ ledger' = ledger \cup UNION {{[stream |-> s, lease |-> lease, text |-> t] :
                                     t \in ReadText(s)} : s \in Captured}
  /\ result' = "ok"
  /\ pc' = "fields"
  /\ UNCHANGED <<fd, saved, guards, restored, files, streams, lease, faults, orphaned>>

\* A seek or a read fails: the records of both streams are lost with the error.
ReadFails ==
  /\ pc = "read"
  /\ Failing("read")
  /\ result' = "finish_err"
  /\ pc' = "fields"
  /\ UNCHANGED <<fd, saved, guards, restored, files, streams, ledger, lease, orphaned>>

-----------------------------------------------------------------------------
(* Dropping the guards: in field order after a lease, in reverse order of  *)
(* construction when begin fails.                                          *)

DropOrder == IF pc = "fields" THEN <<"stdin", "stdout", "stderr">> ELSE Order
Live == {i \in 1..3 : DropOrder[i] \in guards}
NextToDrop == DropOrder[CHOOSE i \in Live : \A j \in Live : i <= j]

RemoveFile(s) == files \ {s}

\* Mutant: the flag outlives its guard.
KeepFlag(s) == restored
ForgetFlag(s) == restored \ {s}

\* The guard goes away with its capture file.  A descriptor that still leads
\* to that file leads from now on to an unlinked one.
Discard(s, fds) ==
  /\ guards' = guards \ {s}
  /\ restored' = ForgetFlag(s)
  /\ files' = RemoveFile(s)
  /\ fd' = [fds EXCEPT ![s] = IF @ = "capture" THEN "orphan" ELSE @]
  /\ UNCHANGED <<pc, saved, streams, ledger, lease, result, orphaned>>

\* Mutant: the guards have no Drop of their own.
NoDrop(s) == fd
DropRestore(s) == IF s \in restored THEN fd ELSE [fd EXCEPT ![s] = saved[s]]

DropGuard ==
  /\ pc \in {"unwind", "fields"} /\ guards # {}
  /\ Discard(NextToDrop, DropRestore(NextToDrop))
  /\ UNCHANGED faults

\* The guard's own last attempt to restore fails; Drop ignores the error.
DropGuardFails ==
  /\ pc \in {"unwind", "fields"} /\ guards # {}
  /\ NextToDrop \notin restored
  /\ Failing("restore")
  /\ Discard(NextToDrop, fd)

EndLease ==
  /\ pc \in {"unwind", "fields"} /\ guards = {}
  /\ pc' = "idle"
  /\ UNCHANGED <<fd, saved, guards, restored, files, streams, ledger, lease, result,
                 faults, orphaned>>

-----------------------------------------------------------------------------

Next ==
  \/ BeginLease
  \/ \E s \in Std : Redirect(s) \/ RedirectFails(s)
  \/ \E s \in Captured : BackendSpeaks(s) \/ BareBackendSpeaks(s) \/ HostSpeaks(s)
  \/ FinishLease \/ RestoreNext \/ RestoreFails \/ RestoreDone
  \/ ReadCapture \/ ReadFails
  \/ DropGuard \/ DropGuardFails \/ EndLease

Spec == Init /\ [][Next]_vars

-----------------------------------------------------------------------------
(* Properties.                                                             *)

\* Buffered text never crosses the boundary of a lease, whatever fails.  What the
\* backend says under a lease reaches no stream of the caller, also when it is
\* still in the C library's buffer as the call returns; what the host printed
\* while no lease was in progress is never taken for backend output, also when it
\* is buffered as the lease begins; and a record is filed under the call that said
\* it, never under a later one (native/src/lib.rs:408-410, 444-446).
TextStaysOnItsSide ==
  /\ \A s \in Captured : \A t \in terminal[s] : t.who # "leased"
  /\ \A r \in ledger : /\ r.text.who = "host" => r.text.lease # 0
                       /\ r.text.who = "leased" => r.text.lease = r.lease

\* If no read-back and no restore ever failed, everything the backend said in
\* leases that ended is in the ledger, under the stream it was said on.  And none
\* is lost in silence: after a fault in a redirection, a restore or a read-back the
\* operation does not return Ok (native/src/lib.rs:281-305, 420-470).
LeasedTextReachesLedger ==
  pc = "idle" =>
    /\ faults.read = 0 /\ faults.restore = 0 =>
         \A s \in Captured : \A t \in said[s] :
           [stream |-> s, lease |-> t.lease, text |-> t] \in ledger
    /\ result = "ok" => faults.now = 0

\* The caller gets its descriptors back and no capture file stays.  With every
\* redirection successful it takes three failing restores to strand a descriptor,
\* because finish, the lease's Drop and the guard's Drop each try; while begin
\* unwinds there is one try.  A capture file stays only where CapturedFd::redirect
\* fails behind its creation.
DescriptorsComeBack ==
  pc = "idle" =>
    /\ files = {} /\ orphaned <= faults.redirect
    /\ \/ \A s \in Std : fd[s] = "caller"
       \/ faults.restore >= 3
       \/ faults.redirect >= 1 /\ faults.restore >= 1

\* No backend output at all on the caller's streams (ADR-0014, Hard Rules).
NoBackendTextOnTerminal ==
  \A s \in Captured : \A t \in terminal[s] : t.who = "host"
=============================================================================
