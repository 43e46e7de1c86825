----------------------------- MODULE ProtocolStream -----------------------------
(***************************************************************************)
(* PgliteProtocolStream and the session drain (src/postgres_client.rs)     *)
(* between a tokio-postgres client and a PgliteRuntime.                    *)
(*                                                                         *)
(* The stream has no waker of its own: poll_read with nothing to read      *)
(* returns Pending and forgets its context, and poll_flush wakes the task  *)
(* once it has put a response into the read buffer.  The connection of     *)
(* tokio-postgres that polls the stream is external: a poll reads first,   *)
(* then writes what clients have queued, flushes, and parks.               *)
(*                                                                         *)
(* Requests and their responses are numbers, and so are the records of     *)
(* backend output, each in the order in which they came about.             *)
(***************************************************************************)
EXTENDS Naturals, Sequences

CONSTANTS MaxRequests, \* bound: requests, the startup handshake included
          MaxRecords   \* bound: records of backend output

ASSUME StreamAssumption == MaxRequests \in Nat \ {0} /\ MaxRecords \in Nat

VARIABLES
  stage,       \* of the session: start, connecting, driving, ended
  asked, got,  \* requests sent, and requests the client has a response to
  queue,       \* requests on their way to the connection
  closed,      \* the client is gone
  poll,        \* what the connection's task is doing
  woken,       \* the task has been woken
  terminated,  \* the connection has sent Terminate
  writeBuffer, readBuffer, shutdown, \* PgliteProtocolStream
  runtime,     \* the runtime inside: open, shut, or dropped
  rtLedger,    \* the runtime's backend output
  session,     \* the ledger of the session drain
  taken,       \* what the host has taken from the drain
  held,        \* the host holds the drain, or connect still does
  emitted,     \* records that PostgreSQL has produced
  shutFailed   \* a shutdown of the runtime has failed

client == <<asked, got, queue, closed>>
task == <<poll, woken, terminated>>
buffers == <<writeBuffer, readBuffer>>
ledgers == <<rtLedger, session, emitted>>
vars == <<stage, client, task, buffers, shutdown, runtime, ledgers, taken, held, shutFailed>>

Stages == {"start", "connecting", "driving", "ended"}
Polls == {"parked", "reading", "writing", "flushing", "closing", "ending"}

TypeOK ==
  /\ stage \in Stages /\ poll \in Polls
  /\ asked \in Seq(Nat) /\ got \in Seq(Nat) /\ queue \in Seq(Nat)
  /\ writeBuffer \in Seq(Nat) /\ readBuffer \in Seq(Nat)
  /\ Len(got) + Len(readBuffer) <= Len(asked)
  /\ rtLedger \in Seq(Nat) /\ session \in Seq(Nat) /\ taken \in Seq(Nat)
  /\ runtime \in {"open", "shut", "dropped"} /\ emitted \in Nat
  /\ {closed, woken, terminated, shutdown, held, shutFailed} \subseteq BOOLEAN

\* connect is called with a runtime that has started and may have said something.
Init ==
  /\ stage = "start" /\ poll = "parked"
  /\ asked = <<>> /\ got = <<>> /\ queue = <<>>
  /\ closed = FALSE /\ woken = FALSE /\ terminated = FALSE
  /\ writeBuffer = <<>> /\ readBuffer = <<>> /\ shutdown = FALSE
  /\ runtime = "open" /\ rtLedger \in {<<>>, <<1>>} /\ emitted = Len(rtLedger)
  /\ session = <<>> /\ taken = <<>> /\ held = TRUE /\ shutFailed = FALSE

-----------------------------------------------------------------------------
(* The runtime's output and where it goes                                  *)

\* A call of the runtime leaves its ledger with a record more, or as it was.
Said == {rtLedger} \cup
        (IF emitted < MaxRecords THEN {Append(rtLedger, emitted + 1)} ELSE {})
Count(said) == emitted' = emitted + Len(said) - Len(rtLedger)

\* take_backend_output of the runtime, and extend of the drain's writer.
Drain(said) == rtLedger' = <<>> /\ session' = session \o said
KeepOutput(said) == rtLedger' = said /\ session' = session

\* Mutant: only a response that is Ok is followed by a drain.
NoDrainOnError(said) == KeepOutput(said)
DrainOnError(said) == Drain(said)

\* PgliteProtocolStream::new drains the startup output; connect sends the first
\* request, the startup handshake, itself.
NewStream ==
  /\ stage = "start"
  /\ stage' = "connecting"
  /\ Drain(rtLedger) /\ UNCHANGED emitted
  /\ asked' = <<1>> /\ queue' = <<1>>
  /\ woken' = TRUE
  /\ UNCHANGED <<got, closed, poll, terminated, buffers, shutdown, runtime, taken,
                 held, shutFailed>>

-----------------------------------------------------------------------------
(* The client                                                              *)

Send ==
  /\ stage = "driving" /\ ~closed /\ Len(asked) < MaxRequests
  /\ LET r == Len(asked) + 1 IN asked' = Append(asked, r) /\ queue' = Append(queue, r)
  /\ woken' = TRUE
  /\ UNCHANGED <<stage, got, closed, poll, terminated, buffers, shutdown, runtime,
                 ledgers, taken, held, shutFailed>>

CloseClient ==
  /\ stage = "driving" /\ ~closed
  /\ closed' = TRUE /\ woken' = TRUE
  /\ UNCHANGED <<stage, asked, got, queue, poll, terminated, buffers, shutdown, runtime,
                 ledgers, taken, held, shutFailed>>

\* PgliteSessionBackendOutputDrain::take_backend_output: the records move out.
\* Mutant: the ledger is cloned.
CloneLedger == session
TakeLedger == <<>>
TakeBackendOutput ==
  /\ stage \in {"driving", "ended"} /\ held /\ session # <<>>
  /\ taken' = taken \o session
  /\ session' = TakeLedger
  /\ UNCHANGED <<stage, client, task, buffers, shutdown, runtime, rtLedger, emitted,
                 held, shutFailed>>

-----------------------------------------------------------------------------
(* The connection polls the stream                                         *)

Live == stage \in {"connecting", "driving"}

PollStart ==
  /\ Live /\ poll = "parked" /\ woken
  /\ woken' = FALSE /\ poll' = "reading"
  /\ UNCHANGED <<stage, client, terminated, buffers, shutdown, runtime, ledgers, taken,
                 held, shutFailed>>

\* poll_read with something to read: as much as the caller's buffer takes.  The
\* connection reads on, or turns to writing with a message it has for its caller,
\* who polls again.  connect returns when the handshake is answered.
PollRead ==
  /\ poll = "reading"
  /\ \E n \in 1 .. Len(readBuffer) :
       /\ got' = got \o SubSeq(readBuffer, 1, n)
       /\ readBuffer' = SubSeq(readBuffer, n + 1, Len(readBuffer))
  /\ \/ poll' = "reading" /\ UNCHANGED woken
     \/ poll' = "writing" /\ woken' = TRUE
  /\ stage' = "driving"
  /\ UNCHANGED <<asked, queue, closed, terminated, writeBuffer, shutdown, runtime, ledgers,
                 taken, held, shutFailed>>

\* poll_read is Pending, and remembers nobody to wake.
PollReadPending ==
  /\ poll = "reading" /\ readBuffer = <<>>
  /\ poll' = "writing"
  /\ UNCHANGED <<stage, client, woken, terminated, buffers, shutdown, runtime, ledgers,
                 taken, held, shutFailed>>

\* poll_write takes all it is given; with nothing to write the task parks.  When
\* the client is gone and every response is there, Terminate is written.
PollWrite ==
  /\ poll = "writing"
  /\ IF queue # <<>>
       THEN /\ writeBuffer' = writeBuffer \o queue /\ queue' = <<>>
            /\ poll' = "flushing" /\ UNCHANGED terminated
       ELSE /\ UNCHANGED <<writeBuffer, queue>>
            /\ terminated' = (closed /\ got = asked)
            /\ poll' = IF closed /\ got = asked THEN "flushing" ELSE "parked"
  /\ UNCHANGED <<stage, asked, got, closed, woken, readBuffer, shutdown, runtime, ledgers,
                 taken, held, shutFailed>>

\* Mutant: nobody is woken for the response.
NoWake == woken
Wake == TRUE
\* Mutant: the response takes the place of what has not been read yet.
ReplaceRead(response) == response
ExtendRead(response) == readBuffer \o response

\* Mutant: the write buffer is cloned, not taken.
CloneWrite == writeBuffer
TakeWrite == <<>>

\* poll_flush: the write buffer is one request to the runtime; what it answers
\* can be read, what it said is in the drain, and the task is woken.  Terminate
\* is a request with an empty response.
FlushAnswered ==
  /\ poll = "flushing"
  /\ poll' = IF terminated THEN "closing" ELSE "parked"
  /\ writeBuffer' = TakeWrite
  /\ readBuffer' = ExtendRead(writeBuffer)
  /\ \E said \in Said : Drain(said) /\ Count(said)
  /\ woken' = Wake
  /\ UNCHANGED <<stage, client, terminated, shutdown, runtime, taken, held, shutFailed>>

\* Mutant: poll_flush is Ready(Ok) after an error.
SwallowError == "parked"
AfterError == "ending"

\* exec_protocol_raw failed: the request is lost, the output is not, and the
\* connection ends with the error.
FlushFails ==
  /\ poll = "flushing"
  /\ poll' = AfterError
  /\ writeBuffer' = TakeWrite
  /\ \E said \in Said : DrainOnError(said) /\ Count(said)
  /\ UNCHANGED <<stage, client, woken, terminated, readBuffer, shutdown, runtime, taken,
                 held, shutFailed>>

\* The runtime's shutdown, which may fail, but not once it has succeeded.
RuntimeShutdown ==
  \/ runtime' = "shut" /\ UNCHANGED shutFailed
  \/ runtime # "shut" /\ shutFailed' = TRUE /\ UNCHANGED runtime

\* poll_shutdown: the flag first, then the runtime, then the drain.
PollShutdown ==
  /\ poll = "closing"
  /\ poll' = "ending"
  /\ shutdown' = TRUE
  /\ RuntimeShutdown
  /\ \E said \in Said : DrainOnError(said) /\ Count(said)
  /\ UNCHANGED <<stage, client, woken, terminated, buffers, taken, held>>

-----------------------------------------------------------------------------
(* The end of the stream                                                   *)

\* Mutant: Drop leaves the shutdown to the runtime's own Drop.
NoShutdownOnDrop == FALSE
ShutdownOnDrop == ~shutdown

\* The stream is dropped: it shuts the runtime down and drains it unless its own
\* flag is set.
DropStream ==
  /\ poll = "ending" /\ runtime \in {"open", "shut"} /\ ~(stage = "ended")
  /\ stage' = "ended"
  /\ IF ShutdownOnDrop
       THEN /\ RuntimeShutdown
            /\ \E said \in Said : Drain(said) /\ Count(said)
            /\ shutdown' = TRUE
       ELSE UNCHANGED <<runtime, shutFailed, ledgers, shutdown>>
  /\ held' = (held /\ stage = "driving") \* connect's error drops the drain
  /\ UNCHANGED <<client, task, buffers, taken>>

\* Then the runtime it holds is dropped, which shuts down what is not shut down.
DropRuntime ==
  /\ stage = "ended" /\ runtime # "dropped"
  /\ runtime' = "dropped"
  /\ IF runtime = "shut"
       THEN UNCHANGED ledgers
       ELSE \E said \in Said : rtLedger' = said /\ Count(said) /\ UNCHANGED session
  /\ UNCHANGED <<stage, client, task, buffers, shutdown, taken, held, shutFailed>>

\* The host drops the connection between two polls; or it fails to spawn a driver
\* for it, and connect_with_driver's error drops the drain.
Abort ==
  /\ Live /\ poll = "parked"
  /\ poll' = "ending"
  /\ held' \in {held, held /\ got # <<1>>}
  /\ UNCHANGED <<stage, client, woken, terminated, buffers, shutdown, runtime, ledgers,
                 taken, shutFailed>>

Poll == PollStart \/ PollRead \/ PollReadPending \/ PollWrite \/ FlushAnswered
        \/ FlushFails \/ PollShutdown \/ DropStream \/ DropRuntime

Next == NewStream \/ Send \/ CloseClient \/ TakeBackendOutput \/ Poll \/ Abort

\* The executor polls a task that has been woken; clients do as they please.
Spec == Init /\ [][Next]_vars
FairSpec == Spec /\ WF_vars(Poll)

-----------------------------------------------------------------------------
(* Properties.                                                             *)

Records(n) == [i \in 1 .. n |-> i]

\* Whatever the backend has said is with the host or in its drain, once and in
\* order, after every call of the stream, whether the call succeeded or not, and
\* still after the session has ended; unless a shutdown of the runtime failed.
\* What lies in the drain when connect's error drops it (~held) stays there and is
\* delivered to nobody: the code promises the host no more than its drain.
OutputReachesTheSession ==
  stage # "start" /\ ~shutFailed => taken \o session = Records(emitted)

\* Responses come in the order of the requests, and none is lost or repeated.
ResponsesInOrder == got \o readBuffer = Records(Len(got) + Len(readBuffer))

\* A request sent over a connection that goes on is answered: the response does
\* not lie in the read buffer until something else happens.  And when the client
\* has gone, the runtime is shut down and dropped.
NothingWaitsForEver ==
  /\ \A r \in 1 .. MaxRequests : Len(asked) >= r ~> Len(got) >= r \/ stage = "ended"
  /\ closed ~> runtime = "dropped"

\* The stream drains the runtime after startup, every flush, shutdown and
\* drop-shutdown (ADR-0015, hard rules), so no record is ever left behind in the
\* runtime when that is dropped.
DrainedAfterDrop == runtime = "dropped" => rtLedger = <<>>
=============================================================================
