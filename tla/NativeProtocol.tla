----------------------------- MODULE NativeProtocol -----------------------------
(***************************************************************************)
(* The byte path of exec_protocol_raw (native/src/lib.rs): the request is  *)
(* put into the transport, PostgreSQL is called round by round until it    *)
(* has read everything, and what it wrote is taken as the response.        *)
(*                                                                         *)
(* Between the transport's two buffers lie PostgreSQL's own, which survive *)
(* the call: its receive buffer takes input in pieces of any size, and its *)
(* send buffer is written out when it is full or flushed.  PostgreSQL      *)
(* itself is external: a round reads one message and answers it.           *)
(*                                                                         *)
(* Bytes are abstracted to messages, answers to a mark that names the      *)
(* message, so that a lost, repeated or misplaced answer shows.            *)
(***************************************************************************)
EXTENDS Naturals, Sequences

CONSTANTS MaxMessages, \* bound: messages sent in the life of the runtime
          MaxBatch     \* bound: messages in one request

ASSUME ProtocolAssumption == MaxMessages \in Nat /\ MaxBatch \in Nat \ {0}

VARIABLES
  pc,         \* where exec_protocol_raw stands
  input,      \* NativeTransport.input
  readOffset, \* NativeTransport.read_offset
  output,     \* NativeTransport.output
  recv,       \* PostgreSQL's receive buffer
  send,       \* PostgreSQL's send buffer
  skip,       \* PostgreSQL discards messages until the next Sync
  ready,      \* PostgreSQL owes a ReadyForQuery
  alive,      \* PostgreSQL can serve messages
  messages,      \* every message sent so far
  answered,   \* everything returned so far
  clean       \* no call has failed or ended the session

callVars == <<pc, input, readOffset, output, recv, send, skip, ready, alive, messages,
          answered, clean>>
transport == <<input, readOffset, output>>
postgres == <<recv, send, skip, ready, alive>>
history == <<messages, answered, clean>>

(***************************************************************************)
(* startup: a startup packet; query, badQuery: a simple query that         *)
(* succeeds or ends in an error; parse, badParse: a message of the         *)
(* extended protocol, likewise; sync: Sync; terminate: 'X', which is also  *)
(* how PostgreSQL sees a request that stops in the middle of a message.    *)
(***************************************************************************)
Kinds == {"query", "badQuery", "parse", "badParse", "sync", "terminate"}
Ids == 1 .. MaxMessages
Messages == [kind : Kinds \cup {"startup"}, id : Ids]

Ok(m) == [mark |-> "ok", id |-> m.id]
Bad(m) == [mark |-> "error", id |-> m.id]
Ready == [mark |-> "ready", id |-> 0]
Answers == [mark : {"ok", "error"}, id : Ids] \cup {Ready}

Points == {"idle", "startup", "sendConnData", "loop", "longjmp", "leave", "sendReady",
           "flush", "return", "fail"}

CallTypeOK ==
  /\ pc \in Points
  /\ input \in Seq(Messages) /\ recv \in Seq(Messages) /\ messages \in Seq(Messages)
  /\ output \in Seq(Answers) /\ send \in Seq(Answers) /\ answered \in Seq(Answers)
  /\ readOffset \in 0 .. Len(input)
  /\ skip \in BOOLEAN /\ ready \in BOOLEAN /\ alive \in BOOLEAN /\ clean \in BOOLEAN

CallInit ==
  /\ pc = "idle"
  /\ input = <<>> /\ readOffset = 0 /\ output = <<>>
  /\ recv = <<>> /\ send = <<>>
  /\ skip = FALSE /\ ready = FALSE /\ alive = TRUE
  /\ messages = <<>> /\ answered = <<>> /\ clean = TRUE

-----------------------------------------------------------------------------
(* The transport                                                           *)

\* NativeTransport::begin; the response of the call before is not kept.
BeginTransport(request) ==
  /\ input' = request /\ output' = <<>>
  /\ readOffset' = 0

\* native_read: PostgreSQL asks for a piece, and gets what is there of it.
Available == Len(input) - readOffset
Piece(n) == SubSeq(input, readOffset + 1, readOffset + n)

\* How many messages PostgreSQL may get for its next round: it asks only when its
\* receive buffer is empty.
Receivable == IF recv = <<>> /\ Available > 0 THEN 1 .. Available ELSE {0}
Received(n) == IF n = 0 THEN recv ELSE Piece(n)

\* native_write: PostgreSQL writes out its send buffer, now or later.
Answer(new) ==
  \/ send' = send \o new /\ UNCHANGED output
  \/ send' = <<>> /\ output' = output \o send \o new

\* A trapped call of PostgreSQL (check_status): it returns; or PostgreSQL leaves it
\* through exit with a status, and the backend may be gone; or through exit(0),
\* which the trap does not tell from a return.
Trapped(next) ==
  \/ pc' = next /\ UNCHANGED <<alive, clean>>
  \/ pc' = "fail" /\ alive' \in {alive, FALSE} /\ UNCHANGED clean
  \/ pc' = next /\ alive' = FALSE /\ clean' = FALSE

-----------------------------------------------------------------------------
(* The call                                                                *)

Batches == (UNION {[1 .. n -> Kinds] : n \in 1 .. MaxBatch}) \cup {<<"startup">>}
Numbered(kinds) == [i \in DOMAIN kinds |-> [kind |-> kinds[i], id |-> Len(messages) + i]]

\* A request that begins with 'X' returns an empty response at once.
\* A startup packet goes its own way, without the stdio lease.
\* Otherwise the lease is taken; if it cannot be, the transport is set all the same.
Begin ==
  /\ pc = "idle"
  /\ \E kinds \in Batches :
       /\ Len(messages) + Len(kinds) <= MaxMessages
       /\ kinds[1] # "terminate"
       /\ kinds[1] = "startup" => messages = <<>>
       /\ messages' = messages \o Numbered(kinds)
       /\ BeginTransport(Numbered(kinds))
       /\ IF kinds[1] = "startup"
            THEN pc' = "startup"
            ELSE pc' \in {"loop", "fail"}
  /\ UNCHANGED <<postgres, answered, clean>>

\* ProcessStartupPacket reads the packet out of the receive buffer; the packet is
\* refused, or the server's parameters are sent next.
StartupPacket ==
  /\ pc = "startup"
  /\ \E n \in Receivable : recv' = Tail(Received(n)) /\ readOffset' = readOffset + n
  /\ Trapped("sendConnData")
  /\ UNCHANGED <<input, output, send, skip, ready, messages, answered>>

SendConnData ==
  /\ pc = "sendConnData"
  /\ Answer(<<Ok(input[1])>>)
  /\ Trapped("flush")
  /\ UNCHANGED <<input, readOffset, recv, skip, ready, messages, answered>>

-----------------------------------------------------------------------------
(* The loop of PostgresMainLoopOnce                                        *)

\* Mutant: the loop ends when the transport has been read, whatever PostgreSQL
\* still holds in its receive buffer.
OnlyTransport == readOffset < Len(input)
MoreToDo == readOffset < Len(input) \/ recv # <<>>

\* What PostgreSQL sends for message m, and how it leaves the round.
Owed == IF ready THEN <<Ready>> ELSE <<>>
Skipped(m) == skip /\ m.kind \notin {"sync", "terminate"}

Serve(m) ==
  \/ /\ Skipped(m)
     /\ Answer(Owed) /\ ready' = FALSE
     /\ pc' = "loop" /\ UNCHANGED <<skip, alive, clean>>
  \/ /\ ~Skipped(m) /\ m.kind \in {"query", "parse"}
     /\ Answer(Append(Owed, Ok(m))) /\ ready' = (m.kind = "query")
     /\ pc' = "loop" /\ UNCHANGED <<skip, alive, clean>>
  \/ /\ m.kind = "sync"
     /\ Answer(Owed) /\ ready' = TRUE /\ skip' = FALSE
     /\ pc' = "loop" /\ UNCHANGED <<alive, clean>>
  \/ /\ ~Skipped(m) /\ m.kind \in {"badQuery", "badParse"} \* exit(100)
     /\ Answer(Append(Owed, Bad(m))) /\ ready' = FALSE
     /\ skip' = (m.kind = "badParse")
     /\ pc' = "longjmp" /\ UNCHANGED <<alive, clean>>
  \/ /\ m.kind = "terminate" \* exit(99)
     /\ Answer(Owed) /\ ready' = FALSE
     /\ pc' = "leave" /\ clean' = FALSE /\ UNCHANGED <<skip, alive>>
  \/ /\ m.kind # "terminate" \* exit with another status; 0 is not told from a return
     /\ pc' \in {"fail", "loop"} /\ alive' = FALSE /\ clean' = FALSE
     /\ UNCHANGED <<output, send, skip, ready>>

LoopOnce ==
  /\ pc = "loop" /\ MoreToDo /\ alive
  /\ \E n \in Receivable :
       /\ recv' = Tail(Received(n)) /\ readOffset' = readOffset + n
       /\ Serve(Head(Received(n)))
  /\ UNCHANGED <<input, messages, answered>>

\* A backend that has left is called all the same, reads nothing, and leaves again
\* with any status; with 0 the loop goes round with the same input.
LoopOnDeadBackend ==
  /\ pc = "loop" /\ MoreToDo /\ ~alive
  /\ pc' \in {"loop", "longjmp", "leave", "fail"}
  /\ clean' = FALSE
  /\ UNCHANGED <<transport, postgres, messages, answered>>

LoopEnds ==
  /\ pc = "loop" /\ ~MoreToDo
  /\ pc' = "leave"
  /\ UNCHANGED <<transport, postgres, history>>

\* PostgresMainLongJmp recovers from the error, or fails.
LongJmp ==
  /\ pc = "longjmp"
  /\ Trapped("loop")
  /\ ready' = ~skip
  /\ UNCHANGED <<transport, recv, send, skip, messages, answered>>

-----------------------------------------------------------------------------
(* After the loop                                                          *)

\* The lease is given back, or cannot be.
Leave ==
  /\ pc = "leave"
  /\ pc' \in {"sendReady", "fail"}
  /\ UNCHANGED <<transport, postgres, history>>

\* PostgresSendReadyForQueryIfNecessary.
SendReady ==
  /\ pc = "sendReady"
  /\ Answer(Owed) /\ ready' = FALSE
  /\ Trapped("flush")
  /\ UNCHANGED <<input, readOffset, recv, skip, messages, answered>>

\* pgl_pq_flush.
WriteOut == send' = <<>> /\ output' = output \o send
Flush ==
  /\ pc = "flush"
  /\ Trapped("return")
  /\ WriteOut \/ (pc' = "fail" /\ UNCHANGED <<send, output>>)
  /\ UNCHANGED <<input, readOffset, recv, skip, ready, messages, answered>>

\* NativeTransport::finish takes the output: the response.
Return ==
  /\ pc = "return"
  /\ answered' = answered \o output
  /\ output' = <<>>
  /\ pc' = "idle"
  /\ UNCHANGED <<input, readOffset, postgres, messages, clean>>

\* Err: the output stays in the transport until the next call clears it, and
\* PostgreSQL's buffers stay as they are.
\* Mutant: what is left of the request is tried again.
RetryRest == "loop"
ReturnErr == "idle"
Fail ==
  /\ pc = "fail"
  /\ clean' = FALSE
  /\ pc' = ReturnErr
  /\ UNCHANGED <<transport, postgres, messages, answered>>

CallNext ==
  \/ Begin \/ StartupPacket \/ SendConnData
  \/ LoopOnce \/ LoopOnDeadBackend \/ LoopEnds \/ LongJmp
  \/ Leave \/ SendReady \/ Flush \/ Return \/ Fail

CallSpec == CallInit /\ [][CallNext]_callVars
FairCallSpec == CallSpec /\ WF_callVars(CallNext /\ pc # "idle")

-----------------------------------------------------------------------------
(* The reference: what the wire protocol promises for a stream of messages *)

Reply(state, m) ==
  LET say(answers) == [state EXCEPT !.out = @ \o answers] IN
  CASE m.kind = "sync" -> [out |-> state.out \o <<Ready>>, skip |-> FALSE]
    [] m.kind # "sync" /\ state.skip -> state
    [] m.kind = "query" /\ ~state.skip -> say(<<Ok(m), Ready>>)
    [] m.kind = "badQuery" /\ ~state.skip -> say(<<Bad(m), Ready>>)
    [] m.kind \in {"parse", "startup"} /\ ~state.skip -> say(<<Ok(m)>>)
    [] m.kind = "badParse" /\ ~state.skip ->
         [out |-> state.out \o <<Bad(m)>>, skip |-> TRUE]
    [] OTHER -> state

\* After each message: what has been said, and whether messages are skipped.
ReplyStates(stream) ==
  LET state[n \in 0 .. Len(stream)] ==
        IF n = 0 THEN [out |-> <<>>, skip |-> FALSE] ELSE Reply(state[n - 1], stream[n])
  IN state
ReplyTo(stream) == ReplyStates(stream)[Len(stream)].out

-----------------------------------------------------------------------------
(* Properties.                                                             *)

\* However requests are cut into calls, input into pieces and output into
\* writes, the responses in a row are the protocol's reply to the requests in a
\* row, as long as no call has failed: every answer is returned by the call that
\* asked for it, once, in order, and an SQL error costs the runtime nothing
\* (ADR-0002: "does not poison the runtime if PostgreSQL can recover").  And no
\* answer is ever returned twice, not even after calls that failed.
CallsArePipe ==
  /\ pc = "idle" /\ clean => answered = ReplyTo(messages)
  /\ \A i, j \in DOMAIN answered :
       i # j /\ answered[i].mark # "ready" => answered[i] # answered[j]

\* Every call returns, whatever fails in it, with one exception: a backend that
\* has left, and for ever says that it has nothing to report (exit(0), or an error
\* to recover from), keeps the loop going for ever with the input it does not read.
AsksTheDead == pc \in {"loop", "longjmp"} /\ ~alive
CallsReturn == pc # "idle" ~> (pc = "idle" \/ []AsksTheDead)
=============================================================================
