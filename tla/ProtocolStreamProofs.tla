-------------------------- MODULE ProtocolStreamProofs --------------------------
(***************************************************************************)
(* Proofs about ProtocolStream, for any number of requests and of records. *)
(* Requests, responses and records are numbered in the order in which they *)
(* come about, so that each buffer holds a stretch of numbers, and the     *)
(* buffers in a row are one stretch without a gap.                         *)
(* Then proofs about the calls below it, NativeProtocol: there too the     *)
(* buffers in a row say it, whatever is cut where.                         *)
(***************************************************************************)
EXTENDS ProtocolStream, NativeProtocol, SequenceTheorems, WellFoundedInduction, TLAPS

\* The n numbers that follow k.
Stretch(k, n) == [i \in 1 .. n |-> k + i]

\* s is a stretch that begins after k.
Follows(s, k) == s = Stretch(k, Len(s))

Answered == Len(got) + Len(readBuffer)

\* The responses are the first so many requests.  As long as the connection has
\* not ended with an error, the rest are on their way to the runtime.
RequestsInOrder ==
  /\ Follows(asked, 0) /\ Follows(got, 0) /\ Follows(readBuffer, Len(got))
  /\ poll # "ending" =>
       /\ Follows(writeBuffer, Answered)
       /\ Follows(queue, Answered + Len(writeBuffer))
       /\ Len(asked) = Answered + Len(writeBuffer) + Len(queue)
  /\ poll # "flushing" => writeBuffer = <<>>
  /\ stage = "start" => asked = <<>> /\ poll = "parked"

\* A stream that is over has shut its runtime down, or tried to.
ShutDownOrFailed ==
  /\ shutdown => runtime # "open" \/ shutFailed
  /\ stage = "ended" => shutdown

\* Between two calls the runtime's own ledger is empty, and what has been said is
\* with the host and in the drain.
OutputInOrder ==
  /\ stage = "start" =>
       /\ Follows(rtLedger, 0) /\ emitted = Len(rtLedger)
       /\ session = <<>> /\ taken = <<>>
  /\ stage # "start" /\ ~shutFailed =>
       /\ rtLedger = <<>>
       /\ Follows(taken, 0) /\ Follows(session, Len(taken))
       /\ emitted = Len(taken) + Len(session)

IInv == TypeOK /\ RequestsInOrder /\ ShutDownOrFailed /\ OutputInOrder

------------------------------------------------------------
\* Stretches of numbers.

\* A stretch is a sequence of numbers, of its length.
LEMMA StretchIsSeq ==
  ASSUME NEW k \in Nat, NEW n \in Nat
  PROVE  /\ Stretch(k, n) \in Seq(Nat)
         /\ Len(Stretch(k, n)) = n
         /\ \A i \in 1 .. n : Stretch(k, n)[i] = k + i
  BY DEF Stretch

\* The empty sequence is a stretch, wherever it begins.
LEMMA StretchEmpty ==
  ASSUME NEW k \in Nat PROVE Follows(<<>>, k)
  BY DEF Stretch, Follows

\* A sequence is a stretch when its elements are the numbers one after the other.
LEMMA StretchByElements ==
  ASSUME NEW s \in Seq(Nat), NEW k \in Nat, \A i \in 1 .. Len(s) : s[i] = k + i
  PROVE  Follows(s, k)
  <1>1. Len(s) \in Nat
    OBVIOUS
  <1>2. Stretch(k, Len(s)) \in Seq(Nat) /\ Len(Stretch(k, Len(s))) = Len(s)
    BY <1>1, StretchIsSeq
  <1>3. \A i \in 1 .. Len(s) : s[i] = Stretch(k, Len(s))[i]
    BY <1>1, StretchIsSeq
  <1>4. s = Stretch(k, Len(s))
    BY <1>2, <1>3, SeqEqual
  <1>5. QED BY <1>4 DEF Follows

\* And only then.
LEMMA StretchElements ==
  ASSUME NEW s \in Seq(Nat), NEW k \in Nat, Follows(s, k)
  PROVE  \A i \in 1 .. Len(s) : s[i] = k + i
  <1>1. Len(s) \in Nat
    OBVIOUS
  <1>2. QED BY <1>1, StretchIsSeq DEF Follows

\* A stretch that follows on another prolongs it.
LEMMA StretchConcat ==
  ASSUME NEW s \in Seq(Nat), NEW t \in Seq(Nat), NEW k \in Nat,
         Follows(s, k), Follows(t, k + Len(s))
  PROVE  /\ Follows(s \o t, k)
         /\ s \o t \in Seq(Nat)
         /\ Len(s \o t) = Len(s) + Len(t)
  <1>1. /\ s \o t \in Seq(Nat) /\ Len(s \o t) = Len(s) + Len(t)
        /\ \A i \in 1 .. Len(s) + Len(t) :
             (s \o t)[i] = IF i <= Len(s) THEN s[i] ELSE t[i - Len(s)]
    BY ConcatProperties
  <1>2. Len(s) \in Nat /\ Len(t) \in Nat
    OBVIOUS
  <1>3. /\ \A i \in 1 .. Len(s) : s[i] = k + i
        /\ \A i \in 1 .. Len(t) : t[i] = k + Len(s) + i
    BY <1>2, StretchElements
  <1>4. \A i \in 1 .. Len(s \o t) : (s \o t)[i] = k + i
    BY <1>1, <1>2, <1>3
  <1>5. QED BY <1>1, <1>4, StretchByElements

\* And so does the next number.
LEMMA StretchAppend ==
  ASSUME NEW s \in Seq(Nat), NEW k \in Nat, Follows(s, k)
  PROVE  /\ Follows(Append(s, k + Len(s) + 1), k)
         /\ Append(s, k + Len(s) + 1) \in Seq(Nat)
         /\ Len(Append(s, k + Len(s) + 1)) = Len(s) + 1
  <1> DEFINE t == Append(s, k + Len(s) + 1)
  <1>1. Len(s) \in Nat /\ k + Len(s) + 1 \in Nat
    OBVIOUS
  <1>2. /\ t \in Seq(Nat) /\ Len(t) = Len(s) + 1
        /\ \A i \in 1 .. Len(s) : t[i] = s[i]
        /\ t[Len(s) + 1] = k + Len(s) + 1
    BY <1>1, AppendProperties
  <1>3. \A i \in 1 .. Len(s) : s[i] = k + i
    BY StretchElements
  <1>4. \A i \in 1 .. Len(t) : t[i] = k + i
    BY <1>1, <1>2, <1>3
  <1>5. QED BY <1>2, <1>4, StretchByElements

\* A stretch that is cut falls into two, one following on the other.
LEMMA StretchCut ==
  ASSUME NEW s \in Seq(Nat), NEW k \in Nat, Follows(s, k), NEW n \in 1 .. Len(s)
  PROVE  /\ SubSeq(s, 1, n) \in Seq(Nat) /\ Len(SubSeq(s, 1, n)) = n
         /\ Follows(SubSeq(s, 1, n), k)
         /\ SubSeq(s, n + 1, Len(s)) \in Seq(Nat)
         /\ Len(SubSeq(s, n + 1, Len(s))) = Len(s) - n
         /\ Follows(SubSeq(s, n + 1, Len(s)), k + n)
  <1> DEFINE first == SubSeq(s, 1, n)
             rest == SubSeq(s, n + 1, Len(s))
  <1>1. Len(s) \in Nat /\ n \in Nat /\ n <= Len(s)
    OBVIOUS
  <1>2. \A i \in 1 .. Len(s) : s[i] = k + i
    BY StretchElements
  <1>3. /\ first \in Seq(Nat) /\ Len(first) = n
        /\ \A i \in 1 .. n : first[i] = s[i]
    BY <1>1, SubSeqProperties
  <1>4. /\ rest \in Seq(Nat) /\ Len(rest) = Len(s) - n
        /\ \A i \in 1 .. Len(s) - n : rest[i] = s[n + i]
    <2>1. /\ n + 1 \in Int /\ Len(s) \in Int /\ \A i \in n + 1 .. Len(s) : s[i] \in Nat
          /\ Len(s) - (n + 1) + 1 = Len(s) - n
      BY <1>1
    <2>2. /\ rest \in Seq(Nat)
          /\ Len(rest) = IF n + 1 <= Len(s) THEN Len(s) - (n + 1) + 1 ELSE 0
          /\ \A i \in 1 .. Len(s) - (n + 1) + 1 : rest[i] = s[(n + 1) + i - 1]
      BY <2>1, SubSeqProperties
    <2> HIDE DEF rest
    <2>3. Len(rest) = Len(s) - n
      BY <1>1, <2>2
    <2>4. ASSUME NEW i \in 1 .. Len(s) - n PROVE rest[i] = s[n + i]
      <3>1. i \in 1 .. Len(s) - (n + 1) + 1 /\ (n + 1) + i - 1 = n + i
        BY <1>1
      <3> QED BY <2>2, <3>1
    <2> QED BY <2>2, <2>3, <2>4
  <1>5. \A i \in 1 .. Len(first) : first[i] = k + i
    BY <1>1, <1>2, <1>3
  <1>6. \A i \in 1 .. Len(rest) : rest[i] = (k + n) + i
    BY <1>1, <1>2, <1>4
  <1> HIDE DEF first, rest
  <1>7. Follows(first, k)
    BY <1>3, <1>5, StretchByElements
  <1>8. Follows(rest, k + n)
    BY <1>1, <1>4, <1>6, StretchByElements
  <1>9. QED BY <1>3, <1>4, <1>7, <1>8 DEF first, rest
------------------------------------------------------------
\* Requests and responses.

RequestTypes ==
  /\ asked \in Seq(Nat) /\ got \in Seq(Nat) /\ queue \in Seq(Nat)
  /\ writeBuffer \in Seq(Nat) /\ readBuffer \in Seq(Nat)
  /\ Answered <= Len(asked)

\* Every step keeps requests and responses in order.
LEMMA RequestStep ==
  ASSUME TypeOK, RequestsInOrder, [Next]_vars
  PROVE  RequestsInOrder' /\ RequestTypes'
  <1> USE DEF TypeOK, RequestsInOrder, RequestTypes, client, task, buffers
  <1>0. /\ Len(asked) \in Nat /\ Len(got) \in Nat /\ Len(queue) \in Nat
        /\ Len(readBuffer) \in Nat /\ Len(writeBuffer) \in Nat
        /\ Answered \in Nat /\ Answered = Len(got) + Len(readBuffer)
        /\ Answered' = Len(got') + Len(readBuffer')
    <2>1. /\ Len(asked) \in Nat /\ Len(got) \in Nat /\ Len(queue) \in Nat
          /\ Len(readBuffer) \in Nat /\ Len(writeBuffer) \in Nat
      OBVIOUS
    <2>2. /\ Answered = Len(got) + Len(readBuffer)
          /\ Answered' = Len(got') + Len(readBuffer')
      BY Zenon DEF Answered
    <2>3. QED BY <2>1, <2>2
  <1>1. CASE NewStream
    <2>1. asked' = <<1>> /\ queue' = <<1>> /\ stage' = "connecting" /\ stage = "start"
          /\ UNCHANGED <<got, poll, writeBuffer, readBuffer>>
      BY <1>1 DEF NewStream
    <2>2. Len(got) = 0 /\ Len(readBuffer) = 0 /\ Len(writeBuffer) = 0
      BY <2>1
    <2>3. Follows(<<1>>, 0) /\ <<1>> \in Seq(Nat) /\ Len(<<1>>) = 1
      <3>1. <<1>> \in Seq(Nat) /\ Len(<<1>>) = 1 /\ <<1>>[1] = 1
        OBVIOUS
      <3>2. \A i \in 1 .. Len(<<1>>) : <<1>>[i] = 0 + i
        BY <3>1
      <3>3. QED BY <3>1, <3>2, StretchByElements
    <2>4. QED BY <1>0, <2>1, <2>2, <2>3
  <1>2. CASE Send
    <2>1. /\ asked' = Append(asked, Len(asked) + 1) /\ queue' = Append(queue, Len(asked) + 1)
          /\ UNCHANGED <<stage, got, poll, writeBuffer, readBuffer>> /\ stage = "driving"
      BY <1>2 DEF Send
    <2>2. /\ Follows(asked', 0) /\ asked' \in Seq(Nat) /\ Len(asked') = Len(asked) + 1
      BY <2>1, StretchAppend
    <2>3. queue' \in Seq(Nat)
      BY <2>1
    <2>4. CASE poll = "ending"
      BY <1>0, <2>1, <2>2, <2>3, <2>4
    <2>5. CASE poll # "ending"
      <3>1. Len(asked) + 1 = (Answered + Len(writeBuffer)) + Len(queue) + 1
        BY <1>0, <2>5
      <3>2. Answered + Len(writeBuffer) \in Nat
        BY <1>0
      <3>3. /\ Follows(queue', Answered + Len(writeBuffer)) /\ Len(queue') = Len(queue) + 1
        BY <2>1, <2>5, <3>1, <3>2, StretchAppend
      <3>4. QED BY <1>0, <2>1, <2>2, <2>3, <2>5, <3>1, <3>3
    <2>6. QED BY <2>4, <2>5
  <1>3. CASE CloseClient        BY <1>0, <1>3 DEF CloseClient
  <1>4. CASE TakeBackendOutput  BY <1>0, <1>4 DEF TakeBackendOutput
  <1>5. CASE PollStart          BY <1>0, <1>5 DEF PollStart, Live
  <1>6. CASE PollRead
    <2>1. PICK n \in 1 .. Len(readBuffer) :
            /\ got' = got \o SubSeq(readBuffer, 1, n)
            /\ readBuffer' = SubSeq(readBuffer, n + 1, Len(readBuffer))
      BY <1>6 DEF PollRead
    <2>2. poll = "reading" /\ poll' \in {"reading", "writing"} /\ stage' = "driving"
          /\ UNCHANGED <<asked, queue, writeBuffer>>
      BY <1>6 DEF PollRead
    <2>3. /\ SubSeq(readBuffer, 1, n) \in Seq(Nat) /\ Len(SubSeq(readBuffer, 1, n)) = n
          /\ Follows(SubSeq(readBuffer, 1, n), Len(got))
          /\ readBuffer' \in Seq(Nat) /\ Len(readBuffer') = Len(readBuffer) - n
          /\ Follows(readBuffer', Len(got) + n)
      BY <1>0, <2>1, StretchCut
    <2>4. got' \in Seq(Nat) /\ Len(got') = Len(got) + n /\ Follows(got', 0)
      <3>1. Follows(SubSeq(readBuffer, 1, n), 0 + Len(got))
        BY <1>0, <2>3
      <3>2. /\ Follows(got \o SubSeq(readBuffer, 1, n), 0)
            /\ got \o SubSeq(readBuffer, 1, n) \in Seq(Nat)
            /\ Len(got \o SubSeq(readBuffer, 1, n)) = Len(got) + Len(SubSeq(readBuffer, 1, n))
        <4> DEFINE part == SubSeq(readBuffer, 1, n)
        <4>1. part \in Seq(Nat) /\ Follows(part, 0 + Len(got)) /\ got \in Seq(Nat)
              /\ Follows(got, 0)
          BY <2>3, <3>1
        <4> HIDE DEF part
        <4>2. /\ Follows(got \o part, 0) /\ got \o part \in Seq(Nat)
              /\ Len(got \o part) = Len(got) + Len(part)
          BY <4>1, StretchConcat
        <4>3. QED BY <4>2 DEF part
      <3>3. QED BY <2>1, <2>3, <3>2
    <2>5. Len(got') + Len(readBuffer') = Len(got) + Len(readBuffer)
      BY <1>0, <2>3, <2>4
    <2>6. QED BY <1>0, <2>2, <2>3, <2>4, <2>5
  <1>7. CASE PollReadPending    BY <1>0, <1>7 DEF PollReadPending
  <1>8. CASE PollWrite
    <2>1. CASE queue # <<>>
      <3>1. /\ writeBuffer' = writeBuffer \o queue /\ queue' = <<>> /\ poll' = "flushing"
            /\ poll = "writing" /\ UNCHANGED <<stage, asked, got, readBuffer>>
        BY <1>8, <2>1 DEF PollWrite
      <3>2. /\ writeBuffer' \in Seq(Nat)
            /\ Len(writeBuffer') = Len(writeBuffer) + Len(queue)
            /\ Follows(writeBuffer', Answered)
        BY <1>0, <3>1, StretchConcat
      <3>3. Follows(queue', Answered + Len(writeBuffer')) /\ Len(queue') = 0
        BY <1>0, <3>1, <3>2, StretchEmpty
      <3>4. QED BY <1>0, <3>1, <3>2, <3>3
    <2>2. CASE queue = <<>>
      BY <1>0, <1>8, <2>2 DEF PollWrite
    <2>3. QED BY <2>1, <2>2
  <1>9. CASE FlushAnswered
    <2>1. /\ writeBuffer' = <<>> /\ readBuffer' = readBuffer \o writeBuffer
          /\ poll' \in {"closing", "parked"} /\ poll = "flushing"
          /\ UNCHANGED <<stage, asked, got, queue>>
      BY <1>9 DEF FlushAnswered, TakeWrite, ExtendRead
    <2>2. /\ readBuffer' \in Seq(Nat)
          /\ Len(readBuffer') = Len(readBuffer) + Len(writeBuffer)
          /\ Follows(readBuffer', Len(got))
      BY <1>0, <2>1, StretchConcat
    <2>3. Follows(writeBuffer', Len(got') + Len(readBuffer')) /\ Len(writeBuffer') = 0
      BY <1>0, <2>1, <2>2, StretchEmpty
    <2>4. QED BY <1>0, <2>1, <2>2, <2>3
  <1>10. CASE FlushFails        BY <1>0, <1>10 DEF FlushFails, AfterError, TakeWrite
  <1>11. CASE PollShutdown      BY <1>0, <1>11 DEF PollShutdown
  <1>12. CASE DropStream        BY <1>0, <1>12 DEF DropStream
  <1>13. CASE DropRuntime       BY <1>0, <1>13 DEF DropRuntime
  <1>14. CASE Abort             BY <1>0, <1>14 DEF Abort, Live
  <1>15. CASE UNCHANGED vars    BY <1>0, <1>15 DEF vars
  <1>16. QED
    BY <1>1, <1>2, <1>3, <1>4, <1>5, <1>6, <1>7, <1>8, <1>9, <1>10, <1>11, <1>12, <1>13,
       <1>14, <1>15 DEF Next, Poll

------------------------------------------------------------
\* The backend's output.

OutputTypes ==
  /\ rtLedger \in Seq(Nat) /\ session \in Seq(Nat) /\ taken \in Seq(Nat)
  /\ emitted \in Nat

\* The host and the drain have all that has been said.
Drained ==
  /\ rtLedger = <<>>
  /\ Follows(taken, 0) /\ Follows(session, Len(taken))
  /\ emitted = Len(taken) + Len(session)

\* What a call has said is what the ledger held, and at most one record more.
LEMMA SaidProlongs ==
  ASSUME OutputTypes, NEW said \in Said
  PROVE  /\ said \in Seq(Nat) /\ emitted + Len(said) - Len(rtLedger) \in Nat
         /\ Drained => Follows(said, emitted)
  <1> USE DEF OutputTypes
  <1>1. said = rtLedger \/ said = Append(rtLedger, emitted + 1)
    BY DEF Said
  <1>2. CASE said = rtLedger
    BY <1>2, StretchEmpty DEF Drained
  <1>3. CASE said = Append(rtLedger, emitted + 1)
    <2>1. said \in Seq(Nat) /\ Len(said) = Len(rtLedger) + 1 /\ Len(rtLedger) \in Nat
      BY <1>3
    <2>2. ASSUME rtLedger = <<>> PROVE Follows(said, emitted)
      <3>1. \A i \in 1 .. Len(said) : said[i] = emitted + i
        BY <1>3, <2>1, <2>2
      <3>2. QED BY <2>1, <3>1, StretchByElements
    <2>3. QED BY <2>1, <2>2 DEF Drained
  <1>4. QED BY <1>1, <1>2, <1>3

\* A call that ends with a drain moves what it said behind what the drain holds.
LEMMA DrainMoves ==
  ASSUME OutputTypes, NEW said \in Said, Drain(said), Count(said), UNCHANGED taken
  PROVE  OutputTypes' /\ (Drained => Drained')
  <1>1. said \in Seq(Nat) /\ (Drained => Follows(said, emitted))
        /\ emitted + Len(said) - Len(rtLedger) \in Nat
    BY SaidProlongs
  <1>2. rtLedger' = <<>> /\ session' = session \o said
        /\ emitted' = emitted + Len(said) - Len(rtLedger)
    BY DEF Drain, Count
  <1>3. OutputTypes'
    BY <1>1, <1>2 DEF OutputTypes
  <1>4. ASSUME Drained PROVE Drained'
    <2>1. /\ rtLedger = <<>> /\ Follows(taken, 0) /\ Follows(session, Len(taken))
          /\ emitted = Len(taken) + Len(session)
          /\ taken \in Seq(Nat) /\ session \in Seq(Nat)
      BY <1>4 DEF Drained, OutputTypes
    <2>2. Len(taken) \in Nat /\ Len(session) \in Nat /\ Len(said) \in Nat /\ Len(rtLedger) = 0
      BY <1>1, <2>1
    <2>3. Follows(said, Len(taken) + Len(session))
      BY <1>1, <1>4, <2>1
    <2>4. Follows(session', Len(taken)) /\ Len(session') = Len(session) + Len(said)
      BY <1>1, <1>2, <2>1, <2>2, <2>3, StretchConcat
    <2>5. emitted' = Len(taken) + Len(session')
      BY <1>2, <2>1, <2>2, <2>4
    <2>6. QED BY <1>2, <2>1, <2>4, <2>5 DEF Drained
  <1>5. QED BY <1>3, <1>4

\* Every step keeps the output in order.
LEMMA OutputStep ==
  ASSUME TypeOK, RequestsInOrder, ShutDownOrFailed, OutputInOrder, [Next]_vars
  PROVE  OutputInOrder' /\ OutputTypes'
  <1>0. /\ OutputTypes
        /\ stage # "start" /\ ~shutFailed => Drained
        /\ stage = "start" => poll = "parked"
    BY DEF TypeOK, OutputTypes, OutputInOrder, Drained, RequestsInOrder
  <1>1. ASSUME OutputTypes', stage' # "start", Drained' \/ shutFailed'
        PROVE  OutputInOrder' /\ OutputTypes'
    BY <1>1 DEF OutputInOrder, Drained
  <1>2. ASSUME UNCHANGED ledgers, UNCHANGED taken, shutFailed => shutFailed',
               stage # "start", stage' # "start"
        PROVE  OutputInOrder' /\ OutputTypes'
    <2>1. OutputTypes' /\ (Drained => Drained')
      BY <1>0, <1>2 DEF ledgers, OutputTypes, Drained
    <2>2. QED BY <1>0, <1>1, <1>2, <2>1
  <1>3. ASSUME \E said \in Said : Drain(said) /\ Count(said),
               UNCHANGED taken, shutFailed => shutFailed',
               stage # "start", stage' # "start"
        PROVE  OutputInOrder' /\ OutputTypes'
    <2>1. OutputTypes' /\ (Drained => Drained')
      BY <1>0, <1>3, DrainMoves
    <2>2. QED BY <1>0, <1>1, <1>3, <2>1
  <1>4. CASE NewStream
    <2>1. /\ stage = "start" /\ stage' = "connecting"
          /\ rtLedger' = <<>> /\ session' = session \o rtLedger
          /\ UNCHANGED <<taken, emitted>>
      BY <1>4 DEF NewStream, Drain
    <2>2. /\ Follows(rtLedger, 0) /\ emitted = Len(rtLedger)
          /\ session = <<>> /\ taken = <<>> /\ rtLedger \in Seq(Nat) /\ emitted \in Nat
      BY <1>0, <2>1 DEF OutputInOrder, OutputTypes
    <2>3. session' = rtLedger /\ Len(taken) = 0 /\ emitted = 0 + Len(rtLedger)
      BY <2>1, <2>2
    <2>4. OutputTypes' /\ Drained'
      BY <2>1, <2>2, <2>3, StretchEmpty DEF OutputTypes, Drained
    <2>5. QED BY <1>1, <2>1, <2>4
  <1>5. CASE TakeBackendOutput
    <2>1. /\ taken' = taken \o session /\ session' = <<>> /\ stage \in {"driving", "ended"}
          /\ UNCHANGED <<stage, rtLedger, emitted, shutFailed>>
      BY <1>5 DEF TakeBackendOutput, TakeLedger
    <2>2. OutputTypes'
      BY <1>0, <2>1 DEF OutputTypes
    <2>3. ASSUME Drained PROVE Drained'
      <3>1. /\ rtLedger = <<>> /\ Follows(taken, 0) /\ Follows(session, Len(taken))
            /\ emitted = Len(taken) + Len(session)
            /\ taken \in Seq(Nat) /\ session \in Seq(Nat)
        BY <1>0, <2>3 DEF Drained, OutputTypes
      <3>2. Len(taken) \in Nat /\ Len(session) \in Nat /\ 0 + Len(taken) = Len(taken)
        BY <3>1
      <3>3. /\ Follows(taken', 0) /\ taken' \in Seq(Nat)
            /\ Len(taken') = Len(taken) + Len(session)
        BY <2>1, <3>1, <3>2, StretchConcat
      <3>4. Len(taken') \in Nat /\ Len(session') = 0 /\ Follows(session', Len(taken'))
        BY <2>1, <3>3, StretchEmpty
      <3>5. QED BY <2>1, <3>1, <3>2, <3>3, <3>4 DEF Drained
    <2>4. QED BY <1>0, <1>1, <2>1, <2>2, <2>3
  <1>6. CASE Send               BY <1>2, <1>6 DEF Send
  <1>7. CASE CloseClient        BY <1>2, <1>7 DEF CloseClient
  <1>8. CASE PollStart          BY <1>2, <1>8 DEF PollStart, Live
  <1>9. CASE PollRead           BY <1>0, <1>2, <1>9 DEF PollRead
  <1>10. CASE PollReadPending   BY <1>0, <1>2, <1>10 DEF PollReadPending
  <1>11. CASE PollWrite         BY <1>0, <1>2, <1>11 DEF PollWrite
  <1>12. CASE FlushAnswered     BY <1>0, <1>3, <1>12 DEF FlushAnswered
  <1>13. CASE FlushFails        BY <1>0, <1>3, <1>13 DEF FlushFails, DrainOnError
  <1>14. CASE PollShutdown
    BY <1>0, <1>3, <1>14 DEF PollShutdown, RuntimeShutdown, DrainOnError
  <1>15. CASE DropStream
    <2>1. stage # "start" /\ stage' = "ended" /\ UNCHANGED taken
      BY <1>0, <1>15 DEF DropStream
    <2>2. CASE ShutdownOnDrop
      BY <1>3, <1>15, <2>1, <2>2 DEF DropStream, RuntimeShutdown
    <2>3. CASE ~ShutdownOnDrop
      BY <1>2, <1>15, <2>1, <2>3 DEF DropStream
    <2>4. QED BY <2>2, <2>3
  <1>16. CASE DropRuntime
    <2>1. stage = "ended" /\ runtime # "dropped" /\ UNCHANGED <<stage, taken, shutFailed>>
      BY <1>16 DEF DropRuntime
    <2>2. CASE runtime = "shut"
      BY <1>2, <1>16, <2>1, <2>2 DEF DropRuntime
    <2>3. CASE runtime # "shut"
      <3>1. shutFailed
        BY <2>1, <2>3 DEF ShutDownOrFailed, TypeOK
      <3>2. PICK said \in Said : rtLedger' = said /\ Count(said) /\ UNCHANGED session
        BY <1>16, <2>3 DEF DropRuntime
      <3>3. OutputTypes'
        BY <1>0, <2>1, <3>2, SaidProlongs DEF OutputTypes, Count
      <3>4. QED BY <1>1, <2>1, <3>1, <3>3
    <2>4. QED BY <2>2, <2>3
  <1>17. CASE Abort             BY <1>2, <1>17 DEF Abort, Live
  <1>18. CASE UNCHANGED vars
    BY <1>0, <1>18 DEF vars, ledgers, OutputInOrder, OutputTypes
  <1>19. QED
    BY <1>4, <1>5, <1>6, <1>7, <1>8, <1>9, <1>10, <1>11, <1>12, <1>13, <1>14, <1>15, <1>16,
       <1>17, <1>18 DEF Next, Poll

------------------------------------------------------------
\* The end of the stream, and the types of the rest.

\* Every step keeps a stream that is over shut down.
LEMMA ShutStep ==
  ASSUME TypeOK, ShutDownOrFailed, [Next]_vars
  PROVE  ShutDownOrFailed'
  <1> USE DEF ShutDownOrFailed
  <1>1. CASE NewStream          BY <1>1 DEF NewStream
  <1>2. CASE Send               BY <1>2 DEF Send
  <1>3. CASE CloseClient        BY <1>3 DEF CloseClient
  <1>4. CASE TakeBackendOutput  BY <1>4 DEF TakeBackendOutput
  <1>5. CASE PollStart          BY <1>5 DEF PollStart
  <1>6. CASE PollRead           BY <1>6 DEF PollRead
  <1>7. CASE PollReadPending    BY <1>7 DEF PollReadPending
  <1>8. CASE PollWrite          BY <1>8 DEF PollWrite
  <1>9. CASE FlushAnswered      BY <1>9 DEF FlushAnswered
  <1>10. CASE FlushFails        BY <1>10 DEF FlushFails
  <1>11. CASE PollShutdown      BY <1>11 DEF PollShutdown, RuntimeShutdown
  <1>12. CASE DropStream
    BY <1>12 DEF DropStream, ShutdownOnDrop, RuntimeShutdown, TypeOK
  <1>13. CASE DropRuntime       BY <1>13 DEF DropRuntime
  <1>14. CASE Abort             BY <1>14 DEF Abort, Live
  <1>15. CASE UNCHANGED vars    BY <1>15 DEF vars
  <1>16. QED
    BY <1>1, <1>2, <1>3, <1>4, <1>5, <1>6, <1>7, <1>8, <1>9, <1>10, <1>11, <1>12, <1>13,
       <1>14, <1>15 DEF Next, Poll

\* Every step keeps the rest of the types.
LEMMA TypeStep ==
  ASSUME TypeOK, [Next]_vars
  PROVE  /\ stage' \in Stages /\ poll' \in Polls
         /\ runtime' \in {"open", "shut", "dropped"}
         /\ {closed, woken, terminated, shutdown, held, shutFailed}' \subseteq BOOLEAN
  <1> USE DEF TypeOK, Stages, Polls, client, task
  <1>1. CASE NewStream          BY <1>1 DEF NewStream
  <1>2. CASE Send               BY <1>2 DEF Send
  <1>3. CASE CloseClient        BY <1>3 DEF CloseClient
  <1>4. CASE TakeBackendOutput  BY <1>4 DEF TakeBackendOutput
  <1>5. CASE PollStart          BY <1>5 DEF PollStart
  <1>6. CASE PollRead           BY <1>6 DEF PollRead
  <1>7. CASE PollReadPending    BY <1>7 DEF PollReadPending
  <1>8. CASE PollWrite          BY <1>8 DEF PollWrite
  <1>9. CASE FlushAnswered      BY <1>9 DEF FlushAnswered, Wake
  <1>10. CASE FlushFails        BY <1>10 DEF FlushFails, AfterError
  <1>11. CASE PollShutdown      BY <1>11 DEF PollShutdown, RuntimeShutdown
  <1>12. CASE DropStream        BY <1>12 DEF DropStream, RuntimeShutdown
  <1>13. CASE DropRuntime       BY <1>13 DEF DropRuntime
  <1>14. CASE Abort             BY <1>14 DEF Abort
  <1>15. CASE UNCHANGED vars    BY <1>15 DEF vars
  <1>16. QED
    BY <1>1, <1>2, <1>3, <1>4, <1>5, <1>6, <1>7, <1>8, <1>9, <1>10, <1>11, <1>12, <1>13,
       <1>14, <1>15 DEF Next, Poll

------------------------------------------------------------
\* The invariant and what follows from it.

\* The invariant holds in the initial states.
LEMMA Initially == Init => IInv
  <1> SUFFICES ASSUME Init PROVE IInv
    OBVIOUS
  <1> USE DEF Init
  <1>1. <<>> \in Seq(Nat) /\ <<1>> \in Seq(Nat) /\ Len(<<>>) = 0 /\ Len(<<1>>) = 1
        /\ <<1>>[1] = 1
    OBVIOUS
  <1>2. TypeOK
    <2>1. rtLedger \in Seq(Nat) /\ emitted \in Nat
      BY <1>1
    <2>2. Len(got) + Len(readBuffer) <= Len(asked)
      BY <1>1
    <2>3. {closed, woken, terminated, shutdown, held, shutFailed} \subseteq BOOLEAN
      OBVIOUS
    <2>4. /\ asked \in Seq(Nat) /\ got \in Seq(Nat) /\ queue \in Seq(Nat)
          /\ writeBuffer \in Seq(Nat) /\ readBuffer \in Seq(Nat)
          /\ session \in Seq(Nat) /\ taken \in Seq(Nat)
      BY <1>1
    <2>5. QED BY <2>1, <2>2, <2>3, <2>4 DEF TypeOK, Stages, Polls
  <1>3. RequestsInOrder
    <2>1. Answered = 0
      BY DEF Answered
    <2>2. QED BY <1>1, <2>1, StretchEmpty DEF RequestsInOrder
  <1>4. ShutDownOrFailed
    BY DEF ShutDownOrFailed
  <1>5. OutputInOrder
    <2>1. \A i \in 1 .. Len(<<1>>) : <<1>>[i] = 0 + i
      BY <1>1
    <2>2. Follows(<<>>, 0) /\ Follows(<<1>>, 0)
      BY <1>1, <2>1, StretchEmpty, StretchByElements
    <2>3. QED BY <2>2 DEF OutputInOrder
  <1>6. QED BY <1>2, <1>3, <1>4, <1>5 DEF IInv

\* And every step preserves it.
LEMMA Invariance == Spec => []IInv
  <1>1. ASSUME IInv, [Next]_vars PROVE IInv'
    <2>1. TypeOK /\ RequestsInOrder /\ ShutDownOrFailed /\ OutputInOrder
      BY <1>1 DEF IInv
    <2>2. RequestsInOrder' /\ RequestTypes'
      BY <1>1, <2>1, RequestStep
    <2>3. ShutDownOrFailed'
      BY <1>1, <2>1, ShutStep
    <2>4. OutputInOrder' /\ OutputTypes'
      BY <1>1, <2>1, OutputStep
    <2>5. TypeOK'
      <3>1. /\ stage' \in Stages /\ poll' \in Polls
            /\ runtime' \in {"open", "shut", "dropped"}
            /\ {closed, woken, terminated, shutdown, held, shutFailed}' \subseteq BOOLEAN
        BY <1>1, <2>1, TypeStep
      <3>2. Len(got') + Len(readBuffer') <= Len(asked')
        BY <2>2 DEF RequestTypes, Answered
      <3>3. QED BY <2>2, <2>4, <3>1, <3>2 DEF TypeOK, RequestTypes, OutputTypes
    <2>6. QED BY <2>2, <2>3, <2>4, <2>5 DEF IInv
  <1>2. QED BY Initially, <1>1, PTL DEF Spec

\* The stream's state stays well typed; among it, that no more requests are
\* answered than were sent.
THEOREM StreamTypes == Spec => []TypeOK
  <1>1. IInv => TypeOK
    BY DEF IInv
  <1>2. QED BY Invariance, <1>1, PTL

\* The numbers from 1 on are the stretch that begins after 0.
LEMMA RecordsAreAStretch ==
  ASSUME NEW n \in Nat PROVE Records(n) = Stretch(0, n)
  BY DEF Records, Stretch

\* Responses come in the order of the requests, none lost, none twice, for any
\* number of requests, however the task is woken and however little of the read
\* buffer each poll_read takes.
THEOREM ResponsesStayInOrder == Spec => []ResponsesInOrder
  <1>1. IInv => ResponsesInOrder
    <2> SUFFICES ASSUME IInv PROVE ResponsesInOrder
      OBVIOUS
    <2>1. /\ got \in Seq(Nat) /\ readBuffer \in Seq(Nat)
          /\ Follows(got, 0) /\ Follows(readBuffer, Len(got))
      BY DEF IInv, TypeOK, RequestsInOrder
    <2>2. Len(got) \in Nat /\ Len(readBuffer) \in Nat /\ 0 + Len(got) = Len(got)
      BY <2>1
    <2>3. Follows(got \o readBuffer, 0) /\ Len(got \o readBuffer) = Len(got) + Len(readBuffer)
      BY <2>1, <2>2, StretchConcat
    <2>4. QED BY <2>2, <2>3, RecordsAreAStretch DEF Follows, ResponsesInOrder
  <1>2. QED BY Invariance, <1>1, PTL

\* What the backend has said is with the host or in the drain, the host's or the one
\* connect's error drops, once and in order, for any number of records.
THEOREM OutputIsNeverLost == Spec => []OutputReachesTheSession
  <1>1. IInv => OutputReachesTheSession
    <2> SUFFICES ASSUME IInv, stage # "start", ~shutFailed
                 PROVE  taken \o session = Records(emitted)
      BY DEF OutputReachesTheSession
    <2>1. /\ taken \in Seq(Nat) /\ session \in Seq(Nat) /\ emitted \in Nat
          /\ Follows(taken, 0) /\ Follows(session, Len(taken))
          /\ emitted = Len(taken) + Len(session)
      BY DEF IInv, TypeOK, OutputInOrder
    <2>2. Len(taken) \in Nat /\ Len(session) \in Nat /\ 0 + Len(taken) = Len(taken)
      BY <2>1
    <2>3. Follows(taken \o session, 0) /\ Len(taken \o session) = emitted
      BY <2>1, <2>2, StretchConcat
    <2>4. QED BY <2>1, <2>3, RecordsAreAStretch DEF Follows
  <1>2. QED BY Invariance, <1>1, PTL

------------------------------------------------------------
(***************************************************************************)
(* The calls below the stream: NativeProtocol, for requests of any length  *)
(* and any number of them.  Its reference is a recursive function, so the  *)
(* proof counts: what holds of 0 and of n + 1 with n holds of all numbers. *)
(***************************************************************************)
\* Induction over the numbers, for a set of them.
LEMMA Counting ==
  ASSUME NEW S, 0 \in S, \A n \in Nat : n \in S => n + 1 \in S
  PROVE  Nat \subseteq S
  <1> DEFINE T == Nat \ S
             R == {p \in Nat \X Nat : p[1] < p[2]}
  <1> SUFFICES ASSUME T # {} PROVE FALSE
    OBVIOUS
  <1>1. PICK x \in T : \A y \in T : <<y, x>> \notin R
    <2>1. IsWellFoundedOn(R, Nat)
      BY NatLessThanWellFounded DEF OpToRel
    <2>2. T \subseteq Nat
      OBVIOUS
    <2> HIDE DEF T, R
    <2> QED BY <2>1, <2>2, WFMin
  <1>2. x \in Nat /\ x # 0 /\ x - 1 \in Nat
    OBVIOUS
  <1>3. x - 1 \in S
    <2>1. <<x - 1, x>> \in R
      BY <1>2
    <2> QED BY <1>1, <1>2, <2>1
  <1>4. (x - 1) + 1 \in S
    BY <1>2, <1>3
  <1> QED BY <1>2, <1>4

Silence == [out |-> <<>>, skip |-> FALSE]

\* f follows the protocol along the first n of the messages.
Replies(f, s, n) ==
  f = [i \in 0 .. n |-> IF i = 0 THEN Silence ELSE Reply(f[i - 1], s[i])]

\* The reference replies to any number of messages,
LEMMA RepliesExist ==
  ASSUME NEW s, NEW n \in Nat PROVE \E f : Replies(f, s, n)
  <1> DEFINE S == {k \in Nat : \E f : Replies(f, s, k)}
  <1>1. 0 \in S
    <2> DEFINE f == [i \in 0 .. 0 |-> Silence]
    <2>1. Replies(f, s, 0)
      BY DEF Replies
    <2> QED BY <2>1
  <1>2. \A k \in Nat : k \in S => k + 1 \in S
    <2> SUFFICES ASSUME NEW k \in Nat, k \in S PROVE k + 1 \in S
      OBVIOUS
    <2>1. PICK f : Replies(f, s, k)
      OBVIOUS
    <2> DEFINE g == [i \in 0 .. k + 1 |-> IF i = k + 1 THEN Reply(f[k], s[k + 1]) ELSE f[i]]
    <2>2. \A i \in 0 .. k : f[i] = IF i = 0 THEN Silence ELSE Reply(f[i - 1], s[i])
      BY <2>1 DEF Replies
    <2>3. \A i \in 0 .. k : g[i] = f[i]
      OBVIOUS
    <2>4. \A i \in 0 .. k + 1 : g[i] = IF i = 0 THEN Silence ELSE Reply(g[i - 1], s[i])
      <3> TAKE i \in 0 .. k + 1
      <3>1. CASE i = k + 1
        <4>1. g[i] = Reply(f[k], s[k + 1]) /\ i # 0 /\ i - 1 = k
          BY <3>1
        <4>2. g[k] = f[k]
          BY <2>3
        <4> HIDE DEF g
        <4> QED BY <3>1, <4>1, <4>2
      <3>2. CASE i \in 0 .. k
        <4>1. i # 0 => i - 1 \in 0 .. k
          BY <3>2
        <4> HIDE DEF g
        <4> QED BY <2>2, <2>3, <3>2, <4>1
      <3> QED BY <3>1, <3>2
    <2>5. Replies(g, s, k + 1)
      BY <2>4 DEF Replies
    <2> QED BY <2>5
  <1> QED BY <1>1, <1>2, Counting

\* and to the same messages in the same way, whatever comes after them.
LEMMA RepliesAgree ==
  \A s, t, f, g : \A n \in Nat : \A m \in 0 .. n :
    Replies(f, s, m) /\ Replies(g, t, n) /\ (\A i \in 1 .. m : s[i] = t[i])
      => \A i \in 0 .. m : f[i] = g[i]
  <1> SUFFICES ASSUME NEW s, NEW t, NEW f, NEW g, NEW n \in Nat, NEW m \in 0 .. n,
                      Replies(f, s, m), Replies(g, t, n), \A i \in 1 .. m : s[i] = t[i]
               PROVE  \A i \in 0 .. m : f[i] = g[i]
    OBVIOUS
  <1> DEFINE S == {k \in Nat : k <= m => f[k] = g[k]}
  <1>1. /\ \A i \in 0 .. m : f[i] = IF i = 0 THEN Silence ELSE Reply(f[i - 1], s[i])
        /\ \A i \in 0 .. n : g[i] = IF i = 0 THEN Silence ELSE Reply(g[i - 1], t[i])
    BY DEF Replies
  <1>2. 0 \in S
    BY <1>1
  <1>3. \A k \in Nat : k \in S => k + 1 \in S
    <2> SUFFICES ASSUME NEW k \in Nat, k \in S, k + 1 <= m PROVE f[k + 1] = g[k + 1]
      OBVIOUS
    <2>1. k + 1 \in 0 .. m /\ k + 1 \in 0 .. n /\ k + 1 # 0 /\ (k + 1) - 1 = k /\ k <= m
      OBVIOUS
    <2>2. f[k] = g[k] /\ s[k + 1] = t[k + 1]
      BY <2>1
    <2> QED BY <1>1, <2>1, <2>2
  <1>4. Nat \subseteq S
    BY <1>2, <1>3, Counting
  <1> QED BY <1>4

\* So the recursive function of NativeProtocol is what its definition says,
LEMMA StatesReply ==
  ASSUME NEW S, NEW s \in Seq(S) PROVE Replies(ReplyStates(s), s, Len(s))
  <1>1. Len(s) \in Nat
    OBVIOUS
  <1>2. PICK f : Replies(f, s, Len(s))
    BY <1>1, RepliesExist
  <1>3. ReplyStates(s) =
          CHOOSE g : g = [i \in 0 .. Len(s) |-> IF i = 0 THEN Silence
                                                ELSE Reply(g[i - 1], s[i])]
    BY DEF ReplyStates, Silence
  <1> QED BY <1>2, <1>3 DEF Replies

\* message by message,
LEMMA StatesAreReplies ==
  ASSUME NEW S, NEW s \in Seq(S)
  PROVE  /\ ReplyStates(s)[0] = Silence
         /\ \A p \in 1 .. Len(s) :
              ReplyStates(s)[p] = Reply(ReplyStates(s)[p - 1], s[p])
  <1>1. Len(s) \in Nat
    OBVIOUS
  <1> QED BY <1>1, StatesReply DEF Replies

\* and what it replies does not change when more messages are sent.
LEMMA StatesStay ==
  ASSUME NEW S, NEW s \in Seq(S), NEW t \in Seq(S), NEW p \in 0 .. Len(s)
  PROVE  ReplyStates(s \o t)[p] = ReplyStates(s)[p]
  <1> DEFINE u == s \o t
  <1>1. /\ u \in Seq(S) /\ Len(u) = Len(s) + Len(t) /\ Len(s) \in Nat /\ Len(t) \in Nat
        /\ \A i \in 1 .. Len(s) : s[i] = u[i]
    BY ConcatProperties
  <1> HIDE DEF u
  <1>2. Replies(ReplyStates(s), s, Len(s)) /\ Replies(ReplyStates(u), u, Len(u))
    BY <1>1, StatesReply
  <1>3. Len(s) <= Len(u) /\ Len(u) \in Nat
    BY <1>1
  <1>4. \A i \in 0 .. Len(s) : ReplyStates(s)[i] = ReplyStates(u)[i]
    <2> DEFINE f == ReplyStates(s)
               g == ReplyStates(u)
               m == Len(s)
               n == Len(u)
    <2>1. /\ n \in Nat /\ m \in 0 .. n /\ Replies(f, s, m) /\ Replies(g, u, n)
          /\ \A i \in 1 .. m : s[i] = u[i]
      BY <1>1, <1>2, <1>3
    <2> HIDE DEF f, g, m, n
    <2>2. \A i \in 0 .. m : f[i] = g[i]
      BY <2>1, RepliesAgree
    <2> QED BY <2>2 DEF f, g, m
  <1> QED BY <1>4 DEF u

------------------------------------------------------------
\* What PostgreSQL has said and not lost, from the first answer to the last.
Sent == answered \o (output \o send)

\* Answers that tell of a message; they come in the order of the messages.
Telling(a) == a.mark # "ready"
Increasing(s) ==
  \A i, j \in DOMAIN s :
    i < j /\ Telling(s[i]) /\ Telling(s[j]) => s[i].id < s[j].id
UpTo(s, n) == \A i \in DOMAIN s : Telling(s[i]) => s[i].id <= n

Unread == Len(input) - readOffset

\* Messages are numbered, and the input holds the last of them.
MessagesInOrder ==
  /\ \A i \in 1 .. Len(messages) : messages[i].id = i
  /\ Len(input) <= Len(messages)
  /\ \A i \in 1 .. Len(input) : input[i] = messages[Len(messages) - Len(input) + i]
  /\ messages = <<>> =>
       /\ pc = "idle" /\ recv = <<>> /\ answered = <<>> /\ output = <<>> /\ send = <<>>
       /\ ~ready /\ ~skip

\* The first n messages are answered, or lost; those that follow lie in the receive
\* buffer, and at the end of the input.  None is between unless a call has failed.
AnsweredTo(n) ==
  /\ n \in Nat /\ n + Len(recv) + Unread <= Len(messages)
  /\ clean => n + Len(recv) + Unread = Len(messages)
  /\ \A k \in 1 .. Len(recv) : recv[k] = messages[n + k]
  /\ Increasing(Sent) /\ UpTo(Sent, n)
AnswersInOrder == \E n \in Nat : AnsweredTo(n)

\* During the handshake there is one message, and nothing has been said.
StartingUp ==
  pc \in {"startup", "sendConnData"} =>
    /\ Len(messages) = 1 /\ input = messages /\ messages[1].kind = "startup"
    /\ recv = <<>> /\ readOffset = IF pc = "startup" THEN 0 ELSE 1
    /\ answered = <<>> /\ output = <<>> /\ send = <<>> /\ ~ready /\ ~skip

\* What the protocol already counts as said: the ReadyForQuery of a round that has
\* ended, or will end in the recovery from an error.
Due == IF (pc = "longjmp" /\ ~skip) \/ (pc # "longjmp" /\ ready) THEN <<Ready>> ELSE <<>>
Taken == Len(messages) - Len(recv) - Unread

\* As long as no call has failed, what has been said and what is due are the
\* protocol's reply to the messages taken, and a call ends with nothing left behind.
CleanCall ==
  clean /\ pc # "fail" =>
    /\ pc # "sendConnData" =>
         ReplyStates(messages)[Taken] = [out |-> Sent \o Due, skip |-> skip]
    /\ pc \in {"leave", "sendReady", "flush", "return", "idle"} => recv = <<>> /\ Unread = 0
    /\ pc \in {"flush", "return", "idle"} => ~ready
    /\ pc \in {"return", "idle"} => send = <<>>
    /\ pc = "idle" => output = <<>>

CallInv == CallTypeOK /\ MessagesInOrder /\ AnswersInOrder /\ StartingUp /\ CleanCall

------------------------------------------------------------
\* Sequences of answers.
LEMMA Regrouped ==
  \A a, b, c \in Seq(Answers) : (a \o b) \o c = a \o (b \o c)
  BY ConcatAssociative

LEMMA Joined ==
  \A a, b \in Seq(Answers) :
    /\ a \o b \in Seq(Answers) /\ Len(a \o b) = Len(a) + Len(b)
    /\ \A i \in 1 .. Len(a) + Len(b) : (a \o b)[i] = IF i <= Len(a) THEN a[i] ELSE b[i - Len(a)]
  BY ConcatProperties

\* Whether PostgreSQL writes out or not, what it has said grows by the answer.
LEMMA AnswerSaid ==
  ASSUME CallTypeOK, NEW new \in Seq(Answers), Answer(new), UNCHANGED answered
  PROVE  /\ Sent' = Sent \o new
         /\ output' \in Seq(Answers) /\ send' \in Seq(Answers)
         /\ Sent \in Seq(Answers)
  <1> DEFINE A == Answers
             kept == output \o send
  <1>1. answered \in Seq(A) /\ output \in Seq(A) /\ send \in Seq(A) /\ new \in Seq(A)
    BY DEF CallTypeOK
  <1>2. kept \in Seq(A) /\ kept \o new \in Seq(A) /\ <<>> \in Seq(A) /\ send \o new \in Seq(A)
    BY <1>1, ConcatProperties
  <1>3. /\ output' \o send' = kept \o new
        /\ output' \in Seq(A) /\ send' \in Seq(A)
    <2>1. CASE send' = send \o new /\ UNCHANGED output
      <3>1. (output \o send) \o new = output \o (send \o new)
        BY <1>1, Regrouped
      <3> QED BY <1>1, <1>2, <2>1, <3>1
    <2>2. CASE send' = <<>> /\ output' = kept \o new
      <3> HIDE DEF kept
      <3> QED BY <1>2, <2>2, ConcatEmptySeq
    <2> QED BY <2>1, <2>2 DEF Answer
  <1>4. Sent = answered \o kept /\ Sent' = answered \o (kept \o new)
    BY <1>3 DEF Sent
  <1> HIDE DEF kept
  <1>5. (answered \o kept) \o new = answered \o (kept \o new)
    <2>1. answered \in Seq(Answers) /\ kept \in Seq(Answers) /\ new \in Seq(Answers)
      BY <1>1, <1>2
    <2> QED BY <2>1, Regrouped, Zenon
  <1>6. answered \o kept \in Seq(A)
    BY <1>1, <1>2, ConcatProperties
  <1> QED BY <1>3, <1>4, <1>5, <1>6

\* Writing out and returning move what has been said, and change nothing of it.
LEMMA WrittenOut ==
  ASSUME CallTypeOK, WriteOut, UNCHANGED answered
  PROVE  Sent' = Sent /\ output' \in Seq(Answers) /\ send' = <<>>
  <1>1. output \o send \in Seq(Answers)
    BY ConcatProperties DEF CallTypeOK
  <1>2. send' = <<>> /\ output' = output \o send
    BY DEF WriteOut
  <1> QED BY <1>1, <1>2, ConcatEmptySeq DEF Sent

LEMMA Returned ==
  ASSUME CallTypeOK, answered' = answered \o output, output' = <<>>, UNCHANGED send
  PROVE  Sent' = Sent /\ answered' \in Seq(Answers)
  <1> DEFINE A == Answers
  <1>1. answered \in Seq(A) /\ output \in Seq(A) /\ send \in Seq(A)
    BY DEF CallTypeOK
  <1>2. answered \o output \in Seq(A) /\ <<>> \o send = send
    BY <1>1, ConcatProperties, ConcatEmptySeq
  <1>3. Sent' = (answered \o output) \o send
    BY <1>2 DEF Sent
  <1> QED BY <1>1, <1>2, <1>3, ConcatAssociative DEF Sent

\* A ReadyForQuery that is owed is an answer.
LEMMA OwedIsTyped ==
  ASSUME CallTypeOK
  PROVE  /\ Owed \in Seq(Answers) /\ Due \in Seq(Answers)
         /\ <<>> \in Seq(Answers) /\ <<Ready>> \in Seq(Answers)
  <1>1. Ready \in Answers
    BY DEF Answers
  <1>2. <<>> \in Seq(Answers) /\ <<Ready>> \in Seq(Answers)
    BY <1>1
  <1> QED BY <1>2 DEF Owed, Due

\* A round tells of one message at most: its own.
LEMMA SaysOne ==
  ASSUME CallTypeOK, NEW m \in Messages,
         NEW new \in {Owed, Append(Owed, Ok(m)), Append(Owed, Bad(m))}
  PROVE  /\ new \in Seq(Answers)
         /\ Increasing(new)
         /\ \A i \in DOMAIN new : Telling(new[i]) => new[i].id = m.id
  <1>1. Ok(m) \in Answers /\ Bad(m) \in Answers
    BY DEF Ok, Bad, Answers, Messages
  <1>2. Ok(m).id = m.id /\ Bad(m).id = m.id /\ Ready.mark = "ready"
        /\ Ready \in Answers
    BY DEF Ok, Bad, Ready, Answers
  <1>3. /\ Owed \in Seq(Answers) /\ Len(Owed) \in {0, 1}
        /\ \A i \in 1 .. Len(Owed) : ~Telling(Owed[i])
    <2>1. CASE ready
      BY <1>2, <2>1, OwedIsTyped DEF Owed, Telling
    <2>2. CASE ~ready
      BY <2>2, OwedIsTyped DEF Owed
    <2> QED BY <2>1, <2>2
  <1>4. CASE new = Owed
    BY <1>3, <1>4 DEF Increasing
  <1>5. ASSUME NEW a \in Answers, a.id = m.id, new = Append(Owed, a)
        PROVE  /\ new \in Seq(Answers)
               /\ Increasing(new)
               /\ \A i \in DOMAIN new : Telling(new[i]) => new[i].id = m.id
    <2>1. /\ new \in Seq(Answers) /\ Len(new) = Len(Owed) + 1
          /\ \A i \in 1 .. Len(Owed) : new[i] = Owed[i]
          /\ new[Len(Owed) + 1] = a
      BY <1>3, <1>5, AppendProperties
    <2>2. DOMAIN new = 1 .. Len(Owed) + 1
      BY <2>1
    <2>3. \A i \in DOMAIN new : Telling(new[i]) => i = Len(Owed) + 1
      BY <1>3, <2>1, <2>2
    <2> QED BY <1>3, <1>5, <2>1, <2>2, <2>3 DEF Increasing
  <1> QED BY <1>1, <1>2, <1>4, <1>5

\* Answers to later messages keep the order.
LEMMA GoesOn ==
  ASSUME NEW s \in Seq(Answers), NEW t \in Seq(Answers), NEW n \in Nat, NEW k \in Nat,
         Increasing(s), UpTo(s, n), Increasing(t), n <= k,
         \A i \in DOMAIN t : Telling(t[i]) => t[i].id > n /\ t[i].id <= k
  PROVE  Increasing(s \o t) /\ UpTo(s \o t, k)
  <1>1. \A a \in Answers : a.id \in Nat
    BY DEF Answers, Ready, Ids
  <1>2. /\ Len(s) \in Nat /\ Len(t) \in Nat
        /\ DOMAIN s = 1 .. Len(s) /\ DOMAIN t = 1 .. Len(t)
        /\ s \o t \in Seq(Answers)
        /\ DOMAIN (s \o t) = 1 .. Len(s) + Len(t)
        /\ \A i \in 1 .. Len(s) + Len(t) : (s \o t)[i] =
                     IF i <= Len(s) THEN s[i] ELSE t[i - Len(s)]
    BY ConcatProperties
  <1> DEFINE u == s \o t
  <1>3. \A i \in 1 .. Len(s) : s[i] \in Answers /\ s[i].id \in Nat
    BY <1>1, <1>2
  <1>4. \A i \in 1 .. Len(t) : t[i] \in Answers /\ t[i].id \in Nat
    BY <1>1, <1>2
  <1>5. UpTo(u, k)
    BY <1>2, <1>3, <1>4 DEF UpTo
  <1>6. Increasing(u)
    <2> SUFFICES ASSUME NEW i \in 1 .. Len(s) + Len(t), NEW j \in 1 .. Len(s) + Len(t),
                        i < j, Telling(u[i]), Telling(u[j])
                 PROVE  u[i].id < u[j].id
      BY <1>2 DEF Increasing
    <2>1. CASE j <= Len(s)
      BY <1>2, <2>1 DEF Increasing
    <2>2. CASE i <= Len(s) /\ j > Len(s)
      <3>1. u[i] = s[i] /\ u[j] = t[j - Len(s)] /\ i \in 1 .. Len(s) /\ j - Len(s) \in 1 .. Len(t)
        BY <1>2, <2>2
      <3>2. s[i].id <= n /\ t[j - Len(s)].id > n
        BY <1>2, <3>1 DEF UpTo
      <3> QED BY <1>3, <1>4, <3>1, <3>2
    <2>3. CASE i > Len(s)
      <3>1. /\ u[i] = t[i - Len(s)] /\ u[j] = t[j - Len(s)]
            /\ i - Len(s) \in 1 .. Len(t) /\ j - Len(s) \in 1 .. Len(t)
            /\ i - Len(s) < j - Len(s)
        BY <1>2, <2>3
      <3> QED BY <1>2, <3>1 DEF Increasing
    <2> QED BY <1>2, <2>1, <2>2, <2>3
  <1> QED BY <1>5, <1>6

\* Losing what was output leaves the order.
LEMMA LossKeepsOrder ==
  ASSUME NEW s \in Seq(Answers), NEW t \in Seq(Answers), NEW u \in Seq(Answers),
         NEW n \in Nat, Increasing(s \o (t \o u)), UpTo(s \o (t \o u), n)
  PROVE  Increasing(s \o u) /\ UpTo(s \o u, n)
  <1> DEFINE long == s \o (t \o u)
             short == s \o u
             At(i) == IF i <= Len(s) THEN i ELSE i + Len(t)
  <1>1. Len(s) \in Nat /\ Len(t) \in Nat /\ Len(u) \in Nat
    OBVIOUS
  <1>2. /\ t \o u \in Seq(Answers) /\ Len(t \o u) = Len(t) + Len(u)
        /\ \A i \in 1 .. Len(u) : (t \o u)[Len(t) + i] = u[i]
    BY <1>1, ConcatProperties
  <1>3. /\ Len(long) = Len(s) + Len(t) + Len(u) /\ DOMAIN long = 1 .. Len(s) + Len(t) + Len(u)
        /\ \A i \in 1 .. Len(s) : long[i] = s[i]
        /\ \A i \in 1 .. Len(u) : long[Len(s) + Len(t) + i] = u[i]
    <2> DEFINE v == t \o u
    <2>1. v \in Seq(Answers) /\ long = s \o v /\ Len(v) = Len(t) + Len(u)
          /\ \A i \in 1 .. Len(u) : v[Len(t) + i] = u[i]
      BY <1>2
    <2> HIDE DEF long, v
    <2>2. /\ long \in Seq(Answers) /\ Len(long) = Len(s) + Len(v)
          /\ \A i \in 1 .. Len(s) + Len(v) :
               long[i] = IF i <= Len(s) THEN s[i] ELSE v[i - Len(s)]
      BY <2>1, Joined
    <2>3. DOMAIN long = 1 .. Len(long)
      BY <2>2
    <2>4. \A i \in 1 .. Len(u) : /\ Len(s) + Len(t) + i \in 1 .. Len(s) + Len(v)
                                 /\ ~(Len(s) + Len(t) + i <= Len(s))
                                 /\ (Len(s) + Len(t) + i) - Len(s) = Len(t) + i
      BY <1>1, <2>1
    <2>5. \A i \in 1 .. Len(u) : long[Len(s) + Len(t) + i] = u[i]
      BY <2>1, <2>2, <2>4
    <2>6. \A i \in 1 .. Len(s) : long[i] = s[i]
      BY <1>1, <2>1, <2>2
    <2> QED BY <1>1, <2>1, <2>2, <2>3, <2>5, <2>6
  <1>4. /\ short \in Seq(Answers) /\ Len(short) = Len(s) + Len(u)
        /\ \A i \in 1 .. Len(s) + Len(u) :
             short[i] = IF i <= Len(s) THEN s[i] ELSE u[i - Len(s)]
    BY ConcatProperties
  <1>5. DOMAIN short = 1 .. Len(s) + Len(u)
    BY <1>4
  <1>6. Increasing(long) /\ UpTo(long, n)
    OBVIOUS
  <1> HIDE DEF long, short
  <1>7. \A i \in DOMAIN short : At(i) \in DOMAIN long /\ short[i] = long[At(i)]
    <2> SUFFICES ASSUME NEW i \in 1 .. Len(s) + Len(u)
                 PROVE  At(i) \in DOMAIN long /\ short[i] = long[At(i)]
      BY <1>5
    <2>1. CASE i <= Len(s)
      <3>1. i \in 1 .. Len(s) /\ i \in 1 .. Len(s) + Len(t) + Len(u) /\ At(i) = i
        BY <1>1, <2>1
      <3> HIDE DEF At
      <3> QED BY <1>3, <1>4, <2>1, <3>1
    <2>2. CASE i > Len(s)
      <3> DEFINE j == i - Len(s)
      <3>1. /\ j \in 1 .. Len(u) /\ At(i) = Len(s) + Len(t) + j
            /\ Len(s) + Len(t) + j \in 1 .. Len(s) + Len(t) + Len(u)
        BY <1>1, <2>2
      <3>2. short[i] = u[j]
        BY <1>1, <1>4, <2>2
      <3> HIDE DEF At, j
      <3> QED BY <1>3, <3>1, <3>2
    <2> QED BY <1>1, <2>1, <2>2
  <1>8. \A i, j \in DOMAIN short : i < j => At(i) < At(j)
    BY <1>1, <1>5
  <1> HIDE DEF At
  <1>9. Increasing(short)
    BY <1>6, <1>7, <1>8 DEF Increasing
  <1>10. UpTo(short, n)
    BY <1>6, <1>7 DEF UpTo
  <1> QED BY <1>9, <1>10 DEF short

------------------------------------------------------------
\* The messages of a request carry the next numbers.
LEMMA Numbering ==
  ASSUME CallTypeOK, NEW kinds \in Batches,
         Len(messages) + Len(kinds) <= MaxMessages
  PROVE  LET new == Numbered(kinds)
         IN /\ new \in Seq(Messages) /\ Len(new) \in Nat \ {0}
            /\ \A i \in 1 .. Len(new) : new[i].id = Len(messages) + i
            /\ kinds[1] = "startup" => Len(new) = 1 /\ new[1].kind = "startup"
  <1>1. Len(messages) \in Nat /\ MaxMessages \in Nat /\ MaxBatch \in Nat
    BY ProtocolAssumption DEF CallTypeOK
  <1>2. PICK n \in Nat \ {0} : /\ kinds \in [1 .. n -> Kinds \cup {"startup"}]
                               /\ kinds[1] = "startup" => n = 1
    <2>1. CASE kinds = <<"startup">>
      BY <2>1
    <2>2. CASE kinds # <<"startup">>
      <3>1. PICK n \in 1 .. MaxBatch : kinds \in [1 .. n -> Kinds]
        <4>1. kinds \in UNION {[1 .. n -> Kinds] : n \in 1 .. MaxBatch}
          BY <2>2, Zenon DEF Batches
        <4> QED BY <4>1
      <3>2. 1 \in 1 .. n /\ n \in Nat \ {0}
        BY <1>1
      <3>3. kinds[1] # "startup"
        BY <3>1, <3>2 DEF Kinds
      <3> QED BY <3>1, <3>2, <3>3
    <2> QED BY <2>1, <2>2
  <1>3. Len(kinds) = n /\ DOMAIN kinds = 1 .. n
    BY <1>2
  <1> DEFINE new == Numbered(kinds)
  <1>4. new = [i \in 1 .. n |-> [kind |-> kinds[i], id |-> Len(messages) + i]]
    <2>1. new = [i \in DOMAIN kinds |-> [kind |-> kinds[i], id |-> Len(messages) + i]]
      BY DEF Numbered
    <2> HIDE DEF new
    <2> QED BY <1>3, <2>1
  <1>5. \A i \in 1 .. n : /\ new[i] = [kind |-> kinds[i], id |-> Len(messages) + i]
                          /\ new[i] \in Messages
    <2> SUFFICES ASSUME NEW i \in 1 .. n
                 PROVE  [kind |-> kinds[i], id |-> Len(messages) + i] \in Messages
      BY <1>4
    <2>1. Len(messages) + i \in 1 .. MaxMessages
      BY <1>1, <1>3
    <2>2. kinds[i] \in Kinds \cup {"startup"}
      BY <1>2
    <2> QED BY <2>1, <2>2 DEF Messages, Ids
  <1>6. DOMAIN new = 1 .. n
    BY <1>4
  <1> HIDE DEF new
  <1>7. new \in [1 .. n -> Messages]
    BY <1>4, <1>5, <1>6
  <1>8. new \in Seq(Messages) /\ Len(new) = n
    BY <1>7
  <1>9. kinds[1] = "startup" => Len(new) = 1 /\ new[1].kind = "startup"
    <2>1. n = 1 => new[1] = [kind |-> kinds[1], id |-> Len(messages) + 1]
      BY <1>5
    <2> QED BY <1>2, <1>8, <2>1
  <1>10. \A i \in 1 .. Len(new) : new[i].id = Len(messages) + i
    BY <1>5, <1>8
  <1> QED BY <1>8, <1>9, <1>10 DEF new

\* What PostgreSQL finds in its receive buffer for its next round.
LEMMA Reading ==
  ASSUME CallTypeOK, NEW n \in Receivable, recv # <<>> \/ Unread > 0
  PROVE  LET fed == Received(n)
         IN /\ n \in 0 .. Unread /\ fed \in Seq(Messages) /\ fed # <<>>
            /\ n = 0 => fed = recv
            /\ n # 0 => /\ recv = <<>> /\ Len(fed) = n
                        /\ \A i \in 1 .. n : fed[i] = input[readOffset + i]
  <1>1. /\ input \in Seq(Messages) /\ recv \in Seq(Messages)
        /\ Len(input) \in Nat /\ readOffset \in 0 .. Len(input)
    BY DEF CallTypeOK
  <1>2. Unread \in Nat
    BY <1>1 DEF Unread
  <1>3. CASE recv # <<>>
    <2>1. n = 0
      BY <1>3 DEF Receivable
    <2> QED BY <1>1, <1>2, <1>3, <2>1 DEF Received
  <1>4. CASE recv = <<>>
    <2>1. n \in 1 .. Unread
      BY <1>2, <1>4 DEF Receivable, Available, Unread
    <2>2. Received(n) = SubSeq(input, readOffset + 1, readOffset + n)
      <3>1. n # 0
        BY <1>2, <2>1
      <3> QED BY <3>1, Zenon DEF Received, Piece
    <2>3. /\ readOffset + 1 \in Int /\ readOffset + n \in Int
          /\ \A i \in readOffset + 1 .. readOffset + n : i \in 1 .. Len(input)
          /\ readOffset + 1 <= readOffset + n
          /\ (readOffset + n) - (readOffset + 1) + 1 = n
      BY <1>1, <2>1 DEF Unread
    <2>4. \A i \in readOffset + 1 .. readOffset + n : input[i] \in Messages
      BY <1>1, <2>3
    <2> DEFINE fed == Received(n)
               a == readOffset + 1
               b == readOffset + n
    <2>5. fed = SubSeq(input, a, b) /\ a \in Int /\ b \in Int /\ a <= b /\ b - a + 1 = n
          /\ \A i \in a .. b : input[i] \in Messages
      BY <2>2, <2>3, <2>4
    <2> HIDE DEF fed, a, b
    <2>6. /\ fed \in Seq(Messages) /\ Len(fed) = n
          /\ \A i \in 1 .. n : fed[i] = input[a + i - 1]
      BY <2>5, SubSeqProperties
    <2>7. \A i \in 1 .. n : a + i - 1 = readOffset + i
      BY <1>1 DEF a
    <2>8. fed # <<>> /\ n # 0 /\ n \in 0 .. Unread
      BY <1>2, <2>1, <2>6
    <2> QED BY <1>4, <2>6, <2>7, <2>8 DEF fed
  <1> QED BY <1>3, <1>4

\* It takes the next message, or the first that is left of this request.
LEMMA Taking ==
  ASSUME CallTypeOK, MessagesInOrder, NEW k \in Nat, AnsweredTo(k),
         NEW n \in Receivable, recv # <<>> \/ Unread > 0,
         recv' = Tail(Received(n)), readOffset' = readOffset + n,
         UNCHANGED <<input, messages>>
  PROVE  \E j \in Nat :
           /\ k <= j /\ j + 1 <= Len(messages)
           /\ clean => j = Taken
           /\ Head(Received(n)) = messages[j + 1]
           /\ Head(Received(n)) \in Messages
           /\ (j + 1) + Len(recv') + Unread' <= Len(messages)
           /\ clean => (j + 1) + Len(recv') + Unread' = Len(messages)
           /\ \A i \in 1 .. Len(recv') : recv'[i] = messages[(j + 1) + i]
           /\ recv' \in Seq(Messages) /\ readOffset' \in 0 .. Len(input)
           /\ Taken' = Taken + 1
  <1> DEFINE fed == Received(n)
  <1>1. /\ n \in 0 .. Unread /\ fed \in Seq(Messages) /\ fed # <<>>
        /\ n = 0 => fed = recv
        /\ n # 0 => /\ recv = <<>> /\ Len(fed) = n
                    /\ \A i \in 1 .. n : fed[i] = input[readOffset + i]
    BY Reading
  <1>2. /\ input \in Seq(Messages) /\ recv \in Seq(Messages)
        /\ Len(input) \in Nat /\ readOffset \in 0 .. Len(input)
        /\ Len(messages) \in Nat /\ Len(recv) \in Nat
    BY DEF CallTypeOK
  <1>3. Unread \in Nat /\ Unread' = Unread - n /\ Unread = Len(input) - readOffset
    BY <1>1, <1>2 DEF Unread
  <1>4. recv' = Tail(fed)
    OBVIOUS
  <1> HIDE DEF fed
  <1>5. /\ Head(fed) \in Messages /\ Head(fed) = fed[1]
        /\ recv' \in Seq(Messages) /\ Len(recv') = Len(fed) - 1
        /\ \A i \in 1 .. Len(recv') : recv'[i] = fed[i + 1]
        /\ Len(fed) \in Nat \ {0}
    <2>1. fed \in Seq(Messages) /\ fed # <<>>
      BY <1>1
    <2>2. /\ Head(fed) \in Messages /\ Tail(fed) \in Seq(Messages)
          /\ Len(Tail(fed)) = Len(fed) - 1
          /\ \A i \in 1 .. Len(Tail(fed)) : Tail(fed)[i] = fed[i + 1]
      BY <2>1, HeadTailProperties
    <2>3. Head(fed) = fed[1] /\ Len(fed) \in Nat \ {0}
      BY <2>1
    <2> QED BY <1>4, <2>2, <2>3
  <1>6. /\ k + Len(recv) + Unread <= Len(messages)
        /\ clean => k + Len(recv) + Unread = Len(messages)
        /\ \A i \in 1 .. Len(recv) : recv[i] = messages[k + i]
    BY DEF AnsweredTo
  <1>7. /\ Taken = Len(messages) - Len(recv) - Unread
        /\ Taken' = Len(messages) - Len(recv') - Unread'
    BY DEF Taken
  <1>8. CASE n = 0
    <2>1. /\ k + 1 <= Len(messages)
          /\ clean => k = Taken
          /\ (k + 1) + Len(recv') + Unread' <= Len(messages)
          /\ clean => (k + 1) + Len(recv') + Unread' = Len(messages)
          /\ readOffset' \in 0 .. Len(input) /\ Taken' = Taken + 1
      <3> DEFINE L == Len(messages)
                 r == Len(recv)
                 u == Unread
                 q == Len(recv')
                 v == Unread'
      <3>1. /\ L \in Nat /\ r \in Nat /\ u \in Nat /\ r # 0 /\ q = r - 1 /\ v = u
            /\ readOffset' = readOffset
        BY <1>1, <1>2, <1>3, <1>5, <1>8
      <3>2. /\ k + r + u <= L
            /\ clean => k + r + u = L
            /\ Taken = L - r - u /\ Taken' = L - q - v
        BY <1>6, <1>7
      <3> HIDE DEF L, r, u, q, v
      <3>3. /\ k + 1 <= L
            /\ clean => k = Taken
            /\ (k + 1) + q + v <= L
            /\ clean => (k + 1) + q + v = L
            /\ Taken' = Taken + 1
        BY <3>1, <3>2
      <3> QED BY <1>2, <3>1, <3>3 DEF L, q, v
    <2>2. \A i \in 1 .. Len(recv') : i + 1 \in 1 .. Len(recv) /\ k + (i + 1) = (k + 1) + i
      BY <1>1, <1>2, <1>5, <1>8
    <2>3. \A i \in 1 .. Len(recv') : recv'[i] = messages[(k + 1) + i]
      BY <1>1, <1>5, <1>6, <1>8, <2>2
    <2>4. Head(fed) = messages[k + 1]
      BY <1>1, <1>2, <1>5, <1>6, <1>8
    <2>5. Head(fed) \in Messages /\ recv' \in Seq(Messages) /\ k <= k
      BY <1>5
    <2> QED BY <2>1, <2>3, <2>4, <2>5, Zenon DEF fed
  <1>9. CASE n # 0
    <2> DEFINE j == Len(messages) - Unread
    <2>0. n \in Nat /\ n >= 1 /\ n <= Unread /\ Len(recv) = 0 /\ Len(recv') = n - 1
      BY <1>1, <1>2, <1>3, <1>5, <1>9
    <2>1. /\ j \in Nat /\ k <= j /\ j + 1 <= Len(messages)
          /\ clean => j = Taken
          /\ (j + 1) + Len(recv') + Unread' = Len(messages)
          /\ readOffset' \in 0 .. Len(input) /\ Taken' = Taken + 1
      <3> DEFINE L == Len(messages)
                 u == Unread
                 q == Len(recv')
                 v == Unread'
      <3>1. /\ L \in Nat /\ u \in Nat /\ q = n - 1 /\ v = u - n /\ n \in Nat /\ 1 <= n /\ n <= u
        BY <1>2, <1>3, <2>0
      <3>2. /\ k + u <= L
            /\ clean => k + u = L
            /\ Taken = L - u /\ Taken' = L - q - v
        BY <1>2, <1>3, <1>6, <1>7, <2>0
      <3>3. j = L - u
        OBVIOUS
      <3> HIDE DEF L, u, q, v, j
      <3>4. /\ j \in Nat /\ k <= j /\ j + 1 <= L
            /\ clean => j = Taken
            /\ (j + 1) + q + v = L
            /\ Taken' = Taken + 1
        BY <3>1, <3>2, <3>3
      <3>5. readOffset' \in 0 .. Len(input)
        BY <1>2, <1>3, <2>0
      <3> QED BY <3>4, <3>5 DEF L, q, v
    <2>2. \A i \in 1 .. n : /\ readOffset + i \in 1 .. Len(input)
                            /\ Len(messages) - Len(input) + (readOffset + i) = j + i
      BY <1>2, <1>3, <2>0
    <2>3. \A i \in 1 .. Len(input) : input[i] = messages[Len(messages) - Len(input) + i]
      BY DEF MessagesInOrder
    <2> HIDE DEF j
    <2>4. \A i \in 1 .. n : fed[i] = messages[j + i]
      BY <1>1, <1>9, <2>2, <2>3
    <2>5. \A i \in 1 .. Len(recv') : i + 1 \in 1 .. n /\ j + (i + 1) = (j + 1) + i
      BY <2>0, <2>1
    <2>6. \A i \in 1 .. Len(recv') : recv'[i] = messages[(j + 1) + i]
      BY <1>5, <2>4, <2>5
    <2>7. Head(fed) = messages[j + 1]
      BY <1>5, <2>0, <2>4
    <2>8. Head(fed) \in Messages /\ recv' \in Seq(Messages)
      BY <1>5
    <2>9. (j + 1) + Len(recv') + Unread' <= Len(messages)
      <3>1. Len(messages) <= Len(messages)
        BY <1>2
      <3> QED BY <2>1, <3>1, Zenon
    <2> HIDE DEF fed
    <2>10. /\ k <= j /\ j + 1 <= Len(messages)
           /\ clean => j = Taken
           /\ Head(fed) = messages[j + 1]
           /\ Head(fed) \in Messages
           /\ (j + 1) + Len(recv') + Unread' <= Len(messages)
           /\ clean => (j + 1) + Len(recv') + Unread' = Len(messages)
           /\ \A i \in 1 .. Len(recv') : recv'[i] = messages[(j + 1) + i]
           /\ recv' \in Seq(Messages) /\ readOffset' \in 0 .. Len(input)
           /\ Taken' = Taken + 1
      BY <2>1, <2>6, <2>7, <2>8, <2>9, Zenon
    <2> QED BY <2>1, <2>10, Zenon DEF fed
  <1> QED BY <1>8, <1>9


\* The protocol appends its answers to those before, the code to its buffers.
LEMMA Saying ==
  \A s, o, x, d \in Seq(Answers) : (s \o (o \o x)) \o d = (s \o o) \o (x \o d)
  <1> SUFFICES ASSUME NEW s \in Seq(Answers), NEW o \in Seq(Answers),
                      NEW x \in Seq(Answers), NEW d \in Seq(Answers)
               PROVE  (s \o (o \o x)) \o d = (s \o o) \o (x \o d)
    OBVIOUS
  <1>1. s \o o \in Seq(Answers)
    BY Joined
  <1>2. s \o (o \o x) = (s \o o) \o x
    BY Regrouped
  <1>3. ((s \o o) \o x) \o d = (s \o o) \o (x \o d)
    BY <1>1, Regrouped
  <1> QED BY <1>2, <1>3

LEMMA Pairing ==
  \A a, b \in Answers : <<a>> \o <<b>> = <<a, b>>
  <1> SUFFICES ASSUME NEW a \in Answers, NEW b \in Answers
               PROVE  <<a>> \o <<b>> = <<a, b>>
    OBVIOUS
  <1>1. <<a>> \in Seq(Answers)
    OBVIOUS
  <1>2. Append(<<a>>, b) = <<a>> \o <<b>>
    BY <1>1, AppendIsConcat
  <1>3. Append(<<a>>, b) = <<a, b>>
    <2> DEFINE s == Append(<<a>>, b)
               t == <<a, b>>
    <2>1. /\ s \in Seq(Answers) /\ Len(s) = Len(<<a>>) + 1
          /\ \A i \in 1 .. Len(<<a>>) : s[i] = <<a>>[i]
          /\ s[Len(<<a>>) + 1] = b
      BY <1>1, AppendProperties
    <2>2. Len(<<a>>) = 1 /\ <<a>>[1] = a
      OBVIOUS
    <2>3. t \in Seq(Answers) /\ Len(t) = 2 /\ t[1] = a /\ t[2] = b
      OBVIOUS
    <2> HIDE DEF s, t
    <2>4. Len(s) = 2 /\ s[1] = a /\ s[2] = b
      BY <2>1, <2>2
    <2>5. \A i \in 1 .. Len(s) : s[i] = t[i]
      BY <2>3, <2>4
    <2>6. s = t
      BY <2>1, <2>3, <2>4, <2>5, SeqEqual
    <2> QED BY <2>6 DEF s, t
  <1> QED BY <1>2, <1>3

\* The reference, kind by kind.
LEMMA ReplyByKind ==
  ASSUME NEW out, NEW s \in BOOLEAN, NEW m
  PROVE  LET reply == Reply([out |-> out, skip |-> s], m)
         IN /\ m.kind = "sync" => reply = [out |-> out \o <<Ready>>, skip |-> FALSE]
            /\ m.kind # "sync" /\ s => reply = [out |-> out, skip |-> s]
            /\ m.kind = "query" /\ ~s =>
                 reply = [out |-> out \o <<Ok(m), Ready>>, skip |-> s]
            /\ m.kind = "badQuery" /\ ~s =>
                 reply = [out |-> out \o <<Bad(m), Ready>>, skip |-> s]
            /\ m.kind \in {"parse", "startup"} /\ ~s =>
                 reply = [out |-> out \o <<Ok(m)>>, skip |-> s]
            /\ m.kind = "badParse" /\ ~s =>
                 reply = [out |-> out \o <<Bad(m)>>, skip |-> TRUE]
  <1> DEFINE state == [out |-> out, skip |-> s]
  <1>1. state.out = out /\ state.skip = s
    OBVIOUS
  <1>2. \A x : [state EXCEPT !.out = @ \o x] = [out |-> out \o x, skip |-> s]
    OBVIOUS
  <1> HIDE DEF state
  <1>3. /\ m.kind = "sync" => Reply(state, m) = [out |-> out \o <<Ready>>, skip |-> FALSE]
        /\ m.kind # "sync" /\ s => Reply(state, m) = state
        /\ m.kind = "query" /\ ~s =>
             Reply(state, m) = [state EXCEPT !.out = @ \o <<Ok(m), Ready>>]
        /\ m.kind = "badQuery" /\ ~s =>
             Reply(state, m) = [state EXCEPT !.out = @ \o <<Bad(m), Ready>>]
        /\ m.kind \in {"parse", "startup"} /\ ~s =>
             Reply(state, m) = [state EXCEPT !.out = @ \o <<Ok(m)>>]
        /\ m.kind = "badParse" /\ ~s =>
             Reply(state, m) = [out |-> out \o <<Bad(m)>>, skip |-> TRUE]
    BY <1>1 DEF Reply
  <1> QED BY <1>2, <1>3 DEF state

\* What a round says is about its message, and is what the protocol asks for.
LEMMA Serving ==
  ASSUME CallTypeOK, NEW m \in Messages, Serve(m), UNCHANGED answered, pc = "loop"
  PROVE  /\ \E new \in Seq(Answers) :
              /\ Sent' = Sent \o new /\ Increasing(new)
              /\ \A i \in DOMAIN new : Telling(new[i]) => new[i].id = m.id
         /\ output' \in Seq(Answers) /\ send' \in Seq(Answers)
         /\ {skip', ready', alive', clean'} \subseteq BOOLEAN
         /\ pc' \in {"loop", "longjmp", "leave", "fail"}
         /\ clean' => clean /\ pc' # "leave"
         /\ clean' /\ pc' # "fail" =>
              Reply([out |-> Sent \o Due, skip |-> skip], m)
                = [out |-> Sent' \o Due', skip |-> skip']
  <1>1. /\ {skip, ready, alive, clean} \subseteq BOOLEAN
        /\ Due = Owed /\ Sent \in Seq(Answers)
        /\ output \in Seq(Answers) /\ send \in Seq(Answers)
    <2>1. {skip, ready, alive, clean} \subseteq BOOLEAN
      BY DEF CallTypeOK
    <2>2. answered \in Seq(Answers) /\ output \in Seq(Answers) /\ send \in Seq(Answers)
      BY DEF CallTypeOK
    <2>3. output \o send \in Seq(Answers)
      BY <2>2, Joined
    <2>4. Sent \in Seq(Answers)
      BY <2>2, <2>3, Joined DEF Sent
    <2>5. Due = Owed
      BY <2>1 DEF Due, Owed
    <2> QED BY <2>1, <2>2, <2>4, <2>5
  <1>2. /\ <<>> \in Seq(Answers) /\ <<Ready>> \in Seq(Answers)
        /\ Owed \in Seq(Answers)
    BY OwedIsTyped
  <1> DEFINE Reports(new) == /\ Sent' = Sent \o new /\ Increasing(new)
                          /\ \A i \in DOMAIN new : Telling(new[i]) => new[i].id = m.id
             Typed == output' \in Seq(Answers) /\ send' \in Seq(Answers)
             sofar == Sent \o Owed
             reply == Reply([out |-> sofar, skip |-> skip], m)
             Goal == /\ \E new \in Seq(Answers) : Reports(new)
                     /\ Typed
                     /\ {skip', ready', alive', clean'} \subseteq BOOLEAN
                     /\ pc' \in {"loop", "longjmp", "leave", "fail"}
                     /\ clean' => clean /\ pc' # "leave"
                     /\ clean' /\ pc' # "fail" =>
                          reply = [out |-> Sent' \o Due', skip |-> skip']
  <1>3. ASSUME NEW new \in {Owed, Append(Owed, Ok(m)), Append(Owed, Bad(m))},
               Answer(new)
        PROVE  new \in Seq(Answers) /\ Reports(new) /\ Typed
    BY <1>3, SaysOne, AnswerSaid
  <1>4. /\ Ok(m) \in Answers /\ Bad(m) \in Answers /\ Ready \in Answers
        /\ m.kind \in Kinds \cup {"startup"}
    BY DEF Ok, Bad, Ready, Answers, Messages
  <1>5. /\ <<Ok(m)>> \in Seq(Answers) /\ <<Bad(m)>> \in Seq(Answers)
        /\ Append(Owed, Ok(m)) = Owed \o <<Ok(m)>>
        /\ Append(Owed, Bad(m)) = Owed \o <<Bad(m)>>
        /\ <<Ok(m)>> \o <<Ready>> = <<Ok(m), Ready>>
        /\ <<Bad(m)>> \o <<Ready>> = <<Bad(m), Ready>>
        /\ <<Ok(m)>> \o <<>> = <<Ok(m)>>
        /\ <<Bad(m)>> \o <<>> = <<Bad(m)>>
        /\ sofar \in Seq(Answers) /\ sofar \o <<>> = sofar
    <2>1. <<Ok(m)>> \in Seq(Answers) /\ <<Bad(m)>> \in Seq(Answers)
      BY <1>4
    <2>2. /\ Append(Owed, Ok(m)) = Owed \o <<Ok(m)>>
          /\ Append(Owed, Bad(m)) = Owed \o <<Bad(m)>>
      BY <1>2, <1>4, AppendIsConcat
    <2>3. sofar \in Seq(Answers)
      BY <1>1, <1>2, Joined
    <2>4. sofar \o <<>> = sofar
      BY <2>3, ConcatEmptySeq
    <2>5. /\ <<Ok(m)>> \o <<>> = <<Ok(m)>>
          /\ <<Bad(m)>> \o <<>> = <<Bad(m)>>
      BY <2>1, ConcatEmptySeq
    <2>6. /\ <<Ok(m)>> \o <<Ready>> = <<Ok(m), Ready>>
          /\ <<Bad(m)>> \o <<Ready>> = <<Bad(m), Ready>>
      BY <1>4, Pairing
    <2> QED BY <2>1, <2>2, <2>3, <2>4, <2>5, <2>6
  <1>6. /\ m.kind = "sync" => reply = [out |-> sofar \o <<Ready>>, skip |-> FALSE]
        /\ m.kind # "sync" /\ skip => reply = [out |-> sofar, skip |-> skip]
        /\ m.kind = "query" /\ ~skip =>
             reply = [out |-> sofar \o <<Ok(m), Ready>>, skip |-> skip]
        /\ m.kind = "badQuery" /\ ~skip =>
             reply = [out |-> sofar \o <<Bad(m), Ready>>, skip |-> skip]
        /\ m.kind = "parse" /\ ~skip => reply = [out |-> sofar \o <<Ok(m)>>, skip |-> skip]
        /\ m.kind = "badParse" /\ ~skip => reply = [out |-> sofar \o <<Bad(m)>>, skip |-> TRUE]
    <2> skip \in BOOLEAN
      BY <1>1
    <2> QED BY ReplyByKind
  <1>7. \A x, d \in Seq(Answers) :
          (Sent \o (Owed \o x)) \o d = sofar \o (x \o d)
    BY <1>1, <1>2, Saying
  <1>8. SUFFICES Goal
    BY <1>1
  <1> HIDE DEF sofar, reply, Reports, Typed
  <1>9. CASE /\ Skipped(m)
             /\ Answer(Owed) /\ ready' = FALSE
             /\ pc' = "loop" /\ UNCHANGED <<skip, alive, clean>>
    <2>1. Reports(Owed) /\ Typed
      BY <1>3, <1>9
    <2>2. reply = [out |-> sofar, skip |-> skip]
      BY <1>6, <1>9 DEF Skipped
    <2>3. Due' = <<>> /\ Sent' = sofar
      BY <1>9, <2>1 DEF Due, sofar, Reports
    <2>4. reply = [out |-> Sent' \o Due', skip |-> skip']
      BY <1>5, <1>9, <2>2, <2>3
    <2> QED BY <1>1, <1>2, <1>9, <2>1, <2>4
  <1>10. CASE /\ ~Skipped(m) /\ m.kind \in {"query", "parse"}
             /\ Answer(Append(Owed, Ok(m))) /\ ready' = (m.kind = "query")
             /\ pc' = "loop" /\ UNCHANGED <<skip, alive, clean>>
    <2> DEFINE new == Append(Owed, Ok(m))
    <2>1. new \in Seq(Answers) /\ Reports(new) /\ Typed
      BY <1>3, <1>10
    <2>2. ~skip
      BY <1>10 DEF Skipped
    <2>3. Sent' = Sent \o (Owed \o <<Ok(m)>>)
      BY <1>5, <2>1 DEF Reports
    <2>4. Due' = IF m.kind = "query" THEN <<Ready>> ELSE <<>>
      BY <1>10 DEF Due
    <2>5. Sent' \o Due' = sofar \o (<<Ok(m)>> \o Due')
      BY <1>2, <1>5, <1>7, <2>3, <2>4
    <2>6. reply = [out |-> Sent' \o Due', skip |-> skip']
      <3>1. CASE m.kind = "query"
        BY <1>5, <1>6, <1>10, <2>2, <2>4, <2>5, <3>1
      <3>2. CASE m.kind = "parse"
        BY <1>5, <1>6, <1>10, <2>2, <2>4, <2>5, <3>2
      <3> QED BY <1>10, <3>1, <3>2
    <2> QED BY <1>1, <1>10, <2>1, <2>6
  <1>11. CASE /\ m.kind = "sync"
             /\ Answer(Owed) /\ ready' = TRUE /\ skip' = FALSE
             /\ pc' = "loop" /\ UNCHANGED <<alive, clean>>
    <2>1. Reports(Owed) /\ Typed
      BY <1>3, <1>11
    <2>2. Due' = <<Ready>> /\ Sent' = sofar
      BY <1>11, <2>1 DEF Due, sofar, Reports
    <2>3. reply = [out |-> Sent' \o Due', skip |-> skip']
      BY <1>6, <1>11, <2>2
    <2> QED BY <1>1, <1>2, <1>11, <2>1, <2>3
  <1>12. CASE /\ ~Skipped(m) /\ m.kind \in {"badQuery", "badParse"}
             /\ Answer(Append(Owed, Bad(m))) /\ ready' = FALSE
             /\ skip' = (m.kind = "badParse")
             /\ pc' = "longjmp" /\ UNCHANGED <<alive, clean>>
    <2> DEFINE new == Append(Owed, Bad(m))
    <2>1. new \in Seq(Answers) /\ Reports(new) /\ Typed
      BY <1>3, <1>12
    <2>2. ~skip /\ skip = FALSE
      BY <1>1, <1>12 DEF Skipped
    <2>3. Sent' = Sent \o (Owed \o <<Bad(m)>>)
      BY <1>5, <2>1 DEF Reports
    <2>4. Due' = IF m.kind = "badQuery" THEN <<Ready>> ELSE <<>>
      BY <1>12 DEF Due
    <2>5. Sent' \o Due' = sofar \o (<<Bad(m)>> \o Due')
      BY <1>2, <1>5, <1>7, <2>3, <2>4
    <2>6. reply = [out |-> Sent' \o Due', skip |-> skip']
      <3>1. CASE m.kind = "badQuery"
        BY <1>5, <1>6, <1>12, <2>2, <2>4, <2>5, <3>1
      <3>2. CASE m.kind = "badParse"
        BY <1>5, <1>6, <1>12, <2>2, <2>4, <2>5, <3>2
      <3> QED BY <1>12, <3>1, <3>2
    <2> QED BY <1>1, <1>12, <2>1, <2>6
  <1>13. CASE /\ m.kind = "terminate"
             /\ Answer(Owed) /\ ready' = FALSE
             /\ pc' = "leave" /\ clean' = FALSE /\ UNCHANGED <<skip, alive>>
    <2>1. Reports(Owed) /\ Typed
      BY <1>3, <1>13
    <2> QED BY <1>1, <1>2, <1>13, <2>1
  <1>14. CASE /\ m.kind # "terminate"
             /\ pc' \in {"fail", "loop"} /\ alive' = FALSE /\ clean' = FALSE
             /\ UNCHANGED <<output, send, skip, ready>>
    <2>1. Sent' = Sent \o <<>>
      BY <1>1, <1>14, ConcatEmptySeq DEF Sent
    <2>2. Reports(<<>>)
      BY <2>1 DEF Increasing, Reports
    <2> HIDE DEF Reports
    <2> QED BY <1>1, <1>2, <1>14, <2>2 DEF Typed
  <1> HIDE DEF Goal
  <1> QED BY <1>9, <1>10, <1>11, <1>12, <1>13, <1>14, Zenon DEF Serve
------------------------------------------------------------
\* The types of what is counted.
LEMMA Counts ==
  ASSUME CallTypeOK
  PROVE  /\ Len(messages) \in Nat /\ Len(input) \in Nat /\ Len(recv) \in Nat
         /\ Unread \in Nat /\ readOffset \in Nat /\ Taken \in Int
         /\ Sent \in Seq(Answers)
         /\ answered \in Seq(Answers) /\ output \in Seq(Answers)
         /\ send \in Seq(Answers)
         /\ {skip, ready, alive, clean} \subseteq BOOLEAN
  <1>1. /\ answered \in Seq(Answers) /\ output \in Seq(Answers)
        /\ send \in Seq(Answers)
        /\ {skip, ready, alive, clean} \subseteq BOOLEAN
    BY DEF CallTypeOK
  <1>2. Sent \in Seq(Answers)
    BY <1>1, Joined DEF Sent
  <1>3. Len(messages) \in Nat /\ Len(input) \in Nat /\ Len(recv) \in Nat /\ readOffset \in 0 .. Len(input)
    BY DEF CallTypeOK
  <1>4. Unread \in Nat
    BY <1>3 DEF Unread
  <1>5. Taken \in Int
    BY <1>3, <1>4 DEF Taken
  <1> QED BY <1>1, <1>2, <1>3, <1>4, <1>5

\* A step that reads nothing leaves the order of the messages.
LEMMA Quiet ==
  ASSUME CallInv, pc # "idle", UNCHANGED <<input, readOffset, recv, messages>>,
         clean' => clean
  PROVE  /\ MessagesInOrder'
         /\ Unread' = Unread /\ Taken' = Taken
         /\ \A k \in Nat : AnsweredTo(k) /\ Increasing(Sent') /\ UpTo(Sent', k) => AnsweredTo(k)'
  <1>1. Unread' = Unread /\ Taken' = Taken
    BY DEF Unread, Taken
  <1>2. MessagesInOrder'
    BY DEF CallInv, MessagesInOrder
  <1>3. \A k \in Nat : AnsweredTo(k) /\ Increasing(Sent') /\ UpTo(Sent', k) => AnsweredTo(k)'
    BY <1>1 DEF AnsweredTo
  <1> QED BY <1>1, <1>2, <1>3

\* A call of PostgreSQL outside the loop.
LEMMA TrapIsTyped ==
  ASSUME CallTypeOK, NEW next \in Points, Trapped(next)
  PROVE  /\ pc' \in {next, "fail"} /\ alive' \in BOOLEAN /\ clean' \in BOOLEAN
         /\ clean' => clean
  <1>1. alive \in BOOLEAN /\ clean \in BOOLEAN
    BY DEF CallTypeOK
  <1>2. CASE pc' = next /\ UNCHANGED <<alive, clean>>
    BY <1>1, <1>2
  <1>3. CASE pc' = "fail" /\ alive' \in {alive, FALSE} /\ UNCHANGED clean
    BY <1>1, <1>3
  <1>4. CASE pc' = next /\ alive' = FALSE /\ clean' = FALSE
    BY <1>1, <1>4
  <1> QED BY <1>2, <1>3, <1>4 DEF Trapped

\* A step that says nothing, too, leaves the order of the answers.
LEMMA Silent ==
  ASSUME CallInv, pc # "idle", UNCHANGED <<input, readOffset, recv, messages>>,
         clean' => clean, pc' \notin {"startup", "sendConnData"}, Sent' = Sent
  PROVE  MessagesInOrder' /\ AnswersInOrder' /\ StartingUp' /\ Unread' = Unread /\ Taken' = Taken
  <1>1. PICK k \in Nat : AnsweredTo(k)
    BY DEF CallInv, AnswersInOrder
  <1>2. Increasing(Sent') /\ UpTo(Sent', k)
    BY <1>1 DEF AnsweredTo
  <1>3. AnsweredTo(k)'
    BY <1>1, <1>2, Quiet
  <1>4. AnswersInOrder'
    BY <1>3 DEF AnswersInOrder
  <1>5. StartingUp'
    BY DEF StartingUp
  <1> QED BY <1>4, <1>5, Quiet

\* Err: the call has failed, and clean says so.
LEMMA FailStep ==
  ASSUME CallInv, Fail PROVE CallInv'
  <1>1. /\ pc = "fail" /\ pc' = "idle" /\ clean' = FALSE
        /\ UNCHANGED <<input, readOffset, output, recv, send, skip, ready, alive, messages, answered>>
    BY DEF Fail, ReturnErr, transport, postgres
  <1>2. CallTypeOK'
    BY <1>1 DEF CallInv, CallTypeOK, Points
  <1>3. Sent' = Sent
    BY <1>1 DEF Sent
  <1>4. CleanCall'
    BY <1>1 DEF CleanCall
  <1> QED BY <1>1, <1>2, <1>3, <1>4, Silent DEF CallInv

\* The steps between the parts of a call.
LEMMA BetweenSteps ==
  ASSUME CallInv, LoopOnDeadBackend \/ LoopEnds \/ Leave PROVE CallInv'
  <1>1. /\ UNCHANGED <<input, readOffset, output, recv, send, skip, ready, alive, messages, answered>>
        /\ clean' \in {clean, FALSE}
    BY DEF LoopOnDeadBackend, LoopEnds, Leave, transport, postgres, history
  <1>2. \/ pc = "loop" /\ pc' \in {"loop", "longjmp", "leave", "fail"} /\ ~clean'
        \/ pc = "loop" /\ pc' = "leave" /\ recv = <<>> /\ ~(readOffset < Len(input))
        \/ pc = "leave" /\ pc' \in {"sendReady", "fail"}
    BY DEF LoopOnDeadBackend, LoopEnds, Leave, MoreToDo, history
  <1>3. CallTypeOK'
    BY <1>1, <1>2 DEF CallInv, CallTypeOK, Points
  <1>4. Sent' = Sent /\ (clean' => Due' = Due)
    BY <1>1, <1>2 DEF Sent, Due
  <1>8. clean' => clean
    <2>1. CASE clean' = clean
      BY <2>1, Zenon
    <2>2. CASE clean' = FALSE
      BY <2>2, Zenon
    <2> QED BY <1>1, <2>1, <2>2
  <1>9. pc # "idle" /\ pc' \notin {"startup", "sendConnData"}
    BY <1>2
  <1>5. MessagesInOrder' /\ AnswersInOrder' /\ StartingUp' /\ Unread' = Unread /\ Taken' = Taken
    BY <1>1, <1>4, <1>8, <1>9, Silent
  <1>6. pc' = "leave" /\ clean' => Unread = 0
    BY <1>2 DEF CallInv, CallTypeOK, Unread
  <1>7. CleanCall'
    BY <1>1, <1>2, <1>4, <1>5, <1>6 DEF CallInv, CleanCall
  <1> QED BY <1>3, <1>5, <1>7 DEF CallInv

\* The recovery from an SQL error owes what the round before left due.
LEMMA LongJmpStep ==
  ASSUME CallInv, LongJmp PROVE CallInv'
  <1>1. /\ pc = "longjmp" /\ ready' = ~skip
        /\ UNCHANGED <<input, readOffset, output, recv, send, skip, messages, answered>>
    BY DEF LongJmp, transport
  <1>2. /\ pc' \in {"loop", "fail"} /\ alive' \in BOOLEAN /\ clean' \in BOOLEAN
        /\ clean' => clean
    BY TrapIsTyped DEF CallInv, LongJmp, Points
  <1>3. CallTypeOK'
    BY <1>1, <1>2 DEF CallInv, CallTypeOK, Points
  <1>4. Sent' = Sent
    BY <1>1 DEF Sent
  <1>5. MessagesInOrder' /\ AnswersInOrder' /\ StartingUp' /\ Unread' = Unread /\ Taken' = Taken
    BY <1>1, <1>2, <1>4, Silent
  <1>6. pc' = "loop" => Due' = Due
    BY <1>1 DEF Due
  <1>7. CleanCall'
    BY <1>1, <1>2, <1>4, <1>5, <1>6 DEF CallInv, CleanCall
  <1> QED BY <1>3, <1>5, <1>7 DEF CallInv

\* Flush, and the return of the response.
LEMMA FlushStep ==
  ASSUME CallInv, Flush PROVE CallInv'
  <1>1. /\ pc = "flush"
        /\ UNCHANGED <<input, readOffset, recv, skip, ready, messages, answered>>
        /\ WriteOut \/ (pc' = "fail" /\ UNCHANGED <<send, output>>)
    BY DEF Flush
  <1>2. /\ pc' \in {"return", "fail"} /\ alive' \in BOOLEAN /\ clean' \in BOOLEAN
        /\ clean' => clean
    BY TrapIsTyped DEF CallInv, Flush, Points
  <1>3. /\ Sent' = Sent /\ output' \in Seq(Answers) /\ send' \in Seq(Answers)
        /\ pc' = "return" => send' = <<>>
    <2>1. CASE WriteOut
      <3>1. <<>> \in Seq(Answers)
        OBVIOUS
      <3> QED BY <1>1, <2>1, <3>1, WrittenOut DEF CallInv
    <2>2. CASE pc' = "fail" /\ UNCHANGED <<send, output>>
      BY <1>1, <2>2, Counts DEF CallInv, Sent
    <2> QED BY <1>1, <2>1, <2>2
  <1>4. CallTypeOK'
    BY <1>1, <1>2, <1>3 DEF CallInv, CallTypeOK, Points
  <1>5. MessagesInOrder' /\ AnswersInOrder' /\ StartingUp' /\ Unread' = Unread /\ Taken' = Taken
    BY <1>1, <1>2, <1>3, Silent
  <1>6. pc' = "return" => Due' = Due
    BY <1>1 DEF Due
  <1>7. CleanCall'
    BY <1>1, <1>2, <1>3, <1>5, <1>6 DEF CallInv, CleanCall
  <1> QED BY <1>4, <1>5, <1>7 DEF CallInv

LEMMA ReturnStep ==
  ASSUME CallInv, Return PROVE CallInv'
  <1>1. /\ pc = "return" /\ pc' = "idle" /\ answered' = answered \o output /\ output' = <<>>
        /\ UNCHANGED <<input, readOffset, recv, send, skip, ready, alive, messages, clean>>
    BY DEF Return, postgres
  <1>2. Sent' = Sent /\ answered' \in Seq(Answers)
    BY <1>1, Returned DEF CallInv
  <1>3. output' \in Seq(Answers)
    BY <1>1
  <1>4. CallTypeOK'
    BY <1>1, <1>2, <1>3 DEF CallInv, CallTypeOK, Points
  <1>5. MessagesInOrder' /\ AnswersInOrder' /\ StartingUp' /\ Unread' = Unread /\ Taken' = Taken
    BY <1>1, <1>2, Silent
  <1>6. Due' = Due
    BY <1>1 DEF Due
  <1>7. CleanCall'
    BY <1>1, <1>2, <1>5, <1>6 DEF CallInv, CleanCall
  <1> QED BY <1>4, <1>5, <1>7 DEF CallInv

\* The ReadyForQuery that is owed at the end of a call is said.
LEMMA SendReadyStep ==
  ASSUME CallInv, SendReady PROVE CallInv'
  <1>1. /\ pc = "sendReady" /\ Answer(Owed) /\ ready' = FALSE
        /\ UNCHANGED <<input, readOffset, recv, skip, messages, answered>>
    BY DEF SendReady
  <1>2. /\ pc' \in {"flush", "fail"} /\ alive' \in BOOLEAN /\ clean' \in BOOLEAN
        /\ clean' => clean
    BY TrapIsTyped DEF CallInv, SendReady, Points
  <1>3. /\ Sent' = Sent \o Owed
        /\ output' \in Seq(Answers) /\ send' \in Seq(Answers)
        /\ Sent \in Seq(Answers) /\ Owed \in Seq(Answers)
    BY <1>1, AnswerSaid, OwedIsTyped DEF CallInv
  <1>4. CallTypeOK'
    BY <1>1, <1>2, <1>3 DEF CallInv, CallTypeOK, Points
  <1>5. MessagesInOrder' /\ Unread' = Unread /\ Taken' = Taken
    BY <1>1, <1>2, Quiet
  <1>6. AnswersInOrder'
    <2>1. PICK k \in Nat : AnsweredTo(k)
      BY DEF CallInv, AnswersInOrder
    <2>2. Increasing(Owed) /\ \A i \in DOMAIN Owed : ~Telling(Owed[i])
      BY DEF Owed, Ready, Increasing, Telling
    <2>3. Increasing(Sent) /\ UpTo(Sent, k)
      BY <2>1 DEF AnsweredTo
    <2>4. Increasing(Sent \o Owed) /\ UpTo(Sent \o Owed, k)
      <3>1. k <= k
        OBVIOUS
      <3>2. \A i \in DOMAIN Owed :
              Telling(Owed[i]) => Owed[i].id > k /\ Owed[i].id <= k
        BY <2>2
      <3> QED BY <1>3, <2>2, <2>3, <3>1, <3>2, GoesOn
    <2>5. AnsweredTo(k)'
      BY <1>1, <1>2, <1>3, <2>1, <2>4, Quiet
    <2> QED BY <2>5 DEF AnswersInOrder
  <1>7. StartingUp'
    BY <1>2 DEF StartingUp
  <1>8. pc' = "flush" => Sent' \o Due' = Sent \o Due
    <2>1. pc' = "flush" => Due' = <<>> /\ Due = Owed
      BY <1>1 DEF Due, Owed
    <2>2. (Sent \o Owed) \o <<>> = Sent \o Owed
      BY <1>3, Joined, ConcatEmptySeq
    <2> QED BY <1>3, <2>1, <2>2
  <1>9. CleanCall'
    BY <1>1, <1>2, <1>5, <1>8 DEF CallInv, CleanCall
  <1> QED BY <1>4, <1>5, <1>6, <1>7, <1>9 DEF CallInv

\* A round takes the next message and answers that one.
LEMMA Rounds ==
  ASSUME CallInv, pc # "idle", NEW n \in Receivable, recv # <<>> \/ Unread > 0,
         recv' = Tail(Received(n)), readOffset' = readOffset + n,
         UNCHANGED <<input, messages>>, clean' => clean
  PROVE  LET m == Head(Received(n))
         IN /\ m \in Messages
            /\ recv' \in Seq(Messages) /\ readOffset' \in 0 .. Len(input)
            /\ MessagesInOrder'
            /\ Taken' = Taken + 1
            /\ clean => Taken + 1 \in 1 .. Len(messages) /\ m = messages[Taken + 1]
            /\ \A new \in Seq(Answers) :
                 /\ Sent' = Sent \o new /\ Increasing(new)
                 /\ \A i \in DOMAIN new : Telling(new[i]) => new[i].id = m.id
                 => AnswersInOrder'
  <1> DEFINE m == Head(Received(n))
  <1>1. PICK k \in Nat : AnsweredTo(k)
    BY DEF CallInv, AnswersInOrder
  <1>2. PICK j \in Nat :
           /\ k <= j /\ j + 1 <= Len(messages)
           /\ clean => j = Taken
           /\ m = messages[j + 1]
           /\ m \in Messages
           /\ (j + 1) + Len(recv') + Unread' <= Len(messages)
           /\ clean => (j + 1) + Len(recv') + Unread' = Len(messages)
           /\ \A i \in 1 .. Len(recv') : recv'[i] = messages[(j + 1) + i]
           /\ recv' \in Seq(Messages) /\ readOffset' \in 0 .. Len(input)
           /\ Taken' = Taken + 1
    BY <1>1, Taking DEF CallInv
  <1> HIDE DEF m
  <1>3. Len(messages) \in Nat /\ Sent \in Seq(Answers)
    BY Counts DEF CallInv
  <1>4. j + 1 \in 1 .. Len(messages) /\ j + 1 \in Nat /\ k <= j + 1
    BY <1>1, <1>2, <1>3
  <1>5. clean => Taken + 1 \in 1 .. Len(messages) /\ m = messages[Taken + 1]
    BY <1>2, <1>4
  <1>6. MessagesInOrder'
    BY DEF CallInv, MessagesInOrder
  <1>7. m.id = j + 1
    BY <1>2, <1>4 DEF CallInv, MessagesInOrder
  <1>8. ASSUME NEW new \in Seq(Answers), Sent' = Sent \o new, Increasing(new),
               \A i \in DOMAIN new : Telling(new[i]) => new[i].id = m.id
        PROVE  AnswersInOrder'
    <2>1. Increasing(Sent) /\ UpTo(Sent, k)
      BY <1>1 DEF AnsweredTo
    <2>2. \A i \in DOMAIN new : Telling(new[i]) => new[i].id > k /\ new[i].id <= j + 1
      BY <1>1, <1>2, <1>4, <1>7, <1>8
    <2>3. Increasing(Sent') /\ UpTo(Sent', j + 1)
      BY <1>1, <1>3, <1>4, <1>8, <2>1, <2>2, GoesOn
    <2>4. AnsweredTo(j + 1)'
      BY <1>2, <1>4, <2>3 DEF AnsweredTo
    <2> QED BY <1>4, <2>4 DEF AnswersInOrder
  <1> QED BY <1>2, <1>5, <1>6, <1>8 DEF m

\* A round of the loop: it takes a message, and its answer is the protocol's.
LEMMA LoopOnceStep ==
  ASSUME CallInv, LoopOnce PROVE CallInv'
  <1>1. PICK n \in Receivable :
           /\ recv' = Tail(Received(n)) /\ readOffset' = readOffset + n
           /\ Serve(Head(Received(n)))
    BY DEF LoopOnce
  <1>2. /\ pc = "loop" /\ UNCHANGED <<input, messages, answered>>
        /\ readOffset < Len(input) \/ recv # <<>>
    BY DEF LoopOnce, MoreToDo
  <1>3. recv # <<>> \/ Unread > 0
    BY <1>2 DEF CallInv, CallTypeOK, Unread
  <1> DEFINE m == Head(Received(n))
  <1>4. clean' => clean
    BY <1>1, <1>2 DEF CallInv, CallTypeOK, Serve
  <1>5. /\ m \in Messages
        /\ recv' \in Seq(Messages) /\ readOffset' \in 0 .. Len(input)
        /\ MessagesInOrder'
        /\ Taken' = Taken + 1
        /\ clean => Taken + 1 \in 1 .. Len(messages) /\ m = messages[Taken + 1]
        /\ \A new \in Seq(Answers) :
             /\ Sent' = Sent \o new /\ Increasing(new)
             /\ \A i \in DOMAIN new : Telling(new[i]) => new[i].id = m.id
             => AnswersInOrder'
    BY <1>1, <1>2, <1>3, <1>4, Rounds
  <1> HIDE DEF m
  <1>6. Serve(m)
    BY <1>1 DEF m
  <1>7. /\ \E new \in Seq(Answers) :
              /\ Sent' = Sent \o new /\ Increasing(new)
              /\ \A i \in DOMAIN new : Telling(new[i]) => new[i].id = m.id
        /\ output' \in Seq(Answers) /\ send' \in Seq(Answers)
        /\ {skip', ready', alive', clean'} \subseteq BOOLEAN
        /\ pc' \in {"loop", "longjmp", "leave", "fail"}
        /\ clean' => clean /\ pc' # "leave"
        /\ clean' /\ pc' # "fail" =>
             Reply([out |-> Sent \o Due, skip |-> skip], m)
               = [out |-> Sent' \o Due', skip |-> skip']
    BY <1>2, <1>5, <1>6, Serving DEF CallInv
  <1>8. CallTypeOK'
    BY <1>2, <1>5, <1>7 DEF CallInv, CallTypeOK, Points
  <1>9. AnswersInOrder'
    BY <1>5, <1>7
  <1>10. StartingUp'
    BY <1>7 DEF StartingUp
  <1>11. CleanCall'
    <2> SUFFICES ASSUME clean', pc' # "fail" PROVE CleanCall'
      BY DEF CleanCall
    <2>1. /\ clean /\ pc' \in {"loop", "longjmp"}
          /\ Reply([out |-> Sent \o Due, skip |-> skip], m)
               = [out |-> Sent' \o Due', skip |-> skip']
      BY <1>7
    <2>2. ReplyStates(messages)[Taken] = [out |-> Sent \o Due, skip |-> skip]
      BY <1>2, <2>1 DEF CallInv, CleanCall
    <2>3. messages \in Seq(Messages) /\ (Taken + 1) - 1 = Taken
      BY Counts DEF CallInv, CallTypeOK
    <2>4. ReplyStates(messages)[Taken + 1]
            = Reply(ReplyStates(messages)[(Taken + 1) - 1], messages[Taken + 1])
      BY <1>5, <2>1, <2>3, StatesAreReplies
    <2>5. ReplyStates(messages)[Taken'] = [out |-> Sent' \o Due', skip |-> skip']
      BY <1>5, <2>1, <2>2, <2>3, <2>4
    <2> QED BY <1>2, <2>1, <2>5 DEF CleanCall
  <1> QED BY <1>5, <1>8, <1>9, <1>10, <1>11 DEF CallInv

\* The startup handshake: one message, and nothing said before.
LEMMA StartupPacketStep ==
  ASSUME CallInv, StartupPacket PROVE CallInv'
  <1>1. PICK n \in Receivable :
           recv' = Tail(Received(n)) /\ readOffset' = readOffset + n
    BY DEF StartupPacket
  <1>2. /\ pc = "startup"
        /\ UNCHANGED <<input, output, send, skip, ready, messages, answered>>
    BY DEF StartupPacket
  <1>3. /\ pc' \in {"sendConnData", "fail"} /\ alive' \in BOOLEAN /\ clean' \in BOOLEAN
        /\ clean' => clean
    BY TrapIsTyped DEF CallInv, StartupPacket, Points
  <1>4. /\ Len(messages) = 1 /\ input = messages /\ messages[1].kind = "startup"
        /\ recv = <<>> /\ readOffset = 0
        /\ answered = <<>> /\ output = <<>> /\ send = <<>> /\ ~ready /\ ~skip
    BY <1>2 DEF CallInv, StartingUp
  <1>5. Unread = 1 /\ Unread > 0 /\ pc # "idle"
    BY <1>2, <1>4 DEF Unread
  <1> DEFINE fed == Received(n)
             m == Head(Received(n))
  <1>6. /\ m \in Messages
        /\ recv' \in Seq(Messages) /\ readOffset' \in 0 .. Len(input)
        /\ MessagesInOrder'
        /\ \A new \in Seq(Answers) :
             /\ Sent' = Sent \o new /\ Increasing(new)
             /\ \A i \in DOMAIN new : Telling(new[i]) => new[i].id = m.id
             => AnswersInOrder'
    BY <1>1, <1>2, <1>3, <1>5, Rounds
  <1>7. /\ n \in 0 .. Unread /\ fed \in Seq(Messages) /\ fed # <<>>
        /\ n = 0 => fed = recv
        /\ n # 0 => Len(fed) = n
    BY <1>5, Reading DEF CallInv
  <1>8. recv' = Tail(fed)
    BY <1>1
  <1> HIDE DEF m, fed
  <1>9. n = 1 /\ Len(fed) = 1
    <2>1. n # 0
      BY <1>4, <1>7
    <2>2. n = 1
      BY <1>5, <1>7, <2>1
    <2> QED BY <1>7, <2>1, <2>2
  <1>10. recv' = <<>> /\ readOffset' = 1
    <2>1. Len(recv') = 0
      BY <1>7, <1>8, <1>9, HeadTailProperties
    <2> QED BY <1>1, <1>4, <1>6, <1>9, <2>1
  <1>11. CallTypeOK'
    BY <1>2, <1>3, <1>6 DEF CallInv, CallTypeOK, Points
  <1>12. AnswersInOrder'
    <2>1. Sent' = Sent \o <<>> /\ <<>> \in Seq(Answers)
      BY <1>2, Counts, ConcatEmptySeq DEF CallInv, Sent
    <2>2. Increasing(<<>>) /\ \A i \in DOMAIN <<>> : Telling(<<>>[i]) => <<>>[i].id = m.id
      BY DEF Increasing
    <2> QED BY <1>6, <2>1, <2>2
  <1>13. StartingUp'
    BY <1>2, <1>3, <1>4, <1>10 DEF StartingUp
  <1>14. CleanCall'
    BY <1>3 DEF CleanCall
  <1> QED BY <1>6, <1>11, <1>12, <1>13, <1>14 DEF CallInv

LEMMA SendConnDataStep ==
  ASSUME CallInv, SendConnData PROVE CallInv'
  <1> DEFINE m == input[1]
  <1>1. /\ pc = "sendConnData" /\ Answer(<<Ok(m)>>)
        /\ UNCHANGED <<input, readOffset, recv, skip, ready, messages, answered>>
    BY DEF SendConnData
  <1>2. /\ pc' \in {"flush", "fail"} /\ alive' \in BOOLEAN /\ clean' \in BOOLEAN
        /\ clean' => clean
    BY TrapIsTyped DEF CallInv, SendConnData, Points
  <1>3. /\ Len(messages) = 1 /\ m = messages[1] /\ messages[1].kind = "startup"
        /\ recv = <<>> /\ readOffset = 1 /\ Len(input) = 1
        /\ answered = <<>> /\ output = <<>> /\ send = <<>> /\ ~ready /\ ~skip
    BY <1>1 DEF CallInv, StartingUp
  <1>4. m \in Messages /\ m.id = 1
    <2>1. messages \in Seq(Messages)
      BY DEF CallInv, CallTypeOK
    <2>2. \A i \in 1 .. Len(messages) : messages[i].id = i
      BY DEF CallInv, MessagesInOrder
    <2>3. 1 \in 1 .. Len(messages)
      BY <1>3
    <2>4. messages[1] \in Messages
      BY <2>1, <2>3, ElementOfSeq
    <2>5. messages[1].id = 1
      BY <2>2, <2>3
    <2>6. m = messages[1]
      BY <1>3
    <2> HIDE DEF m
    <2> QED BY <2>4, <2>5, <2>6
  <1>5. Unread = 0 /\ Taken = 1 /\ Sent = <<>>
    BY <1>3, ConcatEmptySeq, EmptySeq DEF Unread, Taken, Sent
  <1> DEFINE new == <<Ok(m)>>
  <1>6. Ok(m) \in Answers /\ Ok(m).id = 1
    BY <1>4 DEF Ok, Answers, Messages
  <1>7. new \in Seq(Answers) /\ Len(new) = 1 /\ new[1].id = 1
    BY <1>6
  <1> HIDE DEF m, new
  <1>8. /\ Sent' = new
        /\ output' \in Seq(Answers) /\ send' \in Seq(Answers)
    <2>1. /\ Sent' = Sent \o new
          /\ output' \in Seq(Answers) /\ send' \in Seq(Answers)
      BY <1>1, <1>7, AnswerSaid DEF CallInv, new
    <2>2. <<>> \o new = new
      BY <1>7, ConcatEmptySeq
    <2> QED BY <1>5, <2>1, <2>2
  <1>9. CallTypeOK'
    BY <1>1, <1>2, <1>8 DEF CallInv, CallTypeOK, Points
  <1>10. MessagesInOrder' /\ Unread' = Unread /\ Taken' = Taken
    BY <1>1, <1>2, Quiet
  <1>11. AnswersInOrder'
    <2>1. Increasing(new) /\ UpTo(new, 1)
      BY <1>7 DEF Increasing, UpTo
    <2>2. Len(recv) = 0 /\ Len(messages) \in Nat
      BY <1>3
    <2>3. AnsweredTo(1)'
      BY <1>1, <1>3, <1>5, <1>8, <1>10, <2>1, <2>2 DEF AnsweredTo
    <2> QED BY <2>3 DEF AnswersInOrder
  <1>12. StartingUp'
    BY <1>2 DEF StartingUp
  <1>13. CleanCall'
    <2> SUFFICES ASSUME clean', pc' # "fail" PROVE CleanCall'
      BY DEF CleanCall
    <2>1. messages \in Seq(Messages) /\ m = messages[1] /\ m.kind = "startup" /\ skip = FALSE
      BY <1>3 DEF CallInv, CallTypeOK
    <2>2. /\ ReplyStates(messages)[0] = Silence
          /\ ReplyStates(messages)[1] = Reply(ReplyStates(messages)[0], m)
      <3>1. 1 \in 1 .. Len(messages) /\ 1 - 1 = 0
        BY <1>3
      <3> QED BY <2>1, <3>1, StatesAreReplies
    <2>3. Reply([out |-> <<>>, skip |-> FALSE], m) = [out |-> <<>> \o <<Ok(m)>>, skip |-> FALSE]
      BY <2>1, ReplyByKind
    <2>4. <<>> \o new = new /\ new \o <<>> = new
      BY <1>7, ConcatEmptySeq
    <2>5. Due' = <<>>
      BY <1>1, <1>2, <1>3 DEF Due
    <2>6. ReplyStates(messages)[1] = [out |-> Sent' \o Due', skip |-> skip']
      BY <1>1, <1>8, <2>1, <2>2, <2>3, <2>4, <2>5 DEF Silence, new
    <2> QED BY <1>1, <1>2, <1>3, <1>5, <1>10, <2>6 DEF CleanCall
  <1> QED BY <1>9, <1>10, <1>11, <1>12, <1>13 DEF CallInv

\* A call begins: what a failed call left in the output is lost, and the rest keeps
\* its order.
LEMMA BeginStep ==
  ASSUME CallInv, Begin PROVE CallInv'
  <1>1. PICK kinds \in Batches :
           /\ Len(messages) + Len(kinds) <= MaxMessages
           /\ kinds[1] = "startup" => messages = <<>>
           /\ messages' = messages \o Numbered(kinds)
           /\ BeginTransport(Numbered(kinds))
           /\ IF kinds[1] = "startup" THEN pc' = "startup" ELSE pc' \in {"loop", "fail"}
    BY DEF Begin
  <1>2. pc = "idle" /\ UNCHANGED <<recv, send, skip, ready, alive, answered, clean>>
    BY DEF Begin, postgres
  <1> DEFINE new == Numbered(kinds)
             L == Len(messages)
  <1>3. /\ new \in Seq(Messages) /\ Len(new) \in Nat \ {0}
        /\ \A i \in 1 .. Len(new) : new[i].id = Len(messages) + i
        /\ kinds[1] = "startup" => Len(new) = 1 /\ new[1].kind = "startup"
    BY <1>1, Numbering DEF CallInv
  <1>4. messages' = messages \o new /\ input' = new /\ output' = <<>> /\ readOffset' = 0
    BY <1>1 DEF BeginTransport
  <1>5. /\ L \in Nat /\ Len(recv) \in Nat /\ Unread \in Nat
        /\ answered \in Seq(Answers) /\ output \in Seq(Answers)
        /\ send \in Seq(Answers)
        /\ messages \in Seq(Messages)
    BY Counts DEF CallInv, CallTypeOK
  <1> HIDE DEF new
  <1>6. /\ messages' \in Seq(Messages) /\ Len(messages') = L + Len(new)
        /\ \A i \in 1 .. L : messages'[i] = messages[i]
        /\ \A i \in 1 .. Len(new) : messages'[L + i] = new[i]
    <2>1. /\ messages' \in Seq(Messages) /\ Len(messages') = L + Len(new)
          /\ \A i \in 1 .. Len(messages) + Len(new) :
               messages'[i] = IF i <= Len(messages) THEN messages[i] ELSE new[i - Len(messages)]
      BY <1>3, <1>4, <1>5, ConcatProperties
    <2>2. \A i \in 1 .. L : messages'[i] = messages[i]
      BY <1>3, <1>5, <2>1
    <2>3. \A i \in 1 .. Len(new) :
            L + i \in 1 .. Len(messages) + Len(new) /\ ~(L + i <= Len(messages)) /\ (L + i) - Len(messages) = i
      BY <1>3, <1>5
    <2>4. \A i \in 1 .. Len(new) : messages'[L + i] = new[i]
      BY <2>1, <2>3
    <2> QED BY <2>1, <2>2, <2>4
  <1>7. CallTypeOK'
    <2>1. pc' \in Points /\ output' \in Seq(Answers) /\ readOffset' \in 0 .. Len(input')
          /\ input' \in Seq(Messages)
      BY <1>1, <1>3, <1>4 DEF Points
    <2> QED BY <1>2, <1>6, <2>1 DEF CallInv, CallTypeOK
  <1>8. MessagesInOrder'
    <2>1. \A i \in 1 .. Len(messages') : messages'[i].id = i
      <3> SUFFICES ASSUME NEW i \in 1 .. L + Len(new) PROVE messages'[i].id = i
        BY <1>6
      <3>1. CASE i \in 1 .. L
        BY <1>6, <3>1 DEF CallInv, MessagesInOrder
      <3>2. CASE i \notin 1 .. L
        <4>1. i - L \in 1 .. Len(new) /\ L + (i - L) = i
          BY <1>3, <1>5, <3>2
        <4>2. messages'[i] = new[i - L] /\ new[i - L].id = L + (i - L)
          BY <1>3, <1>6, <4>1
        <4> QED BY <4>1, <4>2
      <3> QED BY <3>1, <3>2
    <2>2. Len(input') <= Len(messages')
      BY <1>3, <1>4, <1>5, <1>6
    <2>3. \A i \in 1 .. Len(input') : input'[i] = messages'[Len(messages') - Len(input') + i]
      <3>1. Len(messages') - Len(input') = L
        BY <1>3, <1>4, <1>5, <1>6
      <3> QED BY <1>4, <1>6, <3>1
    <2>4. messages' # <<>>
      BY <1>3, <1>5, <1>6
    <2> QED BY <2>1, <2>2, <2>3, <2>4 DEF MessagesInOrder
  <1>9. Unread' = Len(new)
    BY <1>3, <1>4 DEF Unread
  <1>10. answered' = answered /\ Sent' = answered \o send
    BY <1>2, <1>4, <1>5, ConcatEmptySeq DEF Sent
  <1>11. AnswersInOrder'
    <2>1. PICK k \in Nat : AnsweredTo(k)
      BY DEF CallInv, AnswersInOrder
    <2>2. Increasing(Sent') /\ UpTo(Sent', k)
      BY <1>5, <1>10, <2>1, LossKeepsOrder DEF AnsweredTo, Sent
    <2>3. /\ k + Len(recv) + Unread <= L
          /\ clean => k + Len(recv) + Unread = L
          /\ \A i \in 1 .. Len(recv) : recv[i] = messages[k + i]
      BY <2>1 DEF AnsweredTo
    <2>4. clean => Unread = 0
      BY <1>2 DEF CallInv, CleanCall
    <2>5. /\ k + Len(recv') + Unread' <= Len(messages')
          /\ clean' => k + Len(recv') + Unread' = Len(messages')
      <3> DEFINE u == Unread
                 v == Unread'
                 w == Len(new)
                 r == Len(recv)
                 M == Len(messages')
      <3>1. /\ u \in Nat /\ v = w /\ w \in Nat /\ r \in Nat /\ M = L + w /\ L \in Nat
            /\ k + r + u <= L
            /\ clean => k + r + u = L
            /\ clean => u = 0
            /\ recv' = recv /\ clean' = clean
        BY <1>2, <1>3, <1>5, <1>6, <1>9, <2>3, <2>4
      <3> HIDE DEF u, v, w, r, M, L
      <3>2. /\ k + r + v <= M
            /\ clean => k + r + v = M
        BY <3>1
      <3> QED BY <3>1, <3>2 DEF v, r, M
    <2>6. \A i \in 1 .. Len(recv) : k + i \in 1 .. L
      BY <1>5, <2>3
    <2>7. \A i \in 1 .. Len(recv') : recv'[i] = messages'[k + i]
      BY <1>2, <1>6, <2>3, <2>6
    <2>8. AnsweredTo(k)'
      BY <2>2, <2>5, <2>7 DEF AnsweredTo
    <2> QED BY <2>8 DEF AnswersInOrder
  <1>12. StartingUp'
    <2> SUFFICES ASSUME pc' = "startup" PROVE StartingUp'
      BY <1>1 DEF StartingUp
    <2>1. messages = <<>> /\ Len(new) = 1 /\ new[1].kind = "startup"
      BY <1>1, <1>3
    <2>2. messages' = new
      BY <1>3, <1>4, <2>1, ConcatEmptySeq
    <2>3. recv = <<>> /\ answered = <<>> /\ send = <<>> /\ ~ready /\ ~skip
      BY <2>1 DEF CallInv, MessagesInOrder
    <2> QED BY <1>2, <1>4, <2>1, <2>2, <2>3 DEF StartingUp
  <1>13. CleanCall'
    <2> SUFFICES ASSUME clean', pc' # "fail" PROVE CleanCall'
      BY DEF CleanCall
    <2>1. /\ clean /\ recv = <<>> /\ Unread = 0 /\ ~ready /\ send = <<>> /\ output = <<>>
          /\ ReplyStates(messages)[Taken] = [out |-> Sent \o Due, skip |-> skip]
      BY <1>2 DEF CallInv, CleanCall
    <2>2. Taken = L /\ Taken' = L
      BY <1>2, <1>3, <1>5, <1>6, <1>9, <2>1 DEF Taken
    <2>3. Due = <<>> /\ Due' = <<>>
      BY <1>1, <1>2, <2>1 DEF Due
    <2>4. Sent' = Sent
      BY <1>5, <1>10, <2>1, ConcatEmptySeq DEF Sent
    <2>5. ReplyStates(messages')[L] = ReplyStates(messages)[L]
      <3>1. L \in 0 .. Len(messages)
        BY <1>5
      <3>2. ReplyStates(messages \o new)[L] = ReplyStates(messages)[L]
        BY <1>3, <1>5, <3>1, StatesStay
      <3> QED BY <1>4, <3>2
    <2>6. ReplyStates(messages')[Taken'] = [out |-> Sent' \o Due', skip |-> skip']
      BY <1>2, <2>1, <2>2, <2>3, <2>4, <2>5
    <2> QED BY <1>1, <2>6 DEF CleanCall
  <1> QED BY <1>7, <1>8, <1>11, <1>12, <1>13 DEF CallInv

\* The invariant holds at first, through every step, and says what was meant.
LEMMA CallStarts == CallInit => CallInv
  <1> SUFFICES ASSUME CallInit PROVE CallInv
    OBVIOUS
  <1>1. /\ pc = "idle" /\ input = <<>> /\ readOffset = 0 /\ output = <<>> /\ recv = <<>>
        /\ send = <<>> /\ skip = FALSE /\ ready = FALSE /\ alive = TRUE /\ messages = <<>>
        /\ answered = <<>> /\ clean = TRUE
    BY DEF CallInit
  <1>2. CallTypeOK
    <2>1. \A S : <<>> \in Seq(S) /\ Len(<<>>) = 0
      BY EmptySeq
    <2>2. /\ pc \in Points /\ readOffset \in 0 .. Len(input)
          /\ skip \in BOOLEAN /\ ready \in BOOLEAN /\ alive \in BOOLEAN /\ clean \in BOOLEAN
      <3>1. Len(<<>>) = 0
        BY <2>1
      <3>2. Len(input) = 0
        BY <1>1, <3>1
      <3>3. readOffset \in 0 .. Len(input)
        <4>1. readOffset = 0
          BY <1>1
        <4> QED BY <3>2, <4>1
      <3>4. pc \in Points
        <4>1. pc = "idle"
          BY <1>1
        <4> QED BY <4>1 DEF Points
      <3> QED BY <1>1, <3>3, <3>4
    <2>3. /\ input \in Seq(Messages) /\ recv \in Seq(Messages)
          /\ messages \in Seq(Messages) /\ output \in Seq(Answers)
          /\ send \in Seq(Answers) /\ answered \in Seq(Answers)
      BY <1>1, <2>1
    <2> QED BY <2>2, <2>3 DEF CallTypeOK
  <1>3. Sent = <<>> /\ Unread = 0 /\ Taken = 0 /\ Due = <<>>
    <2>1. <<>> \in Seq({}) /\ Len(<<>>) = 0
      BY EmptySeq
    <2>2. <<>> \o <<>> = <<>>
      BY <2>1, ConcatEmptySeq
    <2>3. Unread = 0
      BY <1>1, <2>1 DEF Unread
    <2> QED BY <1>1, <2>1, <2>2, <2>3 DEF Sent, Taken, Due
  <1>4. MessagesInOrder /\ StartingUp
    BY <1>1 DEF MessagesInOrder, StartingUp
  <1>5. AnsweredTo(0)
    BY <1>1, <1>3 DEF AnsweredTo, Increasing, UpTo
  <1>6. ReplyStates(messages)[0] = Silence
    BY <1>2, StatesAreReplies DEF CallTypeOK
  <1>7. <<>> \o <<>> = <<>>
    BY ConcatEmptySeq, EmptySeq
  <1>8. CleanCall
    BY <1>1, <1>3, <1>6, <1>7 DEF CleanCall, Silence
  <1> QED BY <1>2, <1>4, <1>5, <1>8 DEF CallInv, AnswersInOrder

LEMMA CallContinues ==
  ASSUME CallInv, [CallNext]_callVars PROVE CallInv'
  <1>1. CASE UNCHANGED callVars
    BY <1>1 DEF callVars, CallInv, CallTypeOK, MessagesInOrder, AnswersInOrder, AnsweredTo,
                StartingUp, CleanCall, Sent, Due, Taken, Unread
  <1>2. CASE CallNext
    BY <1>2, BeginStep, StartupPacketStep, SendConnDataStep, LoopOnceStep, BetweenSteps,
       LongJmpStep, SendReadyStep, FlushStep, ReturnStep, FailStep DEF CallNext
  <1> QED BY <1>1, <1>2

LEMMA PipeFromInv == CallInv => CallsArePipe
  <1> SUFFICES ASSUME CallInv PROVE CallsArePipe
    OBVIOUS
  <1>1. /\ Sent \in Seq(Answers) /\ Len(messages) \in Nat
        /\ answered \in Seq(Answers) /\ output \in Seq(Answers)
        /\ send \in Seq(Answers)
    BY Counts DEF CallInv
  <1>2. ASSUME pc = "idle", clean PROVE answered = ReplyTo(messages)
    <2>1. /\ recv = <<>> /\ Unread = 0 /\ ~ready /\ send = <<>> /\ output = <<>>
          /\ ReplyStates(messages)[Taken] = [out |-> Sent \o Due, skip |-> skip]
      BY <1>2 DEF CallInv, CleanCall
    <2>2. Taken = Len(messages) /\ Due = <<>>
      BY <1>1, <1>2, <2>1 DEF Taken, Due
    <2>3. Sent = answered /\ Sent \o <<>> = Sent
      BY <1>1, <2>1, ConcatEmptySeq DEF Sent
    <2> QED BY <2>1, <2>2, <2>3 DEF ReplyTo
  <1>3. ASSUME NEW i \in DOMAIN answered, NEW j \in DOMAIN answered, i # j,
               answered[i].mark # "ready"
        PROVE  answered[i] # answered[j]
    <2>1. Increasing(Sent)
      BY DEF CallInv, AnswersInOrder, AnsweredTo
    <2>2. /\ DOMAIN answered \subseteq DOMAIN Sent /\ DOMAIN answered \subseteq Nat
          /\ \A x \in DOMAIN answered : Sent[x] = answered[x]
      <3> DEFINE kept == output \o send
      <3>1. kept \in Seq(Answers) /\ Sent = answered \o kept
        BY <1>1, Joined DEF Sent
      <3> HIDE DEF kept
      <3>2. /\ Len(Sent) = Len(answered) + Len(kept)
            /\ \A x \in 1 .. Len(answered) + Len(kept) :
                 Sent[x] = IF x <= Len(answered) THEN answered[x] ELSE kept[x - Len(answered)]
        BY <1>1, <3>1, Joined
      <3> QED BY <1>1, <3>1, <3>2
    <2>3. answered[i] \in Answers /\ answered[i].id \in Nat
      BY <1>1 DEF Answers, Ready, Ids
    <2> SUFFICES ASSUME answered[i] = answered[j] PROVE FALSE
      OBVIOUS
    <2>4. Telling(Sent[i]) /\ Telling(Sent[j]) /\ Sent[i] = Sent[j] /\ Sent[i].id \in Nat
      BY <1>3, <2>2, <2>3 DEF Telling
    <2>5. i < j \/ j < i
      BY <1>3, <2>2
    <2> QED BY <2>1, <2>2, <2>4, <2>5 DEF Increasing
  <1> QED BY <1>2, <1>3 DEF CallsArePipe

\* The types of a call (CallTypeOK): in particular the read offset never
\* passes the end of the input, for requests of any length.
THEOREM CallTypes == CallSpec => []CallTypeOK
  <1>1. CallInv => CallTypeOK
    BY DEF CallInv
  <1> QED BY <1>1, CallStarts, CallContinues, PTL DEF CallSpec

\* CallsArePipe: however requests are cut into calls, pieces and
\* writes, the responses are the protocol's reply to the messages as long as no call
\* has failed, and no answer is ever returned twice.
THEOREM CallsAreOnePipe == CallSpec => []CallsArePipe
  BY PipeFromInv, CallStarts, CallContinues, PTL DEF CallSpec
=============================================================================
