------------------------------ MODULE NsStream ------------------------------
(***************************************************************************)
(* A streamed request body of the NSURLSession backend: the parts that      *)
(* build_data_task makes of it (client.rs, multipart.rs), the StreamWriter *)
(* the request future or thread drives (stream/writer.rs), and the          *)
(* InputStream (stream/ns_stream.rs) it fills and Foundation drains from a  *)
(* run loop.  The buffer between them is under a mutex that a read only    *)
(* tries.  A byte is a token <<kind, part, index>>.                        *)
(***************************************************************************)
EXTENDS Naturals, Sequences, SequencesExt

CONSTANTS
  Clients,   \* which of "async" and "blocking"
  Bodies,    \* streamed bodies: multipart or not, and their parts
  Capacity,  \* STREAM_BUFFER_SIZE, of the InputStream and of the writer
  MaxRead    \* bound: the largest read of Foundation

VARIABLES
  conf,      \* the client and the body
  parts,     \* StreamWriter::data_parts; what its streams have not given yet
  range,     \* the bytes of buffer_range, obtained and not yet written
  pc,        \* where the request future, or thread, is
  wakes,     \* its waker: registered, and whether it was woken
  opened,    \* is_open
  attached,  \* delegate, run_loop and run_loop_mode are set
  pipe,      \* stream_buffer: Ok or Err, its bytes and capacity
  eof,
  locked,    \* the writer holds the lock of stream_buffer
  events,    \* blocks scheduled on the run loop
  stack,     \* where Foundation is with the stream
  sent       \* what it has read

vars == <<conf, parts, range, pc, wakes, opened, attached, pipe, eof, locked,
          events, stack, sent>>
writerVars == <<parts, range, pc>>
pipeVars == <<pipe, eof, events>>

-----------------------------------------------------------------------------
(* The parts of a body.                                                    *)

Text(i, n) == [k \in 1..n |-> <<"text", i, k>>]
Data(bytes) == [stream |-> FALSE, bytes |-> bytes]
Stream(bytes) == [stream |-> TRUE, bytes |-> bytes]

\* generate_multipart_body: a data part before, between and after the streams.
GenerateMultipart(ps) ==
  LET Add(acc, i) ==
        LET body == Append(acc.body, <<"header", i, 0>>)
            content == Text(i, ps[i].len) IN
        IF ps[i].stream
          THEN [ret |-> acc.ret \o <<Data(body), Stream(content)>>,
                body |-> <<<<"crlf", i, 0>>>>]
          ELSE [acc EXCEPT !.body = Append(body \o content, <<"crlf", i, 0>>)]
      all == FoldLeft(Add, [ret |-> <<>>, body |-> <<>>], [i \in 1..Len(ps) |-> i])
  IN Append(all.ret, Data(Append(all.body, <<"boundary", 0, 0>>)))

\* build_data_task's stream_parts.
BuildDataTask(body) ==
  IF body.multipart THEN GenerateMultipart(body.parts)
  ELSE <<Stream(Text(1, body.parts[1].len))>>

\* get_range_of_part: the bytes of a data part are there at once.
GetRange(ps) == IF ps = <<>> \/ ps[1].stream THEN <<>> ELSE ps[1].bytes

Init ==
  /\ conf \in [client: Clients, body: Bodies]
  /\ parts = BuildDataTask(conf.body) /\ range = GetRange(parts)
  /\ pc = "check" /\ wakes = [registered |-> FALSE, woken |-> FALSE]
  /\ opened = FALSE /\ attached = FALSE
  /\ pipe = [ok |-> TRUE, bytes |-> <<>>, capacity |-> Capacity]
  /\ eof = FALSE /\ locked = FALSE /\ events = 0
  /\ stack = "new" /\ sent = <<>>

\* GenericWaker::wake: an AtomicWaker, or the parked thread's token.
Wake ==
  wakes' = [registered |-> FALSE,
            woken |-> wakes.woken \/ conf.client = "blocking" \/ wakes.registered]

-----------------------------------------------------------------------------
(* The writer, in a poll of the future or a round of the blocking loop.    *)

\* poll_progress asks whether the stream is open; the response may be there first.
Check ==
  /\ pc = "check"
  /\ pc' \in {IF opened THEN "progress" ELSE "register", "gone"}
  /\ UNCHANGED <<conf, parts, range, wakes, opened, attached, pipeVars, locked,
                 stack, sent>>

\* The end of the poll or round.
Register ==
  /\ pc = "register" /\ pc' = "parked"
  /\ wakes' = [wakes EXCEPT !.registered = TRUE]
  /\ UNCHANGED <<conf, parts, range, opened, attached, pipeVars, locked, stack, sent>>

\* The future is polled again; park() returns.
Resumed ==
  /\ pc = "parked" /\ wakes.woken
  /\ pc' = "check"
  /\ wakes' = [wakes EXCEPT !.woken = FALSE]
  /\ UNCHANGED <<conf, parts, range, opened, attached, pipeVars, locked, stack, sent>>

ShiftPart == parts' = Tail(parts) /\ range' = GetRange(Tail(parts))

\* A read of the caller's stream into the writer's buffer.
ReadPart ==
  LET rest == parts[1].bytes IN
  \/ \E n \in 1..Capacity :
       /\ n <= Len(rest)
       /\ range' = SubSeq(rest, 1, n)
       /\ parts' = [parts EXCEPT ![1].bytes = SubSeq(rest, n + 1, Len(rest))]
       /\ pc' = "write"
  \/ rest = <<>> /\ ShiftPart /\ UNCHANGED pc
  \/ pc' = "write error" /\ UNCHANGED <<parts, range>>
  \/ conf.client = "async" /\ pc' = "register" /\ UNCHANGED <<parts, range>>

\* poll_progress_once, up to the call of write.
Progress ==
  /\ pc = "progress"
  /\ \/ /\ parts = <<>> \/ range # <<>>
        /\ pc' = "write" /\ UNCHANGED <<parts, range>>
     \/ /\ parts # <<>> /\ range = <<>> /\ ~parts[1].stream
        /\ ShiftPart /\ UNCHANGED pc
     \/ /\ parts # <<>> /\ range = <<>> /\ parts[1].stream
        /\ ReadPart
  /\ UNCHANGED <<conf, wakes, opened, attached, pipeVars, locked, stack, sent>>

\* A caller's stream that was pending becomes ready.
StreamReady ==
  /\ conf.client = "async" /\ pc = "parked"
  /\ parts # <<>> /\ parts[1].stream /\ range = <<>>
  /\ wakes' = [wakes EXCEPT !.woken = TRUE]
  /\ UNCHANGED <<conf, writerVars, opened, attached, pipeVars, locked, stack, sent>>

Lock ==
  /\ pc \in {"write", "write error"} /\ ~locked
  /\ locked' = TRUE
  /\ UNCHANGED <<conf, writerVars, wakes, opened, attached, pipeVars, stack, sent>>

\* notify_stream_state: a block on the run loop, if there is one.
Notify == events' = IF attached THEN events + 1 ELSE events

\* The number of bytes of the range there is room for.
Written ==
  LET room == pipe.capacity - Len(pipe.bytes) IN
  IF ~pipe.ok THEN 0 ELSE IF Len(range) < room THEN Len(range) ELSE room

\* Variant of Write: the end has no event of its own.
WriteSilentEnd ==
  /\ pc = "write" /\ locked /\ locked' = FALSE
  /\ pipe' = [pipe EXCEPT !.bytes = @ \o SubSeq(range, 1, Written)]
  /\ range' = SubSeq(range, Written + 1, Len(range))
  /\ eof' = (eof \/ (pipe.ok /\ range = <<>>))
  /\ IF pipe.ok /\ range # <<>> THEN Notify ELSE UNCHANGED events
  /\ pc' = IF Written = 0 THEN "register" ELSE "progress"
  /\ UNCHANGED <<conf, parts, wakes, opened, attached, stack, sent>>

\* write of some bytes, or of none: the end, which needs an event of its own only
\* when no byte is left to be read before it.
Write ==
  /\ pc = "write" /\ locked /\ locked' = FALSE
  /\ pipe' = [pipe EXCEPT !.bytes = @ \o SubSeq(range, 1, Written)]
  /\ range' = SubSeq(range, Written + 1, Len(range))
  /\ eof' = (eof \/ (pipe.ok /\ range = <<>>))
  /\ IF pipe.ok /\ (range # <<>> \/ (~eof /\ pipe.bytes = <<>>))
       THEN Notify ELSE UNCHANGED events
  /\ pc' = IF Written = 0 THEN "register" ELSE "progress"
  /\ UNCHANGED <<conf, parts, wakes, opened, attached, stack, sent>>

\* write of an error, which also ends the request.
WriteError ==
  /\ pc = "write error" /\ locked /\ locked' = FALSE
  /\ pipe' = [pipe EXCEPT !.ok = FALSE, !.bytes = <<>>]
  /\ Notify
  /\ pc' = "gone"
  /\ UNCHANGED <<conf, parts, range, wakes, opened, attached, eof, stack, sent>>

-----------------------------------------------------------------------------
(* Foundation, on the run loop.                                            *)

\* setDelegate and scheduleInRunLoop, then open.
Attach ==
  /\ stack = "new" /\ stack' = "attached" /\ attached' = TRUE
  /\ UNCHANGED <<conf, writerVars, wakes, opened, pipeVars, locked, sent>>

Open ==
  /\ stack = "attached" /\ stack' = "waiting" /\ opened' = TRUE
  /\ Wake
  /\ UNCHANGED <<conf, writerVars, attached, pipeVars, locked, sent>>

\* Variant of Event: the end as soon as the writer has said so.
EventEofFirst ==
  CASE pipe.ok /\ eof -> "ended"
    [] pipe.ok /\ ~eof /\ pipe.bytes # <<>> -> "reading"
    [] ~pipe.ok -> "failed"
    [] OTHER -> "waiting"

\* What a block finds when it runs: bytes, the end, an error, or nothing any more.
Event ==
  CASE pipe.ok /\ pipe.bytes # <<>> -> "reading"
    [] pipe.ok /\ pipe.bytes = <<>> /\ eof -> "ended"
    [] ~pipe.ok -> "failed"
    [] OTHER -> "waiting"

RunBlock ==
  /\ stack = "waiting" /\ events > 0 /\ ~locked
  /\ events' = events - 1
  /\ stack' = Event
  /\ UNCHANGED <<conf, writerVars, wakes, opened, attached, pipe, eof, locked, sent>>

\* read:maxLength: while the writer has the lock it finds nothing; otherwise it
\* wakes the writer and takes what fits.
Read(max) ==
  /\ stack = "reading"
  /\ \/ /\ locked
        /\ stack' = "asking"
        /\ UNCHANGED <<wakes, pipe, sent>>
     \/ /\ ~locked /\ pipe.ok
        /\ LET bytes == pipe.bytes
               n == IF max < Len(bytes) THEN max ELSE Len(bytes) IN
             /\ sent' = sent \o SubSeq(bytes, 1, n)
             /\ pipe' = [pipe EXCEPT !.bytes = SubSeq(bytes, n + 1, Len(bytes))]
        /\ stack' = "asking"
        /\ Wake
     \/ /\ ~locked /\ ~pipe.ok
        /\ stack' = "failed"
        /\ UNCHANGED <<wakes, pipe, sent>>
  /\ UNCHANGED <<conf, writerVars, opened, attached, eof, events, locked>>

\* After a read, whatever it found, Foundation asks for hasBytesAvailable, and then for
\* streamStatus; it does not take a read of nothing for the end by itself.
HasBytesAvailable ==
  /\ stack = "asking" /\ ~locked
  /\ stack' = IF pipe.ok /\ pipe.bytes # <<>> THEN "reading" ELSE "status"
  /\ UNCHANGED <<conf, writerVars, wakes, opened, attached, pipeVars, locked, sent>>

StreamStatus ==
  /\ stack = "status" /\ ~locked
  /\ stack' = IF ~pipe.ok THEN "failed"
              ELSE IF pipe.bytes = <<>> /\ eof THEN "ended" ELSE "waiting"
  /\ UNCHANGED <<conf, writerVars, wakes, opened, attached, pipeVars, locked, sent>>

\* Foundation gives the body up: close, and removeFromRunLoop.
Close ==
  /\ stack \notin {"new", "ended", "failed", "closed"} /\ ~locked
  /\ stack' = "closed" /\ attached' = FALSE
  /\ pipe' = IF pipe.ok THEN [pipe EXCEPT !.bytes = <<>>, !.capacity = 0] ELSE pipe
  /\ UNCHANGED <<conf, writerVars, wakes, opened, eof, events, locked, sent>>

-----------------------------------------------------------------------------

Caller == Check \/ Register \/ Resumed \/ Progress \/ Lock \/ Write \/ WriteError
RunLoop ==
  RunBlock \/ (\E max \in 1..MaxRead : Read(max)) \/ HasBytesAvailable \/ StreamStatus

Next == Caller \/ RunLoop \/ StreamReady \/ Attach \/ Open \/ Close

Spec == Init /\ [][Next]_vars

\* The thread of a blocking caller and the run loop go on.
Fairness == WF_vars(Caller) /\ WF_vars(RunLoop)
FairSpec == Spec /\ Fairness

-----------------------------------------------------------------------------
(* Properties.                                                             *)

\* The bytes of a body: for each part of a form its header, its content and a line
\* end, and the last boundary.
Whole(body) ==
  LET ps == body.parts
      Field(i) == <<<<"header", i, 0>>>> \o Text(i, ps[i].len) \o <<<<"crlf", i, 0>>>> IN
  IF body.multipart
    THEN Append(FlattenSeq([i \in 1..Len(ps) |-> Field(i)]), <<"boundary", 0, 0>>)
    ELSE Text(1, ps[1].len)

TransferState ==
  CASE stack = "ended" -> "ended"
    [] stack \in {"failed", "closed"} -> "failed"
    [] OTHER -> "open"

Transfer(body) == INSTANCE ByteStream WITH
  Body <- Whole(body), Rewindable <- FALSE, received <- sent, state <- TransferState

\* Foundation reads the bytes of the body in their order and sees the end after the
\* last of them, however writes, reads, events and failures meet at the buffer.
BodyIsUploaded ==
  /\ sent = <<>> /\ TransferState = "open"
  /\ [][\A b \in Bodies :
         conf.body = b => [Transfer(b)!Next]_<<sent, TransferState>>]_vars

\* A blocking caller's body is read to its end once the stream is open, unless the
\* response is first or a stream fails; a read that met the writer's lock included.
UploadEnds ==
  conf.client = "blocking" /\ stack = "waiting"
    ~> stack \in {"ended", "failed", "closed"} \/ pc = "gone"

=============================================================================
