--------------------------- MODULE ReqwestUpload ---------------------------
(***************************************************************************)
(* A streamed request body of the reqwest backend.                         *)
(*                                                                         *)
(* Asynchronous (async/stream.rs, async.rs): the request future drives the *)
(* caller's stream, in a StreamTask, and hyper's connection task drains it *)
(* through a channel of one buffer.  Outside tokio the request is spawned  *)
(* on the managed runtime and outlives its future.                         *)
(*                                                                         *)
(* Blocking (blocking/stream.rs): hyper polls a BlockingStreamBody, which  *)
(* lends the stream to a thread of tokio's for every read.                 *)
(***************************************************************************)
EXTENDS Naturals, Sequences

CONSTANTS
  Modes,    \* which of "inside" and "outside" tokio, and "blocking"
  Bodies,   \* [sized, len]: a body with a content length or not, and its bytes
  MaxRead,  \* bound: bytes of a read (READ_BUFFER_SIZE)
  MayFail   \* the caller's stream, or the connection, may fail

VARIABLES
  mode, content,
  left,     \* bytes the caller's stream has not given yet
  future,   \* the request future, or the blocking call: "running" or "gone"
  task,     \* where StreamTask::run is
  waiter,   \* ChannelOpenState::waker: a waker is registered, and was woken
  is_open,
  chan,     \* the channel: at most one buffer, or an error
  reading,  \* MaybeReadingStream
  body,     \* hyper's side of the body
  sent      \* the bytes hyper has sent

vars == <<mode, content, left, future, task, waiter, is_open, chan, reading, body, sent>>
conf == <<mode, content>>

Whole(b) == [i \in 1..b.len |-> i]
Data(bytes) == [kind |-> "data", bytes |-> bytes]
Error == [kind |-> "error", bytes |-> <<>>]

Init ==
  /\ mode \in Modes /\ content \in Bodies
  /\ left = Whole(content)
  /\ future = "running" /\ task = "wait"
  /\ waiter = [registered |-> FALSE, woken |-> FALSE] /\ is_open = FALSE
  /\ chan = <<>> /\ reading = [kind |-> "Ready", buf |-> <<>>]
  /\ body = "new" /\ sent = <<>>

Async == mode # "blocking"

-----------------------------------------------------------------------------
(* StreamTask::run, in the request future.                                 *)

Driven == Async /\ future = "running"

\* wait_until_open registers its waker and then looks.
Register ==
  /\ Driven /\ task = "wait" /\ task' = "check"
  /\ waiter' = [waiter EXCEPT !.registered = TRUE]
  /\ UNCHANGED <<conf, left, future, is_open, chan, reading, body, sent>>

Check ==
  /\ Driven /\ task = "check"
  /\ task' = IF is_open THEN "read" ELSE "parked"
  /\ UNCHANGED <<conf, left, future, waiter, is_open, chan, reading, body, sent>>

Woken ==
  /\ Driven /\ task = "parked" /\ waiter.woken
  /\ task' = "wait" /\ waiter' = [registered |-> FALSE, woken |-> FALSE]
  /\ UNCHANGED <<conf, left, future, is_open, chan, reading, body, sent>>

\* A buffer goes into the channel when the one before is out of it; a channel whose
\* receiver is gone ends the task.
Send(item, next) ==
  /\ chan = <<>> \/ body \in {"ended", "failed"}
  /\ IF body \in {"ended", "failed"}
       THEN task' = "done" /\ UNCHANGED chan
       ELSE task' = next /\ chan' = <<item>>

\* A read of the caller's stream and the send of what it gave: bytes, the end, an error.
ReadAndSend ==
  /\ Driven /\ task = "read"
  /\ \/ \E n \in 1..MaxRead :
          /\ n <= Len(left)
          /\ Send(Data(SubSeq(left, 1, n)), "read")
          /\ left' = SubSeq(left, n + 1, Len(left))
     \/ left = <<>> /\ Send(Data(<<>>), "done") /\ UNCHANGED left
     \/ MayFail /\ Send(Error, "done") /\ UNCHANGED left
  /\ UNCHANGED <<conf, future, waiter, is_open, reading, body, sent>>

\* The future ends first: with the response, which may come before the body is sent,
\* or dropped by its caller.  The StreamTask is dropped with it, and so is the request
\* unless it runs on the managed runtime or has been answered.
Leave ==
  /\ Driven
  /\ future' = "gone"
  /\ task' = "done"
  /\ \/ body # "new" /\ UNCHANGED body
     \/ body' = IF mode = "inside" /\ body # "ended" THEN "failed" ELSE body
  /\ UNCHANGED <<conf, left, waiter, is_open, chan, reading, sent>>

-----------------------------------------------------------------------------
(* AsyncStreamBody, polled by hyper.                                       *)

\* is_end_stream: a sized body that is all there.
AllThere(bytes) == content.sized /\ Len(bytes) >= content.len

\* Nothing is polled of a body that is empty by its size.
Empty ==
  /\ body = "new" /\ AllThere(sent) /\ body' = "ended"
  /\ UNCHANGED <<conf, left, future, task, waiter, is_open, chan, reading, sent>>

\* The first poll_frame: set_open stores, and then wakes.
SetOpen ==
  /\ Async /\ body = "new" /\ ~AllThere(sent) /\ body' = "opening"
  /\ is_open' = TRUE
  /\ UNCHANGED <<conf, left, future, task, waiter, chan, reading, sent>>

WakeTask ==
  /\ body = "opening" /\ body' = "open"
  /\ waiter' = [registered |-> FALSE, woken |-> waiter.woken \/ waiter.registered]
  /\ UNCHANGED <<conf, left, future, task, is_open, chan, reading, sent>>

\* hyper sends a frame; the end it is told of, or sees from the size.  A sized body
\* that ends early is an error of its own.
Frame(bytes) ==
  /\ sent' = sent \o bytes
  /\ body' = IF AllThere(sent \o bytes) THEN "ended"
             ELSE IF bytes # <<>> THEN "open"
             ELSE IF content.sized THEN "failed" ELSE "ended"

\* Variant of PollFrame: an error in the channel is the end.
PollFrameLax ==
  /\ Async /\ body = "open"
  /\ \/ chan # <<>> /\ Frame(chan[1].bytes) /\ chan' = <<>>
     \/ chan = <<>> /\ task = "done" /\ Frame(<<>>) /\ UNCHANGED chan
  /\ UNCHANGED <<conf, left, future, task, waiter, is_open, reading>>

\* An empty buffer, and a channel without a sender, end the body.
PollFrame ==
  /\ Async /\ body = "open"
  /\ \/ /\ chan # <<>> /\ chan[1].kind = "data"
        /\ Frame(chan[1].bytes) /\ chan' = <<>>
     \/ /\ chan # <<>> /\ chan[1].kind = "error"
        /\ body' = "failed" /\ chan' = <<>> /\ UNCHANGED sent
     \/ /\ chan = <<>> /\ task = "done"
        /\ Frame(<<>>) /\ UNCHANGED chan
  /\ UNCHANGED <<conf, left, future, task, waiter, is_open, reading>>

-----------------------------------------------------------------------------
(* BlockingStreamBody, polled by hyper, and the thread of a read.          *)

Put(kind, buf) == reading' = [kind |-> kind, buf |-> buf]

\* Polled while its read is under way.
PollPending == UNCHANGED reading

PollBlocking ==
  /\ mode = "blocking" /\ body \in {"new", "open"} /\ ~AllThere(sent)
  /\ \/ reading.kind = "Ready" /\ Put("Reading", <<>>) /\ body' = "open" /\ UNCHANGED sent
     \/ reading.kind = "Reading" /\ PollPending /\ UNCHANGED <<body, sent>>
     \/ reading.kind = "Read" /\ Put("Ready", <<>>) /\ Frame(reading.buf)
     \/ reading.kind = "ReadError" /\ Put("Invalid", <<>>) /\ body' = "failed" /\ UNCHANGED sent
     \/ reading.kind = "Invalid" /\ body' = "panicked" /\ UNCHANGED <<reading, sent>>
  /\ UNCHANGED <<conf, left, future, task, waiter, is_open, chan>>

\* spawn_blocking's thread.
ThreadRead ==
  /\ mode = "blocking" /\ reading.kind = "Reading"
  /\ \/ \E n \in 1..MaxRead :
          /\ n <= Len(left)
          /\ left' = SubSeq(left, n + 1, Len(left))
          /\ Put("Read", SubSeq(left, 1, n))
     \/ left = <<>> /\ Put("Read", <<>>) /\ UNCHANGED left
     \/ MayFail /\ Put("ReadError", <<>>) /\ UNCHANGED left
  /\ UNCHANGED <<conf, future, task, waiter, is_open, chan, body, sent>>

\* The connection fails.
Disconnect ==
  /\ MayFail /\ body \in {"new", "open"} /\ body' = "failed"
  /\ UNCHANGED <<conf, left, future, task, waiter, is_open, chan, reading, sent>>

-----------------------------------------------------------------------------

Task == Register \/ Check \/ Woken \/ ReadAndSend
Hyper == Empty \/ SetOpen \/ WakeTask \/ PollFrame \/ PollBlocking

Next == Task \/ Leave \/ Hyper \/ ThreadRead \/ Disconnect

Spec == Init /\ [][Next]_vars

\* The request future is polled when woken, hyper's task and the thread run.
Fairness == WF_vars(Task) /\ WF_vars(Hyper) /\ WF_vars(ThreadRead)

FairSpec == Spec /\ Fairness

-----------------------------------------------------------------------------
(* Properties.                                                             *)

\* An end that hyper was told of after the request future had gone is the stream's
\* no more: it stands for a failure here (EndIsWhole asks for more).
TransferState ==
  CASE body \in {"new", "opening", "open"} -> "open"
    [] body = "ended" -> IF sent = Whole(content) \/ future = "running" THEN "ended" ELSE "failed"
    [] body = "failed" -> "failed"
    [] OTHER -> body

Transfer(b) == INSTANCE ByteStream WITH
  Body <- Whole(b), Rewindable <- FALSE, received <- sent, state <- TransferState

\* As long as its future runs, a body is sent in order, and ended only after its last
\* byte: not by a failed read, a dropped stream or a full channel.
BodyIsSent ==
  /\ sent = <<>> /\ TransferState = "open"
  /\ [][\A b \in Bodies :
         content = b => [Transfer(b)!Next]_<<sent, TransferState>>]_vars

\* Whatever becomes of the future, hyper is told of the end of a body only after its
\* last byte.
EndIsWhole == body = "ended" => sent = Whole(content)

\* A body ends or fails: no wake-up between hyper's first poll and the waiting stream
\* is lost, and no read is forgotten.
UploadEnds == <>(body \in {"ended", "failed"})

=============================================================================
