---------------------------- MODULE WinrtRequest ----------------------------
(***************************************************************************)
(* A request of the WinRT clients, asynchronous and blocking, over Windows' *)
(* asynchronous operations: sending it, reading the whole body under a size *)
(* limit or reading it as a stream, and the time the request has for all of *)
(* them.  Four parties meet: the caller, the operation, the thread pool's   *)
(* timer and the operation's progress handler.  The body is counted, not    *)
(* spelled out.                                                            *)
(***************************************************************************)
EXTENDS Integers

CONSTANTS
  Timeouts,   \* request timeouts, NoTimeout among them
  NoTimeout,
  Limits,     \* max_response_buffer_size, NoLimit among them
  NoLimit,
  BodyLen,    \* bytes of the response
  TextLens,   \* bytes its text may have once decoded
  BufMax,     \* bound: size of the caller's read buffers
  MaxTime     \* bound: the clock stops there

VARIABLES
  conf,       \* client, timeout and limit of the request; whether there is content, and
              \* the length of all of it, as bytes() or as text() returns it
  call,       \* what the caller waits for: none, send, bytes or read
  op,         \* the operation it waits for
  remaining,  \* Timer::remaining
  timer,      \* the thread pool's timer: its state, when it was set, `cancelled`
  exceeded,   \* the limiter's size_exceeded
  reader,     \* ReadTask or DataReader: state, bytes loaded and not consumed
  body,       \* bytes the stream has handed to the reader, and the caller got
  result,     \* what the last call returned, and how many bytes
  now

vars == <<conf, call, op, remaining, timer, exceeded, reader, body, result, now>>

\* An operation: what it does, how it stands, the bytes it has and was asked for.
NoOp == [kind |-> "none", state |-> "done", got |-> 0, want |-> 0]
Started(kind, want) == [kind |-> kind, state |-> "started", got |-> 0, want |-> want]

Init ==
  /\ conf \in [client: {"async", "blocking"}, timeout: Timeouts, limit: Limits,
               content: BOOLEAN, whole: {BodyLen} \cup TextLens]
  /\ call = "none" /\ op = NoOp
  /\ remaining = conf.timeout
  /\ timer = [state |-> "off", at |-> 0, cancelled |-> FALSE]
  /\ exceeded = FALSE
  /\ reader = [state |-> "none", loaded |-> 0, want |-> 0, empty |-> FALSE]
  /\ body = [loaded |-> 0, got |-> 0]
  /\ result = <<"none", 0>> /\ now = 0

-----------------------------------------------------------------------------
(* timeout_by.                                                             *)

\* An operation just started is waited for, with a timer if the request has a
\* timeout; when no time is left it is given up, running.
TimeoutBy(kind) ==
  \/ /\ remaining = 0
     /\ result' = <<"timeout", 0>> /\ call' = "over"
     /\ UNCHANGED <<op, timer, remaining>>
  \/ /\ remaining # 0
     /\ op' = Started(kind, 0)
     /\ call' = kind
     /\ timer' = IF remaining = NoTimeout THEN timer
                 ELSE [state |-> "set", at |-> now, cancelled |-> FALSE]
     /\ UNCHANGED <<result, remaining>>

Elapsed == now - timer.at

\* The timer's handler: the flag first, then the operation.
TimerFires ==
  /\ timer.state = "set" /\ Elapsed >= remaining
  /\ timer' = [timer EXCEPT !.state = "firing", !.cancelled = TRUE]
  /\ UNCHANGED <<conf, call, op, remaining, exceeded, reader, body, result, now>>

Cancelled(o) == [o EXCEPT !.state = IF @ = "started" THEN "cancelled" ELSE @]

TimerCancels ==
  /\ timer.state = "firing"
  /\ timer' = [timer EXCEPT !.state = "off"]
  /\ op' = Cancelled(op)
  /\ UNCHANGED <<conf, call, remaining, exceeded, reader, body, result, now>>

\* Variant of Final: what the operation came to, whatever the timer did.
FinalTrusting(res) == res

\* The operation is over: the timer is stopped and its flag decides.
Final(res) == IF timer.cancelled THEN <<"timeout", 0>> ELSE res

\* The time it took is deducted.
Deducted ==
  IF remaining = NoTimeout \/ timer.cancelled THEN remaining
  ELSE IF Elapsed < remaining THEN remaining - Elapsed ELSE 0

\* timer.Cancel(): a handler that has begun goes on, against an operation that is over.
Stopped == [timer EXCEPT !.state = "off"]

-----------------------------------------------------------------------------
(* Windows' side of an operation.                                          *)

Running == call \in {"send", "bytes", "read"} /\ op.state = "started"

Tick ==
  /\ Running /\ timer.state # "off" /\ now < MaxTime
  /\ now' = now + 1
  /\ UNCHANGED <<conf, call, op, remaining, timer, exceeded, reader, body, result>>

\* hook_progress's handler: a response too large is noted and cancelled.
HookProgress(got) ==
  /\ exceeded' = (exceeded \/ (conf.limit # NoLimit /\ got > conf.limit))
  /\ op' = LET o == [op EXCEPT !.got = got] IN IF exceeded' THEN Cancelled(o) ELSE o

\* A byte of the body arrives; Windows need not report every one.
BodyArrives ==
  /\ Running /\ op.kind = "bytes" /\ op.got < BodyLen
  /\ \/ HookProgress(op.got + 1)
     \/ op' = [op EXCEPT !.got = @ + 1] /\ UNCHANGED exceeded
  /\ UNCHANGED <<conf, call, remaining, timer, reader, body, result, now>>

\* The operation ends; a load brings some of the bytes it was asked for.
OpEnds ==
  /\ Running
  /\ \/ /\ op.kind = "bytes" => op.got = BodyLen
        /\ \/ /\ op.kind = "load"
              /\ LET most == IF op.want < BodyLen - body.loaded
                             THEN op.want ELSE BodyLen - body.loaded IN
                 \E n \in 0..most :
                   /\ n = 0 <=> most = 0
                   /\ op' = [op EXCEPT !.state = "done", !.got = n]
                   /\ body' = [body EXCEPT !.loaded = @ + n]
           \/ /\ op.kind # "load"
              /\ op' = [op EXCEPT !.state = "done"] /\ UNCHANGED body
     \/ op' = [op EXCEPT !.state = "error"] /\ UNCHANGED body
  /\ UNCHANGED <<conf, call, remaining, timer, exceeded, reader, result, now>>

-----------------------------------------------------------------------------
(* The caller.                                                             *)

\* send_request_async and send_request.
Send ==
  /\ call = "none" /\ result = <<"none", 0>>
  /\ TimeoutBy("send")
  /\ UNCHANGED <<conf, exceeded, reader, body, now>>

\* The response, or the error, is the caller's; WinrtResponse::new.
Sent ==
  /\ call = "send" /\ ~Running
  /\ result' = Final(<<IF op.state = "done" THEN "response" ELSE "error", 0>>)
  /\ remaining' = Deducted /\ timer' = Stopped
  /\ call' = IF result'[1] = "response" THEN "none" ELSE "over"
  /\ UNCHANGED <<conf, op, exceeded, reader, body, now>>

\* bytes() and text(): a response without content is an error; with no time left the
\* progress handler, hooked first, may still have seen that the body is too large.
Bytes ==
  /\ call = "none" /\ result = <<"response", 0>> /\ reader.state = "none"
  /\ \/ /\ conf.content /\ TimeoutBy("bytes")
     \/ /\ ~conf.content
        /\ result' = <<"error", 0>> /\ call' = "over"
        /\ UNCHANGED <<op, timer, remaining>>
     \/ /\ conf.content /\ remaining = 0 /\ conf.limit # NoLimit /\ BodyLen > conf.limit
        /\ result' = <<"large", 0>> /\ call' = "over"
        /\ UNCHANGED <<op, timer, remaining>>
  /\ UNCHANGED <<conf, exceeded, reader, body, now>>

\* Variant of AssertSize: the handler's flag alone.
AssertSizeReported(res) ==
  IF conf.limit # NoLimit /\ exceeded THEN <<"large", 0>> ELSE res

\* assert_size: what the handler saw first, then an error, then the length of the bytes
\* or of the decoded text.
AssertSize(res) ==
  IF conf.limit = NoLimit THEN res
  ELSE IF exceeded \/ (res[1] = "bytes" /\ res[2] > conf.limit) THEN <<"large", 0>>
  ELSE res

BytesEnd ==
  /\ call = "bytes" /\ ~Running
  /\ result' = AssertSize(Final(IF op.state = "done" THEN <<"bytes", conf.whole>>
                                ELSE <<"error", 0>>))
  /\ remaining' = Deducted /\ timer' = Stopped /\ call' = "over"
  /\ UNCHANGED <<conf, op, exceeded, reader, body, now>>

\* poll_read, or read, with a buffer of n bytes: the stream is asked for once.
Read(n) ==
  /\ call = "none" /\ result[1] \in {"response", "read", "failed"}
  /\ reader' = [reader EXCEPT !.want = n]
  /\ call' = "read"
  /\ op' = IF reader.state = "none" /\ conf.content
           THEN Started("open", 0) ELSE NoOp
  /\ UNCHANGED <<conf, remaining, timer, exceeded, body, result, now>>

Returns(n, state) ==
  /\ call' = "none" /\ op' = NoOp
  /\ result' = <<IF result[1] = "failed" THEN "failed" ELSE "read", n>>
  /\ reader' = [reader EXCEPT !.state = state, !.loaded = 0,
                              !.empty = @ \/ (op.kind = "load" /\ op.want = 0)]
  /\ UNCHANGED body

\* No content, or a ReadTask that is used up: the end.
ReadNothing ==
  /\ call = "read" /\ op.kind = "none"
  /\ reader.state = "lost" \/ (reader.state = "none" /\ ~conf.content)
  /\ IF conf.client = "blocking"
     THEN /\ result' = <<"failed", 0>> /\ call' = "none"
          /\ UNCHANGED <<op, reader, body>>
     ELSE Returns(0, reader.state)
  /\ UNCHANGED <<conf, remaining, timer, exceeded, now>>

\* Nothing is unconsumed: another load.
Load ==
  /\ call = "read" /\ reader.state = "ready" /\ reader.loaded = 0 /\ op.kind = "none"
  /\ op' = Started("load", reader.want)
  /\ UNCHANGED <<conf, call, remaining, timer, exceeded, reader, body, result, now>>

\* ConsumingData: as much of what is loaded as fits.
Consume ==
  /\ call = "read" /\ reader.state = "ready" /\ reader.loaded > 0 /\ op.kind = "none"
  /\ LET n == IF reader.want < reader.loaded THEN reader.want ELSE reader.loaded IN
     /\ reader' = [reader EXCEPT !.loaded = @ - n]
     /\ body' = [body EXCEPT !.got = @ + n]
     /\ result' = <<IF result[1] = "failed" THEN "failed" ELSE "read", n>>
  /\ call' = "none"
  /\ UNCHANGED <<conf, op, remaining, timer, exceeded, now>>

\* The stream is open.
Opened ==
  /\ call = "read" /\ op.kind = "open" /\ op.state = "done"
  /\ reader' = [reader EXCEPT !.state = "ready"] /\ op' = NoOp
  /\ UNCHANGED <<conf, call, remaining, timer, exceeded, body, result, now>>

\* Nothing more came: the end; a ReadTask is then used up, a DataReader stays.
LoadedNothing ==
  /\ call = "read" /\ op.kind = "load" /\ op.state = "done" /\ op.got = 0
  /\ Returns(0, IF conf.client = "async" THEN "lost" ELSE "ready")
  /\ UNCHANGED <<conf, remaining, timer, exceeded, now>>

Loaded ==
  /\ call = "read" /\ op.kind = "load" /\ op.state = "done" /\ op.got > 0
  /\ reader' = [reader EXCEPT !.loaded = op.got] /\ op' = NoOp
  /\ UNCHANGED <<conf, call, remaining, timer, exceeded, body, result, now>>

\* The operation failed: a ReadTask is used up, a DataReader (or none) stays.
ReadFails ==
  /\ call = "read" /\ op.state = "error"
  /\ reader' = [reader EXCEPT !.state = IF conf.client = "async" THEN "lost" ELSE @]
  /\ result' = <<"failed", 0>> /\ call' = "none" /\ op' = NoOp
  /\ UNCHANGED <<conf, remaining, timer, exceeded, body, now>>

\* The caller polls with another buffer while it waits; only ReadTask is polled.
PollAgain(n) ==
  /\ call = "read" /\ conf.client = "async" /\ op.state = "started"
  /\ reader' = [reader EXCEPT !.want = n]
  /\ UNCHANGED <<conf, call, op, remaining, timer, exceeded, body, result, now>>

-----------------------------------------------------------------------------

Windows == TimerFires \/ TimerCancels \/ BodyArrives \/ OpEnds

ReadStep ==
  ReadNothing \/ Load \/ Consume \/ Opened \/ LoadedNothing \/ Loaded \/ ReadFails

Next ==
  \/ Tick \/ Windows
  \/ Send \/ Sent \/ Bytes \/ BytesEnd \/ ReadStep
  \/ \E n \in 0..BufMax : Read(n) \/ PollAgain(n)

Spec == Init /\ [][Next]_vars

\* Time passes, the timer runs and the caller goes on when it is woken; Windows
\* need never end an operation.
Fairness ==
  /\ WF_vars(Tick) /\ WF_vars(TimerFires) /\ WF_vars(TimerCancels)
  /\ WF_vars(Sent) /\ WF_vars(BytesEnd)

FairSpec == Spec /\ Fairness

-----------------------------------------------------------------------------
(* Properties.                                                             *)

\* What a caller is told of the body is so: all of it within the limit, too large
\* only when it is, and the end of a stream only where it ends.  A text counts as
\* decoded, unless the longer body was noticed on its way.  A read with an empty
\* buffer uses a ReadTask up, and a failed read is its own answer.
ResponseIsHonest ==
  /\ result[1] = "bytes" =>
       /\ result[2] = conf.whole
       /\ conf.limit # NoLimit => conf.whole <= conf.limit
  /\ result[1] = "large" => BodyLen > conf.limit \/ conf.whole > conf.limit
  /\ result = <<"read", 0>> /\ ~reader.empty /\ call = "none" /\ conf.content
       /\ reader.want > 0 => body.got = BodyLen

\* The operations of a request share its timeout: what is left is what they have
\* not used, a time-out is reported when it is used up and not before, and what
\* the timer cancelled is not reported as another error.
TimeoutIsTheBudget ==
  /\ call \in {"none", "read"} /\ conf.timeout # NoTimeout =>
       remaining = IF now < conf.timeout THEN conf.timeout - now ELSE 0
  /\ result[1] = "timeout" => now >= conf.timeout
  /\ result[1] = "error" => ~timer.cancelled \/ ~conf.content

\* A call with a timeout returns, although Windows never ends its operation.
CallReturns ==
  call \in {"send", "bytes"} /\ conf.timeout # NoTimeout
    ~> call \notin {"send", "bytes"}

=============================================================================
