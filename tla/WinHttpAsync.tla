---------------------------- MODULE WinHttpAsync ----------------------------
(***************************************************************************)
(* One asynchronous request of the WinHTTP backend.  The request future    *)
(* and the response start WinHTTP operations on a request handle; WinHTTP  *)
(* reports each of them through a status callback on a thread of its own,  *)
(* into a mutex-protected RequestContext that also owns the buffer WinHTTP *)
(* reads or writes.  The context is reached from the callback through a    *)
(* raw Arc that only HANDLE_CLOSING gives back.                            *)
(*                                                                         *)
(* An action is one critical section of RequestContext.inner, together     *)
(* with the WinHTTP call that follows it: until that call is made nothing  *)
(* is in flight, so no callback can come between.                          *)
(***************************************************************************)
EXTENDS Naturals

CONSTANTS
  NChunks,     \* chunks of a streamed request body
  ChunkSize,   \* bytes in a chunk
  BodyLen,     \* bytes in the response body
  MayFail,     \* an operation may end in REQUEST_ERROR
  MayRefuse,   \* a call that starts an operation may fail at once
  MayCancel    \* the caller may drop the request future

ASSUME WinHttpAssumption ==
  /\ NChunks \in Nat /\ ChunkSize \in Nat \ {0} /\ BodyLen \in Nat
  /\ {MayFail, MayRefuse, MayCancel} \subseteq BOOLEAN

VARIABLES
  streaming,   \* the body is a PreparedBody::Stream
  job,         \* the closure submitted to the thread pool
  pc,          \* where the request future, or its response, is
  half,        \* poll_for_state is between its two critical sections
  ready,       \* the executor will poll the task
  st,          \* RequestContextInner.state
  err,         \* ... error is Some
  waker,       \* ... waker: the task's, or one that wakes nobody
  buffer,      \* ... buffer: what it holds, and its length
  range,       \* ... the length of buffer_range
  client,      \* the future or the response holds an Arc of the context
  raw,         \* the Arc that went through into_raw is outstanding
  handle,      \* the request handle
  op,          \* the WinHTTP operation in flight
  chunk, wpos, \* chunks taken from the writer, bytes of the last one written
  wrote,       \* bytes WinHTTP has taken of the streamed body
  left, got    \* response bytes still to come, and consumed by the caller

clientVars == <<streaming, job, pc, half, ready, chunk, wpos, got>>
ctxVars    == <<st, err, waker, buffer, range>>
refVars    == <<client, raw, handle>>
netVars    == <<op, wrote, left>>
vars == <<clientVars, ctxVars, refVars, netVars>>

-----------------------------------------------------------------------------

Waiting == {"waitSent", "waitWrite", "waitHeaders"}
Expected == [waitSent |-> "HeadersSent", waitWrite |-> "WriteComplete",
             waitHeaders |-> "HeadersReceived"]
InRequest  == {"setup", "write", "receive"} \cup Waiting
InResponse == {"open", "reading", "end", "errored"}

Init ==
  /\ streaming \in BOOLEAN
  /\ job = "none" /\ pc = "idle" /\ half = FALSE /\ ready = FALSE
  /\ st = "Initial" /\ err = FALSE /\ waker = "nobody"
  /\ buffer = <<"empty", 0>> /\ range = 0
  /\ client = FALSE /\ raw = FALSE /\ handle = "none"
  /\ op = "none" /\ chunk = 0 /\ wpos = 0 /\ wrote = 0
  /\ left = BodyLen /\ got = 0

\* Variant of Wake: the state changes, but nobody is told (set_state_no_wake).
WakeNobody == UNCHANGED ready

\* Waker::wake_by_ref, under the lock.
Wake == ready' = (ready \/ waker = "task")

\* The caller's side of the context and its handles go away; WinHttpCloseHandle.
Release ==
  /\ client' = FALSE
  /\ handle' = IF handle = "open" THEN "closing" ELSE handle

Fail ==
  /\ pc' = "failed"
  /\ Release

-----------------------------------------------------------------------------
(* Setting up: the future and the thread pool.                             *)

Begin ==
  /\ pc = "idle"
  /\ pc' = "setup" /\ job' = "queued" /\ client' = TRUE
  /\ buffer' = IF streaming THEN buffer ELSE <<"body", 1>>
  /\ UNCHANGED <<streaming, half, ready, chunk, wpos, got, st, err, waker, range,
                 raw, handle, netVars>>

\* Variant of SetupSend: a refused call does not take its Arc back.
SetupSendLeaking ==
  /\ job = "queued"
  /\ \/ /\ client
        /\ job' = "sent" /\ handle' = "open" /\ raw' = TRUE /\ op' = "send"
     \/ /\ ~client \/ MayRefuse
        /\ job' = IF client THEN "refused" ELSE "done"
        /\ raw' = client
        /\ UNCHANGED <<handle, op>>
  /\ UNCHANGED <<streaming, pc, half, ready, chunk, wpos, got, ctxVars, client,
                 wrote, left>>

\* Variant of SetupSend: WinHTTP gets Arc::as_ptr of the future's own Arc.
SetupSendBorrowed ==
  /\ job = "queued"
  /\ \/ /\ client
        /\ job' = "sent" /\ handle' = "open" /\ op' = "send"
     \/ /\ ~client \/ MayRefuse
        /\ job' = IF client THEN "refused" ELSE "done"
        /\ UNCHANGED <<handle, op>>
  /\ UNCHANGED <<streaming, pc, half, ready, chunk, wpos, got, ctxVars, client,
                 raw, wrote, left>>

\* The closure upgrades its Weak, hands an Arc to WinHTTP and sends; the Arc is
\* taken back when the call is refused.
SetupSend ==
  /\ job = "queued"
  /\ \/ /\ client
        /\ job' = "sent" /\ handle' = "open" /\ raw' = TRUE /\ op' = "send"
     \/ /\ ~client \/ MayRefuse
        /\ job' = IF client THEN "refused" ELSE "done"
        /\ UNCHANGED <<handle, raw, op>>
  /\ UNCHANGED <<streaming, pc, half, ready, chunk, wpos, got, ctxVars, client,
                 wrote, left>>

\* The oneshot channel carries the handles to the future, or drops them.
SetupDeliver ==
  /\ job \in {"sent", "refused"}
  /\ job' = "done"
  /\ \/ /\ pc = "setup" /\ job = "sent"
        /\ pc' = "waitSent" /\ ready' = TRUE
        /\ UNCHANGED <<client, handle>>
     \/ /\ pc = "setup" /\ job = "refused"
        /\ Fail
        /\ UNCHANGED ready
     \/ /\ pc # "setup"
        /\ handle' = IF handle = "open" THEN "closing" ELSE handle
        /\ UNCHANGED <<pc, ready, client>>
  /\ UNCHANGED <<streaming, half, chunk, wpos, got, ctxVars, raw, netVars>>

-----------------------------------------------------------------------------
(* poll_for_state, and what the future does when its wait is over.         *)

\* The first critical section: take_error.  A task may be polled unwoken.
CheckError ==
  /\ pc \in Waiting /\ ~half
  /\ ready' = FALSE
  /\ IF err
       THEN err' = FALSE /\ Fail /\ UNCHANGED half
       ELSE half' = TRUE /\ UNCHANGED <<err, pc, client, handle>>
  /\ UNCHANGED <<streaming, job, chunk, wpos, got, st, waker, buffer, range, raw,
                 netVars>>

NextChunk == IF streaming /\ chunk < NChunks THEN "write" ELSE "receive"

\* take_write_buffer.
TakeWriteBuffer == buffer' = <<"empty", 0>> /\ range' = 0

\* Variant of Written: one WinHttpWriteData for each chunk, without the loop.
WrittenOnce == wpos' = 0 /\ pc' = NextChunk /\ TakeWriteBuffer

\* A write is complete: the rest of the chunk, the next chunk, or the response.
Written ==
  IF wpos + range < ChunkSize
    THEN wpos' = wpos + range /\ pc' = "write" /\ UNCHANGED <<buffer, range>>
    ELSE wpos' = 0 /\ pc' = NextChunk /\ TakeWriteBuffer

\* The second critical section: compare the state or register the waker.  A
\* caller may go on to read the response from another task.
CheckState ==
  /\ half
  /\ half' = FALSE
  /\ \/ /\ st # Expected[pc]
        /\ waker' = "task"
        /\ UNCHANGED <<pc, ready, wpos, buffer, range>>
     \/ /\ st = Expected[pc]
        /\ ready' = TRUE
        /\ \/ /\ pc = "waitSent"
              /\ pc' = NextChunk
              /\ UNCHANGED <<waker, wpos, buffer, range>>
           \/ /\ pc = "waitWrite"
              /\ Written
              /\ UNCHANGED waker
           \/ /\ pc = "waitHeaders"
              /\ pc' = "open"
              /\ waker' \in {waker, "nobody"}
              /\ UNCHANGED <<wpos, buffer, range>>
  /\ UNCHANGED <<streaming, job, chunk, got, st, err, refVars, netVars>>

\* prepare_for_writing.
PrepareForWriting == range' = 0 /\ st' = "HeadersSent"

\* StreamWriter::take_buffer, unless a part of the last buffer is left to write.
TakeChunk == chunk' = IF wpos = 0 THEN chunk + 1 ELSE chunk

\* write_all_data_async: the next chunk goes into the context, then one
\* WinHttpWriteData for what is left of it.
StartWrite ==
  /\ pc = "write"
  /\ buffer' = <<"chunk", ChunkSize>>
  /\ TakeChunk
  /\ PrepareForWriting
  /\ \/ /\ op' = "write" /\ pc' = "waitWrite"
        /\ UNCHANGED <<client, handle>>
     \/ /\ MayRefuse
        /\ Fail
        /\ UNCHANGED op
  /\ UNCHANGED <<streaming, job, half, ready, wpos, got, err, waker, raw, wrote,
                 left>>

StartReceive ==
  /\ pc = "receive"
  /\ \/ /\ op' = "receive" /\ pc' = "waitHeaders"
        /\ UNCHANGED <<client, handle>>
     \/ /\ MayRefuse
        /\ Fail
        /\ UNCHANGED op
  /\ UNCHANGED <<streaming, job, half, ready, chunk, wpos, got, ctxVars, raw,
                 wrote, left>>

\* The caller drops the future of request() at an await point.  The handles are its
\* own, or still those of the closure, which has yet to send them.
Cancel ==
  /\ MayCancel
  /\ pc \in {"setup"} \cup Waiting \/ (pc = "write" /\ wpos = 0)
  /\ ~half
  /\ pc' = "cancelled"
  /\ \/ Release
     \/ pc = "setup" /\ client' = FALSE /\ UNCHANGED handle
  /\ UNCHANGED <<streaming, job, half, ready, chunk, wpos, got, ctxVars, raw,
                 netVars>>

-----------------------------------------------------------------------------
(* The response: poll_consume_data.                                        *)

CanRead == pc \in {"open", "reading"}

ReadError ==
  /\ CanRead /\ err
  /\ err' = FALSE
  /\ pc' = "errored"
  /\ UNCHANGED <<streaming, job, half, ready, chunk, wpos, got, st, waker, buffer,
                 range, refVars, netVars>>

\* Ask for the next operation: the state is set and the waker registered under
\* the lock, the call is made after it.
Ask(next, operation) ==
  /\ st' = next /\ range' = 0 /\ waker' = "task" /\ ready' = FALSE
  /\ \/ pc' = "reading" /\ op' = operation
     \/ MayRefuse /\ pc' = "errored" /\ UNCHANGED op

Larger(n) == IF buffer[1] = "data" /\ buffer[2] >= n THEN buffer ELSE <<"data", n>>

ReadAvailable ==
  /\ CanRead /\ ~err /\ st = "DataAvailable"
  /\ buffer' = Larger(range)
  /\ Ask("Reading", "read")
  /\ UNCHANGED <<streaming, job, half, chunk, wpos, got, err, refVars, wrote, left>>

QueryMore ==
  /\ CanRead /\ ~err /\ st = "HeadersReceived" /\ range = 0
  /\ Ask("QueryingData", "query")
  /\ UNCHANGED <<streaming, job, half, chunk, wpos, got, err, buffer, refVars,
                 wrote, left>>

\* buffer_range.start += consumed.
Consumed(n) == got' = got + n /\ range' = range - n

\* The callback of poll_read takes as much as the caller's buffer holds, that
\* of bytes() everything.
Consume ==
  /\ CanRead /\ ~err /\ st = "HeadersReceived" /\ range > 0
  /\ \E n \in 1..range : Consumed(n)
  /\ pc' = "open"
  /\ UNCHANGED <<streaming, job, half, ready, chunk, wpos, st, err, waker, buffer,
                 refVars, netVars>>

ReadEnd ==
  /\ CanRead /\ ~err /\ st = "Completed"
  /\ pc' = "end"
  /\ UNCHANGED <<streaming, job, half, ready, chunk, wpos, got, ctxVars, refVars,
                 netVars>>

ReadWait ==
  /\ CanRead /\ ~err /\ st \in {"QueryingData", "Reading"}
  /\ waker' = "task" /\ ready' = FALSE
  /\ pc' = "reading"
  /\ UNCHANGED <<streaming, job, half, chunk, wpos, got, st, err, buffer, range,
                 refVars, netVars>>

Close ==
  /\ pc \in InResponse
  /\ pc' = "closed"
  /\ Release
  /\ UNCHANGED <<streaming, job, half, ready, chunk, wpos, got, ctxVars, raw,
                 netVars>>

-----------------------------------------------------------------------------
(* WinHTTP: the status callback.                                           *)

SendComplete ==
  /\ op = "send" /\ handle = "open"
  /\ op' = "none"
  /\ buffer' = <<"empty", 0>> /\ st' = "HeadersSent"
  /\ Wake
  /\ UNCHANGED <<streaming, job, pc, half, chunk, wpos, got, err, waker, range,
                 refVars, wrote, left>>

WriteComplete ==
  /\ op = "write" /\ handle = "open"
  /\ op' = "none"
  /\ \E n \in 1..(ChunkSize - wpos) : wrote' = wrote + n /\ range' = range + n
  /\ st' = "WriteComplete"
  /\ Wake
  /\ UNCHANGED <<streaming, job, pc, half, chunk, wpos, got, err, waker, buffer,
                 refVars, left>>

HeadersAvailable ==
  /\ op = "receive" /\ handle = "open"
  /\ op' = "none"
  /\ st' = "HeadersReceived"
  /\ Wake
  /\ UNCHANGED <<streaming, job, pc, half, chunk, wpos, got, err, waker, buffer,
                 range, refVars, wrote, left>>

\* handle_data_available takes the lock twice: set_bytes_available, then the
\* transition.
DataAvailable ==
  /\ op = "query" /\ handle = "open"
  /\ op' = "queried"
  /\ range' \in IF left = 0 THEN {0} ELSE 1..left
  /\ UNCHANGED <<clientVars, st, err, waker, buffer, refVars, wrote, left>>

DataAnnounced ==
  /\ op = "queried"
  /\ op' = "none"
  /\ st' = IF range = 0 THEN "Completed" ELSE "DataAvailable"
  /\ Wake
  /\ UNCHANGED <<streaming, job, pc, half, chunk, wpos, got, err, waker, buffer,
                 range, refVars, wrote, left>>

\* set_read_complete; WinHTTP never reads past the buffer it was given.
ReadComplete ==
  /\ op = "read" /\ handle = "open"
  /\ op' = "none"
  /\ \E n \in IF left = 0 THEN {0} ELSE 1..left :
       /\ n <= buffer[2]
       /\ range' = (IF n = 0 THEN range ELSE n) /\ left' = left - n
       /\ st' = IF n = 0 THEN "Completed" ELSE "HeadersReceived"
  /\ Wake
  /\ UNCHANGED <<streaming, job, pc, half, chunk, wpos, got, err, waker, buffer,
                 refVars, wrote>>

\* REQUEST_ERROR, also for the operation a closing handle cancels.
RequestError ==
  /\ op \notin {"none", "queried"}
  /\ MayFail \/ handle = "closing"
  /\ op' = "none"
  /\ err' = TRUE
  /\ Wake
  /\ UNCHANGED <<streaming, job, pc, half, chunk, wpos, got, st, waker, buffer,
                 range, refVars, wrote, left>>

\* HANDLE_CLOSING, the last callback: the raw Arc is given back.
HandleClosing ==
  /\ handle = "closing" /\ op = "none"
  /\ handle' = "closed" /\ raw' = FALSE
  /\ UNCHANGED <<clientVars, ctxVars, client, netVars>>

-----------------------------------------------------------------------------

ThreadPool == SetupSend \/ SetupDeliver
PollRequest == CheckError \/ CheckState \/ StartWrite \/ StartReceive
PollRead ==
  ReadError \/ ReadAvailable \/ QueryMore \/ Consume \/ ReadEnd \/ ReadWait
Callback ==
  SendComplete \/ WriteComplete \/ HeadersAvailable \/ DataAvailable
    \/ DataAnnounced \/ ReadComplete \/ RequestError \/ HandleClosing

Next == Begin \/ ThreadPool \/ PollRequest \/ Cancel \/ PollRead \/ Close \/ Callback

Spec == Init /\ [][Next]_vars

\* The thread pool runs its jobs, the executor polls a woken task, and WinHTTP
\* completes every operation, with success or an error.
FairSpec ==
  /\ Spec
  /\ WF_vars(ThreadPool) /\ WF_vars(Callback)
  /\ WF_vars((pc \in Waiting => ready \/ half) /\ PollRequest)
  /\ WF_vars(pc = "reading" /\ ready /\ PollRead)

-----------------------------------------------------------------------------
(* Safety.                                                                 *)

\* WinHTTP has at most one operation in flight on a request: wherever the next
\* one may be started, the last one has been reported, so no wait is ended by the
\* state an earlier operation left in the context.
OneOperation ==
  \/ pc \in {"write", "receive", "open"}
  \/ pc = "reading" /\ st \in {"HeadersReceived", "DataAvailable", "Completed"}
  => op = "none"

\* The buffer WinHTTP was given is neither replaced nor freed with its context
\* before the callback of that operation, even when the request is dropped
\* meanwhile, and no other operation overlaps it.
BufferIsStable ==
  /\ []OneOperation
  /\ [][op' = op /\ op \in {"send", "write", "read"}
          => buffer' = buffer /\ (raw' \/ client')]_vars

\* Every callback finds its context: the Arc behind the raw pointer is there as
\* long as the handle can call back, and is given back with the handle.
CallbackHasContext ==
  /\ op # "none" => raw
  /\ raw <=> handle \in {"open", "closing"}

\* The server is asked for a response after exactly the streamed body was written,
\* short writes included; the response's body ends for the caller when all of it has
\* been consumed, not before, and what is consumed are bytes WinHTTP read into the
\* buffer, never a range left from the upload or one past the buffer's end.
BodiesAreWhole ==
  /\ pc \in {"receive", "waitHeaders"} \cup InResponse /\ streaming
       => wrote = NChunks * ChunkSize
  /\ pc = "end" => got = BodyLen
  /\ pc \in InResponse /\ st = "HeadersReceived" /\ range > 0
       => buffer[1] = "data" /\ range <= buffer[2]

-----------------------------------------------------------------------------
(* Liveness.                                                               *)

\* A request future becomes ready.
RequestResolves == pc \in InRequest ~> pc \notin InRequest

\* A pending read is answered with data, the end or an error.
ReadResolves == pc = "reading" ~> pc # "reading"

\* When the caller is done with a request, its context is freed.
ContextIsFreed == pc \in {"failed", "cancelled", "closed"} ~> (~raw /\ ~client)

=============================================================================
