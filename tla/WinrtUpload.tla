---------------------------- MODULE WinrtUpload -----------------------------
(***************************************************************************)
(* Request bodies of the asynchronous WinRT client (async/stream_content.rs): *)
(* an IInputStream whose ReadAsync puts a read task into a collection, and *)
(* the request future, which polls the caller's streams and completes the  *)
(* tasks.  Three parties meet: Windows' HTTP stack, the executor that polls *)
(* the future, and the caller's streams.  Byte i of a stream is i.         *)
(***************************************************************************)
EXTENDS Naturals, Sequences, FiniteSets

CONSTANTS
  Streams,      \* the streams of a request, one per part of a multipart body
  Sized,        \* those with a length, which can seek
  Bytes,        \* bytes in each stream
  Capacity,     \* capacity of the stack's buffer
  SyncHandlers, \* a handler may use its operation before it returns
  MaxRewinds    \* bound: Seek(0) calls of the stack, all streams together

VARIABLES
  stream,   \* AsyncReadStreamBase: open, need_rewind, pos; at: where the stream is
  task,     \* the stack's last read of each stream and what it asked for
  stack,    \* the stack's side: pc, and what it has sent since the last rewind
  alive,    \* the request future holds the collection
  waker,    \* the collection has a waker
  woken,    \* the executor has to poll the future
  todo,     \* tasks the running poll has yet to visit, under the collection's lock
  waits,    \* streams that are pending and will wake the future
  rewinds,
  stuck     \* streams whose task's lock is held by the invocation of a handler that
            \* waits for it

vars == <<stream, task, stack, alive, waker, woken, todo, waits, rewinds, stuck>>

NoTask == [in |-> FALSE, want |-> 0, partial |-> FALSE, buf |-> <<>>,
           status |-> "started", handler |-> "none", invoked |-> 0, pended |-> FALSE]

Init ==
  /\ stream = [s \in Streams |-> [open |-> TRUE, rewind |-> FALSE, pos |-> 0, at |-> 0]]
  /\ task = [s \in Streams |-> NoTask]
  /\ stack = [s \in Streams |-> [pc |-> "idle", sent |-> <<>>]]
  /\ alive = TRUE /\ waker = FALSE /\ woken = TRUE
  /\ todo = {} /\ waits = {} /\ rewinds = 0 /\ stuck = {}

Reading(s) == stack[s].pc = "reading"

\* A handler is invoked with the task's lock held.  It returns and leaves the rest to
\* another thread, or calls GetResults or Status, which wait for that lock for ever.
HandlerBlocks(s) ==
  /\ SyncHandlers /\ task'[s].invoked > task[s].invoked
  /\ stuck' = stuck \cup {s}

-----------------------------------------------------------------------------
(* The stack's calls.                                                      *)

\* ReadAsync: a task, and a wake-up for the future; refused without a collection.
ReadAsync(s) ==
  /\ stack[s].pc = "idle" /\ todo = {}
  /\ \/ /\ alive
        /\ \E want \in 1..Capacity, partial \in BOOLEAN :
             task' = [task EXCEPT ![s] =
                        [NoTask EXCEPT !.in = TRUE, !.want = want, !.partial = partial]]
        /\ stack' = [stack EXCEPT ![s].pc = "reading"]
        /\ woken' = (woken \/ waker)
     \/ /\ ~alive
        /\ stack' = [stack EXCEPT ![s].pc = "failed"]
        /\ UNCHANGED <<task, woken>>
  /\ stuck' = stuck \ {s}
  /\ UNCHANGED <<stream, alive, waker, todo, waits, rewinds>>

\* Variant of SetCompleted: a task that is complete already is not looked at.
SetCompletedOnly(s) ==
  /\ Reading(s) /\ task[s].handler = "none"
  /\ task' = [task EXCEPT ![s].handler = "set"]
  /\ UNCHANGED <<stream, stack, alive, waker, woken, todo, waits, rewinds, stuck>>

\* SetCompleted: the handler is stored, and invoked at once for a complete task.
SetCompleted(s) ==
  /\ Reading(s) /\ task[s].handler = "none"
  /\ task' = [task EXCEPT ![s].handler = "set",
                          ![s].invoked = IF task[s].status = "started" THEN @ ELSE @ + 1]
  /\ UNCHANGED stuck \/ HandlerBlocks(s)
  /\ UNCHANGED <<stream, stack, alive, waker, woken, todo, waits, rewinds>>

\* The stack asks for the results, which takes the status; an empty buffer is the end
\* of the stream.
GetResults(s) ==
  /\ Reading(s) /\ task[s].invoked > 0 /\ s \notin stuck
  /\ task' = [task EXCEPT ![s].status = "started"]
  /\ stack' = [stack EXCEPT ![s] =
       IF task[s].status # "done" THEN [@ EXCEPT !.pc = "failed"]
       ELSE [pc |-> IF task[s].buf = <<>> THEN "ended" ELSE "idle",
             sent |-> @.sent \o task[s].buf]]
  /\ UNCHANGED <<stream, alive, waker, woken, todo, waits, rewinds, stuck>>

\* Cancel takes the task out of the collection, if there still is one.
Cancel(s) ==
  /\ Reading(s) /\ todo = {}
  /\ task' = [task EXCEPT ![s].in = FALSE]
  /\ stack' = [stack EXCEPT ![s].pc = "cancelled"]
  /\ UNCHANGED <<stream, alive, waker, woken, todo, waits, rewinds, stuck>>

\* Seek(0), to send the body again: only noted, the future does it.
Seek(s) ==
  /\ s \in Sized /\ rewinds < MaxRewinds
  /\ stack[s].pc \in {"idle", "ended", "cancelled"}
  /\ rewinds' = rewinds + 1
  /\ stack' = [stack EXCEPT ![s] = [pc |-> "idle", sent |-> <<>>]]
  /\ stream' = [stream EXCEPT ![s].rewind = TRUE, ![s].pos = 0]
  /\ UNCHANGED <<task, alive, waker, woken, todo, waits, stuck>>

\* Close, of the stream or of a read, whose task then leaves the collection too.
Close(s) ==
  /\ stack[s].pc # "closed" /\ (Reading(s) => todo = {})
  /\ stream' = [stream EXCEPT ![s].open = FALSE]
  /\ task' = [task EXCEPT ![s].in = FALSE]
  /\ stack' = [stack EXCEPT ![s].pc = "closed"]
  /\ UNCHANGED <<alive, waker, woken, todo, waits, rewinds, stuck>>

\* CanRead of a sized stream.
CanRead(s) == stream[s].open /\ (s \in Sized => stream[s].pos < Bytes)

-----------------------------------------------------------------------------
(* The request future.                                                     *)

\* Variant of PollStart: the collection keeps the waker it has.
PollStartQuietly ==
  /\ alive /\ todo = {} /\ woken
  /\ woken' = FALSE
  /\ todo' = {s \in Streams : task[s].in}
  /\ UNCHANGED <<stream, task, stack, alive, waker, waits, rewinds, stuck>>

\* StreamReadTaskCollection::poll leaves its waker and visits every task.
PollStart ==
  /\ alive /\ todo = {} /\ woken
  /\ woken' = FALSE /\ waker' = TRUE
  /\ todo' = {s \in Streams : task[s].in}
  /\ UNCHANGED <<stream, task, stack, alive, waits, rewinds, stuck>>

\* A task that is done leaves the collection; its handler is taken and invoked.
Finished(t, status) ==
  [t EXCEPT !.in = FALSE, !.status = status,
            !.invoked = IF t.handler = "set" THEN @ + 1 ELSE @,
            !.handler = IF t.handler = "set" THEN "taken" ELSE @]

\* What one call of poll_read, or the loop around it, may come to: n bytes, and
\* whether the buffer is full, the stream at its end, pending or failing.  Only a
\* partial read stops at the first bytes it gets.
Outcomes(t, at) ==
  LET room == t.want - Len(t.buf)
      there == Bytes - at IN
  {o \in [n: 0..room, why: {"full", "end", "pending", "short", "error"}] :
     /\ o.n <= there
     /\ o.why = "full" <=> (o.n = room /\ o.why # "error")
     /\ o.why = "end" => o.n = there
     /\ o.why = "short" => t.partial /\ o.n > 0
     /\ t.partial /\ o.why \in {"end", "pending", "error"} => o.n = 0}

\* Variant of Visited: a read goes on at the start of the buffer.
VisitedFromStart(s, at, o) ==
  /\ stream' = [stream EXCEPT ![s].at = at + o.n, ![s].rewind = FALSE,
                              ![s].pos = IF o.why = "error" THEN @ ELSE @ + o.n]
  /\ LET t == [task[s] EXCEPT !.buf = [i \in 1..o.n |-> at + i],
                              !.pended = @ \/ o.why = "pending"] IN
     task' = [task EXCEPT ![s] =
       CASE o.why = "error" -> Finished(@, "error")
         [] o.why \in {"full", "end"} -> Finished(t, "done")
         [] OTHER -> t]

\* The rest of poll_retain_read_task: what was read is in the buffer and counted,
\* unless a read failed.
Visited(s, at, o) ==
  LET bytes == [i \in 1..o.n |-> at + i] IN
  /\ stream' = [stream EXCEPT ![s].at = at + o.n, ![s].rewind = FALSE,
                              ![s].pos = IF o.why = "error" THEN @ ELSE @ + o.n]
  /\ LET t == [task[s] EXCEPT !.buf = @ \o bytes,
                              !.pended = @ \/ o.why = "pending"] IN
     task' = [task EXCEPT ![s] =
       CASE o.why = "error" -> Finished(@, "error")
         [] o.why \in {"full", "end"} -> Finished(t, "done")
         [] OTHER -> t]

\* Bound: a stream becomes pending once in a read; it stays so until it is ready.
MayPend(s) == s \in waits \/ ~task[s].pended

\* poll_retain_read_task: a rewind first, which may pend or fail, then the read.  A
\* handler that blocks leaves the poll at its task, with the collection's lock as well.
PollTask(s) ==
  /\ s \in todo /\ todo \cap stuck = {}
  /\ \/ /\ ~stream[s].open \/ stream[s].rewind
        /\ task' = [task EXCEPT ![s] = Finished(@, "error")]
        /\ UNCHANGED <<stream, waits>>
     \/ /\ stream[s].open /\ stream[s].rewind /\ MayPend(s)
        /\ waits' = waits \cup {s}
        /\ task' = [task EXCEPT ![s].pended = TRUE]
        /\ UNCHANGED stream
     \/ /\ stream[s].open
        /\ LET at == IF stream[s].rewind THEN 0 ELSE stream[s].at IN
           \E o \in Outcomes(task[s], at) :
             /\ o.why = "pending" => MayPend(s)
             /\ Visited(s, at, o)
             /\ waits' = IF o.why = "pending" THEN waits \cup {s} ELSE waits
  /\ \/ todo' = todo \ {s} /\ UNCHANGED stuck
     \/ HandlerBlocks(s) /\ UNCHANGED todo
  /\ UNCHANGED <<stack, alive, waker, woken, rewinds>>

\* The response has come or the caller gives up: select() drops the collection.
DropFuture ==
  /\ alive /\ todo = {}
  /\ alive' = FALSE
  /\ task' = [s \in Streams |-> [task[s] EXCEPT !.in = FALSE]]
  /\ UNCHANGED <<stream, stack, waker, woken, todo, waits, rewinds, stuck>>

\* A pending stream becomes ready.
StreamReady(s) ==
  /\ s \in waits
  /\ waits' = waits \ {s} /\ woken' = TRUE
  /\ UNCHANGED <<stream, task, stack, alive, waker, todo, rewinds, stuck>>

-----------------------------------------------------------------------------

Poll == PollStart \/ \E s \in Streams : PollTask(s)
Answer(s) == SetCompleted(s) \/ GetResults(s)

Next ==
  \/ Poll \/ DropFuture
  \/ \E s \in Streams :
       ReadAsync(s) \/ Answer(s) \/ Cancel(s) \/ Seek(s) \/ Close(s) \/ StreamReady(s)

Spec == Init /\ [][Next]_vars

\* The executor polls a woken future, the streams become ready, and the stack
\* registers its handler and takes the results it is told of.
Fairness ==
  /\ WF_vars(Poll)
  /\ \A s \in Streams : WF_vars(StreamReady(s)) /\ WF_vars(Answer(s))

FairSpec == Spec /\ Fairness

-----------------------------------------------------------------------------
(* Properties.                                                             *)

TransferState(s) ==
  CASE stack[s].pc = "ended" -> "ended"
    [] stack[s].pc \in {"failed", "closed"} -> "failed"
    [] OTHER -> "open"

Transfer(s) == INSTANCE ByteStream WITH
  Body <- [i \in 1..Bytes |-> i], Rewindable <- s \in Sized,
  received <- stack[s].sent, state <- TransferState(s)

\* The stack sends the beginning of each stream, and ends it with its last byte,
\* for every mix of short, pending, partial, cancelled and failed reads and rewinds.
BodyIsUploaded ==
  /\ \A s \in Streams : Transfer(s)!Init
  /\ [][\A s \in Streams :
         [Transfer(s)!Next]_<<stack[s].sent, TransferState(s)>>]_vars

\* A read's handler is invoked once, whether it was registered before or after the
\* read was complete, and never for a read that is not.
InvokedOnce ==
  \A s \in Streams :
    /\ task[s].invoked <= 1
    /\ task[s].invoked = 1 => ~task[s].in
    /\ Reading(s) /\ task[s].handler # "none" /\ task[s].status # "started"
         => task[s].invoked = 1

\* A partial read that got some bytes, but fewer than it asked for, is kept: no
\* stream is pending for it, so that only another stream's wake-up polls it again.
Kept(s) == task[s].in /\ task[s].partial /\ task[s].buf # <<>>

\* The task's lock, or that of the poll over all tasks, is held by such an invocation.
Blocked(s) == s \in stuck \/ todo \cap stuck # {}

\* Every read of a live request is completed, unless it is such a partial read, or a
\* handler used its operation from within: that one waits for ever for the lock that
\* its invocation holds (stream_content.rs:270, 385, 399).
ReadCompletes ==
  \A s \in Streams : Reading(s) ~> (~Reading(s) \/ ~alive \/ Kept(s) \/ Blocked(s))

=============================================================================
