----------------------------- MODULE NsDataTask -----------------------------
(***************************************************************************)
(* One data task of the NSURLSession backend, asynchronous or blocking.    *)
(* The session calls the task's delegate on its own serial queue; the      *)
(* delegate leaves the response, the body bytes, the error and the flag    *)
(* `completed` in shared fields, each with a lock or an atomic of its own, *)
(* and wakes the caller: through an AtomicWaker, or by unparking a thread. *)
(*                                                                         *)
(* An action is one access to those fields, or several that no other       *)
(* access can tell apart.  A store followed at once by wake() is one       *)
(* action: a later wake-up could only help.                                *)
(***************************************************************************)
EXTENDS Naturals

CONSTANTS
  Modes,       \* which of "async" and "blocking"
  BodyLen,     \* bytes of the response body
  Limit,       \* max_response_buffer_size
  MaxBuf,      \* the largest buffer of a caller's read
  MaxMoves,    \* times a blocking response goes to the other thread
  MayFail      \* the task may fail in the network

VARIABLES
  mode,        \* which client the task belongs to
  op, at,      \* the caller's call, and the step it is at
  me, moves,   \* the thread a blocking caller runs on
  buf,         \* the length of the buffer of the current read
  last,        \* how the last call ended
  got,         \* body bytes handed to the caller
  aw,          \* AsyncWaker: a waker is registered
  ready,       \* ... and the executor will poll the task
  registered,  \* BlockingWaker.thread
  token,       \* the threads with an unpark token
  response, completed, received, buffer, limited,  \* DataTaskIvarsShared
  suspended,   \* the task's suspension count
  taskError,   \* task.error(): "none", "failed" or "cancelled"
  cancelled,   \* task.cancel() was called
  ended,       \* didCompleteWithError was delivered
  cb,          \* the delegate method that is half-way
  left         \* body bytes the network has not delivered

callVars   == <<op, at, me, moves, buf, last, got>>
wakeVars   == <<aw, ready, registered, token>>
sharedVars == <<response, completed, received, buffer, limited>>
taskVars   == <<suspended, taskError, cancelled, ended, cb, left>>
vars == <<mode, callVars, wakeVars, sharedVars, taskVars>>

-----------------------------------------------------------------------------

ReaderThreads == {"creator", "other"}   \* the thread of BlockingWaker::new, another

Init ==
  /\ mode \in Modes
  /\ op = "none" /\ at = "fresh" /\ me = "creator" /\ moves = 0 /\ buf = 0
  /\ last = "none" /\ got = 0
  /\ aw = FALSE /\ ready = FALSE /\ registered = "creator" /\ token = {}
  /\ response = "none" /\ completed = FALSE /\ received = "none"
  /\ buffer = 0 /\ limited = FALSE
  /\ suspended = 1 /\ taskError = "none" /\ cancelled = FALSE /\ ended = FALSE
  /\ cb = "none" /\ left = BodyLen

\* Variant of Wake: GenericWaker::wake does not reach a blocking caller.
WakeAsyncOnly ==
  /\ ready' = (ready \/ (mode = "async" /\ aw))
  /\ aw' = (aw /\ mode # "async")
  /\ UNCHANGED <<token, registered>>

\* GenericWaker::wake.
Wake ==
  /\ IF mode = "async"
       THEN ready' = (ready \/ aw) /\ aw' = FALSE /\ UNCHANGED token
       ELSE token' = token \cup {registered} /\ UNCHANGED <<ready, aw>>
  /\ UNCHANGED registered

\* AsyncWaker::register, BlockingWaker::register_current_thread.
Register ==
  /\ aw' = (mode = "async")
  /\ registered' = IF mode = "blocking" /\ me # "creator" THEN me ELSE registered
  /\ UNCHANGED <<ready, token>>

Resume == suspended' = IF suspended > 0 THEN suspended - 1 ELSE 0
MaxSize == IF limited THEN Limit ELSE BodyLen

Return(outcome) == op' = "none" /\ at' = "open" /\ last' = outcome

-----------------------------------------------------------------------------
(* The caller: request().                                                  *)

StartRequest ==
  /\ op = "none" /\ at = "fresh"
  /\ op' = "request" /\ at' = "check"
  /\ Resume
  /\ UNCHANGED <<mode, me, moves, buf, last, got, wakeVars, sharedVars, taskError,
                 cancelled, ended, cb, left>>

\* try_take_response.  The async future asks for task.error() when it has the
\* response, the blocking loop when it has none.
TakeResponse ==
  /\ op = "request" /\ at = "check"
  /\ received' = "none"
  /\ \/ /\ received # "none"
        /\ op' = "none" /\ at' = "closed" /\ last' = "err"
        /\ UNCHANGED response
     \/ /\ received = "none" /\ response = "stored"
        /\ response' = "taken"
        /\ IF mode = "async" /\ taskError # "none"
             THEN op' = "none" /\ at' = "closed" /\ last' = "err"
             ELSE Return("response")
     \/ /\ received = "none" /\ response # "stored"
        /\ IF mode = "blocking" /\ taskError # "none"
             THEN op' = "none" /\ at' = "closed" /\ last' = "err"
             ELSE /\ at' = IF mode = "async" THEN "register" ELSE "park"
                  /\ UNCHANGED <<op, last>>
        /\ UNCHANGED response
  /\ UNCHANGED <<mode, me, moves, buf, got, wakeVars, completed, buffer, limited,
                 taskVars>>

\* The end of a poll, or of a round of the blocking read: register, and for a
\* read resume.  bytes() of a blocking response has registered before it checks.
RegisterAndPark ==
  /\ at = "register"
  /\ at' = IF op = "bytes" /\ mode = "blocking" THEN "check" ELSE "park"
  /\ Register
  /\ IF op = "read" THEN Resume ELSE UNCHANGED suspended
  /\ UNCHANGED <<mode, op, me, moves, buf, last, got, sharedVars, taskError,
                 cancelled, ended, cb, left>>

\* The task is polled again; park() returns.
Resumed ==
  /\ at = "park"
  /\ IF mode = "async" THEN ready ELSE me \in token
  /\ at' = "check"
  /\ ready' = FALSE
  /\ token' = IF mode = "async" THEN token ELSE token \ {me}
  /\ UNCHANGED <<mode, op, me, moves, buf, last, got, aw, registered, sharedVars,
                 taskVars>>

-----------------------------------------------------------------------------
(* The caller: bytes().                                                    *)

StartBytes ==
  /\ op = "none" /\ at = "open"
  /\ op' = "bytes" /\ at' = IF mode = "async" THEN "check" ELSE "register"
  /\ limited' = TRUE
  /\ Resume
  /\ UNCHANGED <<mode, me, moves, buf, last, got, wakeVars, response, completed,
                 received, buffer, taskError, cancelled, ended, cb, left>>

IsCompleted ==
  /\ op = "bytes" /\ at = "check"
  /\ at' = IF completed THEN "take"
           ELSE IF mode = "async" THEN "register" ELSE "park"
  /\ UNCHANGED <<mode, op, me, moves, buf, last, got, wakeVars, sharedVars,
                 taskVars>>

\* Variant of TakeBuffer: the size is only checked when data arrives.
TakeAnyBuffer ==
  /\ op = "bytes" /\ at = "take"
  /\ received' = "none"
  /\ IF received # "none"
       THEN Return("err") /\ UNCHANGED <<got, buffer>>
       ELSE /\ got' = got + buffer /\ buffer' = 0 /\ at' = "error"
            /\ UNCHANGED <<op, last>>
  /\ UNCHANGED <<mode, me, moves, buf, wakeVars, response, completed, limited,
                 taskVars>>

\* take_response_buffer.
TakeBuffer ==
  /\ op = "bytes" /\ at = "take"
  /\ received' = "none"
  /\ IF received # "none" \/ buffer > MaxSize
       THEN Return("err") /\ UNCHANGED <<got, buffer>>
       ELSE /\ got' = got + buffer /\ buffer' = 0 /\ at' = "error"
            /\ UNCHANGED <<op, last>>
  /\ UNCHANGED <<mode, me, moves, buf, wakeVars, response, completed, limited,
                 taskVars>>

\* inner.task.error().
CheckTaskError ==
  /\ op = "bytes" /\ at = "error"
  /\ Return(IF taskError = "none" THEN "bytes" ELSE "err")
  /\ UNCHANGED <<mode, me, moves, buf, got, wakeVars, sharedVars, taskVars>>

-----------------------------------------------------------------------------
(* The caller: read.                                                       *)

StartRead ==
  /\ op = "none" /\ at = "open" /\ last \notin {"bytes", "err", "eof"}
  /\ op' = "read" /\ at' = "check"
  /\ buf' \in 1..MaxBuf
  /\ UNCHANGED <<mode, me, moves, last, got, wakeVars, sharedVars, taskVars>>

\* consume_response_to_buffer takes the error, the data, and the flag, one
\* after the other.
TakeError ==
  /\ op = "read" /\ at = "check"
  /\ received' = "none"
  /\ IF received # "none"
       THEN Return("err")
       ELSE at' = "data" /\ UNCHANGED <<op, last>>
  /\ UNCHANGED <<mode, me, moves, buf, got, wakeVars, response, completed, buffer,
                 limited, taskVars>>

\* Variant of Suspend: without asking whether the task is running.
SuspendAlways == suspended' = suspended + 1

\* task.suspend(), when the task's state is Running.
Suspend ==
  suspended' = IF suspended = 0 /\ ~ended /\ ~cancelled THEN 1 ELSE suspended

TakeData ==
  /\ op = "read" /\ at = "data"
  /\ LET n == IF buffer > buf THEN buf ELSE buffer IN
       /\ got' = got + n /\ buffer' = buffer - n
       /\ IF n > 0 THEN Return("data") ELSE at' = "flag" /\ UNCHANGED <<op, last>>
  /\ IF buffer > buf THEN Suspend ELSE UNCHANGED suspended
  /\ UNCHANGED <<mode, me, moves, buf, wakeVars, response, completed, received,
                 limited, taskError, cancelled, ended, cb, left>>

NoData ==
  /\ op = "read" /\ at = "flag"
  /\ IF completed THEN Return("eof") ELSE at' = "register" /\ UNCHANGED <<op, last>>
  /\ UNCHANGED <<mode, me, moves, buf, got, wakeVars, sharedVars, taskVars>>

-----------------------------------------------------------------------------
(* The caller between calls.                                               *)

\* A blocking response is sent to another thread.
Move ==
  /\ op = "none" /\ at = "open" /\ mode = "blocking" /\ moves < MaxMoves
  /\ moves' = moves + 1
  /\ me' \in ReaderThreads \ {me}
  /\ UNCHANGED <<mode, op, at, buf, last, got, wakeVars, sharedVars, taskVars>>

\* NSUrlSessionResponse::drop.
Close ==
  /\ op = "none" /\ at = "open"
  /\ at' = "closed"
  /\ cancelled' = TRUE
  /\ UNCHANGED <<mode, op, me, moves, buf, last, got, wakeVars, sharedVars,
                 suspended, taskError, ended, cb, left>>

-----------------------------------------------------------------------------
(* The delegate, on the session's queue.                                   *)

Idle == cb = "none" /\ ~ended

\* didReceiveResponse: suspend, allow, store, wake.
DidReceiveResponse ==
  /\ Idle /\ response = "none" /\ suspended = 0 /\ ~cancelled
  /\ suspended' = suspended + 1
  /\ response' = "stored"
  /\ Wake
  /\ UNCHANGED <<mode, callVars, completed, received, buffer, limited, taskError,
                 cancelled, ended, cb, left>>

\* didReceiveData.  A suspended task may still deliver what is under way.  Data
\* that does not fit is dropped, and set_error begins with `completed`.
DidReceiveData ==
  /\ Idle /\ response # "none" /\ ~cancelled
  /\ \E n \in 1..left :
       /\ left' = left - n
       /\ \/ /\ buffer + n <= MaxSize
             /\ buffer' = buffer + n
             /\ Wake
             /\ UNCHANGED <<completed, cb>>
          \/ /\ buffer + n > MaxSize
             /\ completed' = TRUE /\ cb' = "tooLarge"
             /\ UNCHANGED <<buffer, wakeVars>>
  /\ UNCHANGED <<mode, callVars, response, received, limited, suspended, taskError,
                 cancelled, ended>>

\* didCompleteWithError, up to its set_error if there is an error.
DidComplete ==
  /\ Idle
  /\ \/ /\ left = 0 /\ response # "none" /\ suspended = 0 /\ ~cancelled
        /\ cb' = "none"
        /\ UNCHANGED taskError
        /\ Wake
     \/ /\ (MayFail /\ suspended = 0) \/ cancelled
        /\ taskError' = IF cancelled THEN "cancelled" ELSE "failed"
        /\ cb' = "failed"
        /\ UNCHANGED wakeVars
  /\ ended' = TRUE /\ completed' = TRUE
  /\ UNCHANGED <<mode, callVars, response, received, buffer, limited, suspended,
                 cancelled, left>>

\* The rest of set_error: the first error stays.  The task that received too
\* much is cancelled after it.
SetError ==
  /\ cb # "none"
  /\ received' = IF received = "none" THEN cb ELSE received
  /\ cancelled' = (cancelled \/ cb = "tooLarge")
  /\ cb' = "none"
  /\ Wake
  /\ UNCHANGED <<mode, callVars, response, completed, buffer, limited, suspended,
                 taskError, ended, left>>

-----------------------------------------------------------------------------

Step ==
  TakeResponse \/ RegisterAndPark \/ Resumed \/ IsCompleted \/ TakeBuffer
    \/ CheckTaskError \/ TakeError \/ TakeData \/ NoData
Call == StartRequest \/ StartBytes \/ StartRead \/ Move \/ Close
Session == DidReceiveResponse \/ DidReceiveData \/ DidComplete \/ SetError

Next == Step \/ Call \/ Session

Spec == Init /\ [][Next]_vars

\* The caller's executor and thread run; the session serves a task that is not
\* suspended, and finishes a delegate method it has begun.
Fairness ==
  WF_vars(Step) /\ WF_vars(SetError \/ (suspended = 0 /\ Session))
FairSpec == Spec /\ Fairness

-----------------------------------------------------------------------------
(* Properties.                                                             *)

\* The task is never suspended twice: one resume() is always enough to get it
\* going again (response.rs:100).
SuspendedOnce == suspended <= 1

\* bytes() never returns more than max_response_buffer_size, also of data that came
\* before it announced the limit; and what a task brought that failed in the network
\* never passes for a body: with less bytes() succeeds only over the limit, or when
\* the task was cancelled.
BytesAreHonest ==
  [][op = "bytes" =>
       /\ got' - got <= Limit
       /\ op' = "none" /\ last' = "bytes" /\ got' # BodyLen =>
            cb' = "tooLarge" \/ cancelled']_vars

\* A blocking call that looks for its answer on the thread wake() reaches returns in
\* the end: one of the creator before any other thread registered, one of another
\* thread that has registered, before bytes() or in an earlier round of read.
ParkedCallerWakes ==
  mode = "blocking" /\ at = "check" /\ registered = me ~> op = "none"

\* A request future becomes ready.
RequestResolves == op = "request" ~> op # "request"

\* bytes() returns the full body or an error, and a read that finds the end has found
\* all of it.
FullBytes == last \in {"bytes", "eof"} => got = BodyLen

=============================================================================
