------------------------------ MODULE CurlLoop ------------------------------
(***************************************************************************)
(* The asynchronous client of the curl backend: one future per request on  *)
(* the caller's executor, and a background thread (run_loop) that owns a   *)
(* curl multi handle.  The two sides share, per request, a mutex-protected *)
(* SharedRequestStates with an AtomicWaker, and per loop thread a task     *)
(* queue reached through a Weak pointer.                                   *)
(*                                                                         *)
(* One action is one critical section of the code, or a step between two   *)
(* await points that takes no lock.  A loop thread that has ended is       *)
(* replaced by a new one; Loops numbers the successive threads.            *)
(***************************************************************************)
EXTENDS Naturals, Sequences

CONSTANTS
  Req,            \* the requests issued on one client
  Loops,          \* the loop threads that may be spawned, in spawning order
  Ids,            \* slab keys
  MaxChunks,      \* bound on the write callbacks of one response body
  NoReq, NoLoop, NoId,
  LoopMayFail,    \* curl_multi_poll or curl_multi_perform may return an error
  InfoMayFail,    \* curl_easy_getinfo may return an error
  LateUnpauseFails, \* unpausing a completed transfer may return an error
  WakeupMayFail,  \* curl_multi_wakeup may return an error that its caller ignores
  RefusalMayFail, \* curl_multi_wakeup may return an error to start_request
  MayCancel,      \* the caller may drop a request future before it is ready
  MayRereadEnd    \* the caller may poll the body again after its end

ASSUME ConstantsAssumption ==
  /\ Loops \subseteq Nat
  /\ MaxChunks \in Nat
  /\ NoReq \notin Req
  /\ NoLoop \notin Loops
  /\ NoId \notin Ids
  /\ {LoopMayFail, InfoMayFail, LateUnpauseFails, WakeupMayFail, RefusalMayFail,
      MayCancel, MayRereadEnd} \subseteq BOOLEAN

VARIABLES
  mgr,          \* LoopManager.inner: the thread requests are sent to
  clientGone,   \* LoopManager has been dropped
  refused,      \* history: live threads that start_request has taken for gone
  lpc,          \* [Loops -> where the loop thread is]
  queue,        \* [Loops -> Seq(task)], the swapped-out batch first
  inBatch,      \* [Loops -> length of the swapped-out batch]
  lastCall,     \* [Loops -> the local last_call]
  wakeup,       \* [Loops -> a curl_multi_wakeup is pending]
  slab,         \* [Loops -> [Ids -> Req \cup {NoReq}]]
  pc,           \* [Req -> where the request future or its response is]
  cm,           \* [Req -> the LoopManagerShared the request has cloned]
  hid,          \* [Req -> RequestHandle.id]
  unpauseSent,  \* [Req -> RequestHandle.is_recv_unpause_sent]
  parked,       \* [Req -> its task sleeps, its waker is registered]
  result, resId,\* [Req -> SharedRequestStates.result and the id in it]
  header,       \* [Req -> RequestState.header_finished]
  buf,          \* [Req -> RequestState.response_buffer is not empty]
  easy,         \* [Req -> who owns the easy handle]
  handle,       \* [Req -> who owns the RequestHandle]
  xfer,         \* [Req -> the transfer inside curl]
  left          \* [Req -> write callbacks still to come]

clientVars == <<mgr, clientGone, refused>>
loopVars   == <<lpc, queue, inBatch, lastCall, wakeup, slab>>
futureVars == <<pc, cm, hid, unpauseSent, parked>>
sharedVars == <<result, resId, header, buf>>
ownerVars  == <<easy, handle>>
curlVars   == <<xfer, left>>
vars == <<clientVars, loopVars, futureVars, sharedVars, ownerVars, curlVars>>

-----------------------------------------------------------------------------

LoopTask ==
  [kind : {"Construct", "Query", "UnpauseRecv", "Drop", "Shutdown"},
   req  : Req \cup {NoReq},
   id   : Ids \cup {NoId}]

Task(kind, r, i) == [kind |-> kind, req |-> r, id |-> i]

RequestResult == {"Init", "InProgress", "EasyLost", "DoneOk", "DoneErr"}
IsDone(r) == result[r] \in {"DoneOk", "DoneErr"}

\* "query" is the gap between the two poll_fn of wait_for_response.
FuturePc == {"acquire", "submit", "starting", "replace", "wait1", "query", "wait2"}
BodyPc   == {"open", "reading", "end", "broken"}
FinalPc  == {"failed", "cancelled", "closed"}

\* Weak::upgrade succeeds: the thread still holds its Arc<Mutex<LoopManagerInner>>.
Alive(l) == l \in Loops /\ lpc[l] \notin {"unborn", "dead"}

Owned(l) == {r \in Req : \E i \in Ids : slab[l][i] = r}
Tasks(l) == {queue[l][k] : k \in DOMAIN queue[l]}
Queued(l, kind) == {r \in Req : \E t \in Tasks(l) : t.kind = kind /\ t.req = r}

\* curl_multi_wakeup, whose error dispatch_task ignores.
WakeThread(l) ==
  \/ wakeup' = [wakeup EXCEPT ![l] = TRUE]
  \/ WakeupMayFail /\ UNCHANGED wakeup

\* dispatch_task: push under the lock, then wake; the task is handed back, here
\* ignored, when the thread is gone.
Dispatch(l, t) ==
  IF Alive(l)
    THEN queue' = [queue EXCEPT ![l] = Append(@, t)] /\ WakeThread(l)
    ELSE UNCHANGED <<queue, wakeup>>

\* The same push by the loop thread l itself, behind the task it takes off.
TakeAndDispatch(l, t) ==
  /\ queue'   = [queue EXCEPT ![l] = Append(Tail(@), t)]
  /\ inBatch' = [inBatch EXCEPT ![l] = @ - 1]
  /\ WakeThread(l)

Take(l) ==
  /\ queue'   = [queue EXCEPT ![l] = Tail(@)]
  /\ inBatch' = [inBatch EXCEPT ![l] = @ - 1]
  /\ UNCHANGED wakeup

WakeAll(S) == parked' = [r \in Req |-> parked[r] /\ r \notin S]
Wake(r)    == WakeAll({r})
Park(r)    == parked' = [parked EXCEPT ![r] = TRUE]

Fresh(l) ==
  /\ lpc[l] = "unborn"
  /\ \A k \in Loops : lpc[k] = "unborn" => l <= k

\* start_loop: the thread is up and has sent its manager back.
SpawnLoop(l) ==
  /\ Fresh(l)
  /\ lpc' = [lpc EXCEPT ![l] = "poll"]
  /\ mgr' = l

GoTo(r, p) == pc' = [pc EXCEPT ![r] = p]

-----------------------------------------------------------------------------
(* The request future.                                                     *)

Init ==
  /\ mgr = NoLoop /\ clientGone = FALSE /\ refused = {}
  /\ lpc      = [l \in Loops |-> "unborn"]
  /\ queue    = [l \in Loops |-> << >>]
  /\ inBatch  = [l \in Loops |-> 0]
  /\ lastCall = [l \in Loops |-> FALSE]
  /\ wakeup   = [l \in Loops |-> FALSE]
  /\ slab     = [l \in Loops |-> [i \in Ids |-> NoReq]]
  /\ pc       = [r \in Req |-> "idle"]
  /\ cm       = [r \in Req |-> NoLoop]
  /\ hid      = [r \in Req |-> NoId]
  /\ unpauseSent = [r \in Req |-> FALSE]
  /\ parked   = [r \in Req |-> FALSE]
  /\ result   = [r \in Req |-> "Init"]
  /\ resId    = [r \in Req |-> NoId]
  /\ header   = [r \in Req |-> FALSE]
  /\ buf      = [r \in Req |-> FALSE]
  /\ easy     = [r \in Req |-> "none"]
  /\ handle   = [r \in Req |-> "none"]
  /\ xfer     = [r \in Req |-> "none"]
  /\ left \in [Req -> 0..MaxChunks]

\* CurlMultiClient::request up to LoopManager::start_request.
Begin(r) ==
  /\ pc[r] = "idle" /\ ~clientGone
  /\ GoTo(r, "acquire")
  /\ easy' = [easy EXCEPT ![r] = "client"]
  /\ UNCHANGED <<clientVars, loopVars, cm, hid, unpauseSent, parked, sharedVars,
                 handle, curlVars>>

\* Variant of Acquire: the manager is read before the mutex is taken, and a
\* thread another request has started meanwhile is replaced.
AcquireRacing(r) ==
  /\ pc[r] = "acquire"
  /\ \/ \E l \in Loops : SpawnLoop(l)
     \/ mgr # NoLoop /\ UNCHANGED <<mgr, lpc>>
  /\ cm' = [cm EXCEPT ![r] = mgr']
  /\ GoTo(r, "submit")
  /\ UNCHANGED <<clientGone, refused, queue, inBatch, lastCall, wakeup, slab, hid,
                 unpauseSent, parked, sharedVars, ownerVars, curlVars>>

\* Clone the manager under the async mutex, spawning the first thread.
Acquire(r) ==
  /\ pc[r] = "acquire"
  /\ IF mgr = NoLoop
       THEN \E l \in Loops : SpawnLoop(l)
       ELSE UNCHANGED <<mgr, lpc>>
  /\ cm' = [cm EXCEPT ![r] = mgr']
  /\ GoTo(r, "submit")
  /\ UNCHANGED <<clientGone, refused, queue, inBatch, lastCall, wakeup, slab, hid,
                 unpauseSent, parked, sharedVars, ownerVars, curlVars>>

\* LoopManagerShared::start_request up to its poll_fn, with a thread that is
\* woken or gone.
Submit(r) ==
  /\ pc[r] = "submit"
  /\ IF Alive(cm[r])
       THEN /\ GoTo(r, "starting")
            /\ easy' = [easy EXCEPT ![r] = "queue"]
       ELSE /\ GoTo(r, "replace")
            /\ UNCHANGED easy
  /\ Dispatch(cm[r], Task("Construct", r, NoId))
  /\ Alive(cm[r]) => wakeup'[cm[r]]
  /\ UNCHANGED <<clientVars, lpc, inBatch, lastCall, slab, cm, hid, unpauseSent,
                 parked, sharedVars, handle, curlVars>>

\* The thread lives but cannot be woken: the easy handle is not queued, and the
\* request goes on as if the thread were gone.
SubmitRefused(r) ==
  /\ RefusalMayFail
  /\ pc[r] = "submit" /\ Alive(cm[r])
  /\ GoTo(r, "replace")
  /\ refused' = refused \cup {cm[r]}
  /\ UNCHANGED <<mgr, clientGone, loopVars, cm, hid, unpauseSent, parked,
                 sharedVars, ownerVars, curlVars>>

PollStart(r) ==
  /\ pc[r] = "starting" /\ ~parked[r]
  /\ \/ /\ result[r] \in {"InProgress", "DoneOk", "DoneErr"}
        /\ hid' = [hid EXCEPT ![r] = resId[r]]
        /\ handle' = [handle EXCEPT ![r] = "client"]
        /\ GoTo(r, "wait1")
        /\ UNCHANGED <<parked, result, easy>>
     \/ /\ result[r] = "EasyLost"
        /\ result' = [result EXCEPT ![r] = "Init"]
        /\ easy' = [easy EXCEPT ![r] = "client"]
        /\ GoTo(r, "replace")
        /\ UNCHANGED <<parked, hid, handle>>
     \/ /\ result[r] = "Init"
        /\ Park(r)
        /\ UNCHANGED <<pc, hid, handle, result, easy>>
  /\ UNCHANGED <<clientVars, loopVars, cm, unpauseSent, resId, header, buf,
                 curlVars>>

\* The retry branch of LoopManager::start_request: replace the manager
\* unless another request has already done so.
Replace(r) ==
  /\ pc[r] = "replace"
  /\ IF mgr = cm[r]
       THEN \E l \in Loops : SpawnLoop(l)
       ELSE UNCHANGED <<mgr, lpc>>
  /\ GoTo(r, "acquire")
  /\ UNCHANGED <<clientGone, refused, queue, inBatch, lastCall, wakeup, slab, cm, hid,
                 unpauseSent, parked, sharedVars, ownerVars, curlVars>>

\* Variant of ReleaseHandle: the thread is not told.
ReleaseSilently(r) ==
  /\ handle' = [handle EXCEPT ![r] = "gone"]
  /\ UNCHANGED <<queue, wakeup>>

\* RequestHandle::drop.
ReleaseHandle(r) ==
  /\ handle' = [handle EXCEPT ![r] = "gone"]
  /\ Dispatch(cm[r], Task("Drop", r, hid[r]))

\* The first poll_fn of wait_for_response; an error is taken out and returned,
\* which drops self.
PollWait1(r) ==
  /\ pc[r] = "wait1" /\ ~parked[r]
  /\ \/ /\ result[r] = "DoneErr"
        /\ result' = [result EXCEPT ![r] = "Init"]
        /\ GoTo(r, "failed")
        /\ ReleaseHandle(r)
        /\ UNCHANGED parked
     \/ /\ result[r] = "DoneOk" \/ (header[r] /\ result[r] # "DoneErr")
        /\ GoTo(r, "query")
        /\ UNCHANGED <<result, handle, queue, wakeup, parked>>
     \/ /\ ~IsDone(r) /\ ~header[r]
        /\ Park(r)
        /\ UNCHANGED <<pc, result, handle, queue, wakeup>>
  /\ UNCHANGED <<clientVars, lpc, inBatch, lastCall, slab, cm, hid, unpauseSent,
                 resId, header, buf, easy, curlVars>>

\* The handle moves into the QueryHandleResponse task, or is dropped with it.
SendQuery(r) ==
  /\ pc[r] = "query"
  /\ IF Alive(cm[r])
       THEN /\ GoTo(r, "wait2")
            /\ handle' = [handle EXCEPT ![r] = "task"]
       ELSE /\ GoTo(r, "failed")
            /\ handle' = [handle EXCEPT ![r] = "gone"]
  /\ Dispatch(cm[r], Task("Query", r, hid[r]))
  /\ UNCHANGED <<clientVars, lpc, inBatch, lastCall, slab, cm, hid, unpauseSent,
                 parked, sharedVars, easy, curlVars>>

\* The second poll_fn of wait_for_response: the response, which carries the
\* handle, comes before an error.
PollWait2(r) ==
  /\ pc[r] = "wait2" /\ ~parked[r]
  /\ \/ /\ handle[r] = "shared"
        /\ handle' = [handle EXCEPT ![r] = "client"]
        /\ GoTo(r, "open")
        /\ UNCHANGED <<result, parked>>
     \/ /\ handle[r] # "shared" /\ result[r] = "DoneErr"
        /\ result' = [result EXCEPT ![r] = "Init"]
        /\ GoTo(r, "failed")
        /\ UNCHANGED <<handle, parked>>
     \/ /\ handle[r] # "shared" /\ result[r] # "DoneErr"
        /\ Park(r)
        /\ UNCHANGED <<pc, handle, result>>
  /\ UNCHANGED <<clientVars, loopVars, cm, hid, unpauseSent, resId, header, buf,
                 easy, curlVars>>

\* The caller drops the future of request() at one of its await points.
Cancel(r) ==
  /\ MayCancel
  /\ pc[r] \in {"acquire", "replace", "starting", "wait1", "wait2"}
  /\ GoTo(r, "cancelled")
  /\ IF pc[r] \in {"acquire", "replace"}
       THEN easy' = [easy EXCEPT ![r] = "freed"]
       ELSE UNCHANGED easy
  /\ IF pc[r] = "wait1"
       THEN ReleaseHandle(r)
       ELSE UNCHANGED <<handle, queue, wakeup>>
  /\ parked' = [parked EXCEPT ![r] = FALSE]
  /\ UNCHANGED <<clientVars, lpc, inBatch, lastCall, slab, cm, hid, unpauseSent,
                 sharedVars, curlVars>>

-----------------------------------------------------------------------------
(* The response body, read by the caller through poll_bytes.               *)

CanRead(r) ==
  \/ pc[r] = "open"
  \/ pc[r] = "reading" /\ ~parked[r]
  \/ pc[r] = "end" /\ MayRereadEnd

\* poll_bytes hands the buffer to the callback, which drains it or refuses it
\* (ResponseTooLarge).
ReadData(r) ==
  /\ CanRead(r) /\ buf[r]
  /\ \/ /\ buf' = [buf EXCEPT ![r] = FALSE]
        /\ GoTo(r, "open")
     \/ /\ GoTo(r, "broken")
        /\ UNCHANGED buf
  /\ unpauseSent' = [unpauseSent EXCEPT ![r] = FALSE]
  /\ UNCHANGED <<clientVars, loopVars, cm, hid, parked, result, resId, header,
                 ownerVars, curlVars>>

\* poll_bytes takes the result out whatever it is; Done ends the body.
ReadEnd(r) ==
  /\ CanRead(r) /\ ~buf[r] /\ IsDone(r)
  /\ result' = [result EXCEPT ![r] = "Init"]
  /\ GoTo(r, IF result[r] = "DoneOk" THEN "end" ELSE "broken")
  /\ unpauseSent' = [unpauseSent EXCEPT ![r] = FALSE]
  /\ UNCHANGED <<clientVars, loopVars, cm, hid, parked, resId, header, buf,
                 ownerVars, curlVars>>

ReadWait(r) ==
  /\ CanRead(r) /\ ~buf[r] /\ ~IsDone(r)
  /\ result' = [result EXCEPT ![r] = "Init"]
  /\ IF unpauseSent[r]
       THEN UNCHANGED <<queue, wakeup>>
       ELSE Dispatch(cm[r], Task("UnpauseRecv", r, hid[r]))
  /\ unpauseSent' = [unpauseSent EXCEPT ![r] = TRUE]
  /\ Park(r)
  /\ GoTo(r, "reading")
  /\ UNCHANGED <<clientVars, lpc, inBatch, lastCall, slab, cm, hid, resId, header,
                 buf, ownerVars, curlVars>>

\* The caller drops the response.
Close(r) ==
  /\ pc[r] \in BodyPc
  /\ GoTo(r, "closed")
  /\ ReleaseHandle(r)
  /\ parked' = [parked EXCEPT ![r] = FALSE]
  /\ UNCHANGED <<clientVars, lpc, inBatch, lastCall, slab, cm, hid, unpauseSent,
                 sharedVars, easy, curlVars>>

\* LoopManager::drop; request() borrows the client, a response does not.
DropClient ==
  /\ ~clientGone
  /\ \A r \in Req : pc[r] \notin FuturePc
  /\ clientGone' = TRUE
  /\ Dispatch(mgr, Task("Shutdown", NoReq, NoId))
  /\ UNCHANGED <<mgr, refused, lpc, inBatch, lastCall, slab, futureVars, sharedVars,
                 ownerVars, curlVars>>

-----------------------------------------------------------------------------
(* run_loop.                                                               *)

\* Variant of PollReturn: the batch is worked off from its end.
PollReturnReversed(l) ==
  /\ lpc[l] = "poll"
  /\ lpc' = [lpc EXCEPT ![l] = "drain"]
  /\ inBatch' = [inBatch EXCEPT ![l] = Len(queue[l])]
  /\ queue' = [queue EXCEPT ![l] = [k \in DOMAIN @ |-> @[Len(@) + 1 - k]]]
  /\ wakeup' = [wakeup EXCEPT ![l] = FALSE]
  /\ UNCHANGED <<clientVars, lastCall, slab, futureVars, sharedVars, ownerVars,
                 curlVars>>

\* multi.poll returns (wake-up, socket activity or 120 s) and the task deque
\* is swapped out.
PollReturn(l) ==
  /\ lpc[l] = "poll"
  /\ lpc' = [lpc EXCEPT ![l] = "drain"]
  /\ inBatch' = [inBatch EXCEPT ![l] = Len(queue[l])]
  /\ wakeup' = [wakeup EXCEPT ![l] = FALSE]
  /\ UNCHANGED <<clientVars, queue, lastCall, slab, futureVars, sharedVars,
                 ownerVars, curlVars>>

HasTask(l, kind) ==
  lpc[l] = "drain" /\ inBatch[l] > 0 /\ Head(queue[l]).kind = kind

DrainDone(l) ==
  /\ lpc[l] = "drain" /\ inBatch[l] = 0
  /\ lpc' = [lpc EXCEPT ![l] = "perform"]
  /\ UNCHANGED <<clientVars, queue, inBatch, lastCall, wakeup, slab, futureVars,
                 sharedVars, ownerVars, curlVars>>

\* LoopTask::ConstructHandle: multi.add takes any vacant slab key.
ConstructHandle(l) ==
  /\ HasTask(l, "Construct")
  /\ LET r == Head(queue[l]).req IN
     /\ \E i \in Ids :
          /\ slab[l][i] = NoReq
          /\ slab' = [slab EXCEPT ![l][i] = r]
          /\ resId' = [resId EXCEPT ![r] = i]
     /\ result' = [result EXCEPT ![r] = "InProgress"]
     /\ easy' = [easy EXCEPT ![r] = "slab"]
     /\ xfer' = [xfer EXCEPT ![r] = "headers"]
     /\ Wake(r)
  /\ lastCall' = [lastCall EXCEPT ![l] = FALSE]
  /\ Take(l)
  /\ UNCHANGED <<clientVars, lpc, pc, cm, hid, unpauseSent, header, buf, handle,
                 left>>

\* LoopTask::QueryHandleResponse, key found: the response, with the handle in
\* it, is stored in the shared state.
QueryStored(l) ==
  /\ HasTask(l, "Query")
  /\ LET t == Head(queue[l]) IN
     /\ slab[l][t.id] # NoReq
     /\ handle' = [handle EXCEPT ![t.req] = "shared"]
     /\ Wake(t.req)
  /\ Take(l)
  /\ UNCHANGED <<clientVars, lpc, lastCall, slab, pc, cm, hid, unpauseSent,
                 sharedVars, easy, curlVars>>

\* Key vacant, or getinfo fails: the error is recorded and the handle dropped.
QueryFailed(l) ==
  /\ HasTask(l, "Query")
  /\ LET t == Head(queue[l]) IN
     /\ slab[l][t.id] = NoReq \/ InfoMayFail
     /\ result' = [result EXCEPT ![t.req] = "DoneErr"]
     /\ resId' = [resId EXCEPT ![t.req] = t.id]
     /\ handle' = [handle EXCEPT ![t.req] = "gone"]
     /\ Wake(t.req)
     /\ TakeAndDispatch(l, Task("Drop", t.req, t.id))
  /\ UNCHANGED <<clientVars, lpc, lastCall, slab, pc, cm, hid, unpauseSent, header,
                 buf, easy, curlVars>>

\* LoopTask::UnpauseRecvHandle.
UnpauseRecv(l) ==
  /\ HasTask(l, "UnpauseRecv")
  /\ LET o == slab[l][Head(queue[l]).id] IN
     IF o \in Req /\ xfer[o] = "paused"
       THEN xfer' = [xfer EXCEPT ![o] = "flowing"]
       ELSE UNCHANGED xfer
  /\ Take(l)
  /\ UNCHANGED <<clientVars, lpc, lastCall, slab, futureVars, sharedVars,
                 ownerVars, left>>

UnpauseRecvFailed(l) ==
  /\ LateUnpauseFails
  /\ HasTask(l, "UnpauseRecv")
  /\ LET i == Head(queue[l]).id
         o == slab[l][i] IN
     /\ o \in Req
     /\ xfer[o] = "finished"
     /\ result' = [result EXCEPT ![o] = "DoneErr"]
     /\ resId' = [resId EXCEPT ![o] = i]
     /\ Wake(o)
  /\ Take(l)
  /\ UNCHANGED <<clientVars, lpc, lastCall, slab, pc, cm, hid, unpauseSent, header,
                 buf, ownerVars, curlVars>>

\* Variant of DropHandle: the easy handle goes, its key stays taken.
DropHandleKeepingKey(l) ==
  /\ HasTask(l, "Drop")
  /\ LET o == slab[l][Head(queue[l]).id] IN
     IF o \in Req
       THEN /\ easy' = [easy EXCEPT ![o] = "freed"]
            /\ xfer' = [xfer EXCEPT ![o] = "none"]
       ELSE UNCHANGED <<easy, xfer>>
  /\ Take(l)
  /\ UNCHANGED <<clientVars, lpc, lastCall, slab, futureVars, sharedVars, handle, left>>

\* LoopTask::DropHandle removes whatever easy handle has the key.
DropHandle(l) ==
  /\ HasTask(l, "Drop")
  /\ LET i == Head(queue[l]).id
         o == slab[l][i] IN
     IF o \in Req
       THEN /\ slab' = [slab EXCEPT ![l][i] = NoReq]
            /\ easy' = [easy EXCEPT ![o] = "freed"]
            /\ xfer' = [xfer EXCEPT ![o] = "none"]
       ELSE UNCHANGED <<slab, easy, xfer>>
  /\ Take(l)
  /\ UNCHANGED <<clientVars, lpc, lastCall, futureVars, sharedVars, handle, left>>

Shutdown(l) ==
  /\ HasTask(l, "Shutdown")
  /\ lastCall' = [lastCall EXCEPT ![l] = TRUE]
  /\ Take(l)
  /\ UNCHANGED <<clientVars, lpc, slab, futureVars, sharedVars, ownerVars,
                 curlVars>>

\* AsyncHandler::header at the end of the final header block: receiving is
\* paused until the body is asked for.
HeaderCallback(l, r) ==
  /\ lpc[l] = "perform" /\ r \in Owned(l) /\ xfer[r] = "headers"
  /\ header' = [header EXCEPT ![r] = TRUE]
  /\ xfer' = [xfer EXCEPT ![r] = "paused"]
  /\ Wake(r)
  /\ UNCHANGED <<clientVars, loopVars, pc, cm, hid, unpauseSent, result, resId,
                 buf, ownerVars, left>>

\* AsyncHandler::write: a second buffer is refused with Pause.
WriteCallback(l, r) ==
  /\ lpc[l] = "perform" /\ r \in Owned(l)
  /\ xfer[r] \in {"headers", "flowing"} /\ left[r] > 0
  /\ IF buf[r]
       THEN /\ xfer' = [xfer EXCEPT ![r] = "paused"]
            /\ UNCHANGED <<buf, header, left>>
       ELSE /\ buf' = [buf EXCEPT ![r] = TRUE]
            /\ header' = [header EXCEPT ![r] = TRUE]
            /\ xfer' = [xfer EXCEPT ![r] = "flowing"]
            /\ left' = [left EXCEPT ![r] = @ - 1]
  /\ Wake(r)
  /\ UNCHANGED <<clientVars, loopVars, pc, cm, hid, unpauseSent, result, resId,
                 ownerVars>>

\* Inside curl_multi_perform a transfer completes; its message is queued.
Complete(l, r, outcome) ==
  /\ lpc[l] = "perform" /\ r \in Owned(l)
  /\ xfer[r] \in {"headers", "paused", "flowing"}
  /\ outcome = "okMsg" => left[r] = 0
  /\ xfer' = [xfer EXCEPT ![r] = outcome]
  /\ UNCHANGED <<clientVars, loopVars, futureVars, sharedVars, ownerVars, left>>

\* The messages of a round are published to the requests they concern.
Publish(l, S) ==
  /\ result' = [r \in Req |-> IF r \notin S THEN result[r]
                              ELSE IF xfer[r] = "okMsg" THEN "DoneOk" ELSE "DoneErr"]
  /\ resId' = [r \in Req |-> IF r \in S THEN CHOOSE i \in Ids : slab[l][i] = r
                             ELSE resId[r]]
  /\ xfer' = [r \in Req |-> IF r \in S THEN "finished" ELSE xfer[r]]

\* Variants of EndOfRound: the thread ends although transfers are left, or
\* forgets a shutdown it has seen in a round with transfers.
EndOfRoundEarly(l) ==
  /\ lpc' = [lpc EXCEPT ![l] = IF lastCall[l] THEN "exiting" ELSE "poll"]
  /\ lastCall' = [lastCall EXCEPT ![l] = @ \/ Owned(l) = {}]

EndOfRoundForgetting(l) ==
  /\ lpc' = [lpc EXCEPT ![l] = IF Owned(l) = {} /\ lastCall[l] THEN "exiting" ELSE "poll"]
  /\ lastCall' = [lastCall EXCEPT ![l] = FALSE]

\* With an empty slab the thread ends on the last call, which this round makes.
EndOfRound(l) ==
  IF Owned(l) = {}
    THEN /\ lpc' = [lpc EXCEPT ![l] = IF lastCall[l] THEN "exiting" ELSE "poll"]
         /\ lastCall' = [lastCall EXCEPT ![l] = TRUE]
    ELSE /\ lpc' = [lpc EXCEPT ![l] = "poll"]
         /\ UNCHANGED lastCall

\* Variant of Messages: the requests are not woken.
MessagesSilent(l) ==
  /\ lpc[l] = "perform"
  /\ Publish(l, {r \in Owned(l) : xfer[r] \in {"okMsg", "errMsg"}})
  /\ EndOfRound(l)
  /\ UNCHANGED <<clientVars, queue, inBatch, wakeup, slab, futureVars, header, buf,
                 ownerVars, left>>

\* multi.messages, then the end of the iteration.
Messages(l) ==
  /\ lpc[l] = "perform"
  /\ LET S == {r \in Owned(l) : xfer[r] \in {"okMsg", "errMsg"}} IN
     Publish(l, S) /\ WakeAll(S)
  /\ EndOfRound(l)
  /\ UNCHANGED <<clientVars, queue, inBatch, wakeup, slab, pc, cm, hid,
                 unpauseSent, header, buf, ownerVars, left>>

\* Variant of LoopFail: the failure of the thread overrides every outcome.
LoopFailOverriding(l) ==
  /\ LoopMayFail
  /\ lpc[l] = "perform"
  /\ result' = [r \in Req |-> IF r \in Owned(l) THEN "DoneErr" ELSE result[r]]
  /\ WakeAll(Owned(l))
  /\ lpc' = [lpc EXCEPT ![l] = "exiting"]
  /\ UNCHANGED <<clientVars, queue, inBatch, lastCall, wakeup, slab, pc, cm, hid,
                 unpauseSent, resId, header, buf, ownerVars, curlVars>>

\* poll or perform failed: every request that is not Done gets the error.
LoopFail(l) ==
  /\ LoopMayFail
  /\ lpc[l] = "perform"
  /\ LET S == {r \in Owned(l) : ~IsDone(r)} IN
     /\ result' = [r \in Req |-> IF r \in S THEN "DoneErr" ELSE result[r]]
     /\ resId' = [r \in Req |-> IF r \in S THEN CHOOSE i \in Ids : slab[l][i] = r
                                ELSE resId[r]]
     /\ WakeAll(S)
  /\ lpc' = [lpc EXCEPT ![l] = "exiting"]
  /\ UNCHANGED <<clientVars, queue, inBatch, lastCall, wakeup, slab, pc, cm, hid,
                 unpauseSent, header, buf, ownerVars, curlVars>>

\* Variant of GiveBack: the futures of the easy handles are not woken.
GiveBackSilently(l) ==
  /\ result' = [r \in Req |-> IF r \in Queued(l, "Construct") THEN "EasyLost" ELSE result[r]]
  /\ UNCHANGED parked

\* LoopManagerInner::drop hands each queued easy handle back to its future.
GiveBack(l) ==
  LET lost == Queued(l, "Construct") IN
  /\ result' = [r \in Req |-> IF r \in lost THEN "EasyLost" ELSE result[r]]
  /\ WakeAll(lost)

\* run_loop returns: queued easy handles go back, the other tasks are dropped,
\* then the multi handle and the slab.
DropInner(l) ==
  /\ lpc[l] = "exiting"
  /\ GiveBack(l)
  /\ easy' = [r \in Req |-> IF r \in Queued(l, "Construct") THEN "shared"
                            ELSE IF r \in Owned(l) THEN "freed" ELSE easy[r]]
  /\ handle' = [r \in Req |-> IF r \in Queued(l, "Query") THEN "gone" ELSE handle[r]]
  /\ lpc' = [lpc EXCEPT ![l] = "dead"]
  /\ queue' = [queue EXCEPT ![l] = << >>]
  /\ wakeup' = [wakeup EXCEPT ![l] = FALSE]
  /\ slab' = [slab EXCEPT ![l] = [i \in Ids |-> NoReq]]
  /\ xfer' = [r \in Req |-> IF r \in Owned(l) THEN "none" ELSE xfer[r]]
  /\ UNCHANGED <<clientVars, inBatch, lastCall, pc, cm, hid, unpauseSent, resId,
                 header, buf, left>>


-----------------------------------------------------------------------------

PollFuture(r) ==
  Acquire(r) \/ Submit(r) \/ SubmitRefused(r) \/ PollStart(r) \/ Replace(r)
    \/ PollWait1(r) \/ SendQuery(r) \/ PollWait2(r)

PollBody(r) == ReadData(r) \/ ReadEnd(r) \/ ReadWait(r)

DrainTask(l) ==
  ConstructHandle(l) \/ QueryStored(l) \/ QueryFailed(l) \/ UnpauseRecv(l)
    \/ UnpauseRecvFailed(l) \/ DropHandle(l) \/ Shutdown(l)

Perform(l, r) ==
  HeaderCallback(l, r) \/ WriteCallback(l, r)
    \/ Complete(l, r, "okMsg") \/ Complete(l, r, "errMsg")

LoopThread(l) == DrainTask(l) \/ DrainDone(l) \/ Messages(l) \/ DropInner(l)

Next ==
  \/ \E r \in Req : Begin(r) \/ PollFuture(r) \/ Cancel(r) \/ PollBody(r) \/ Close(r)
  \/ DropClient
  \/ \E l \in Loops : PollReturn(l) \/ LoopThread(l) \/ LoopFail(l)
  \/ \E l \in Loops, r \in Req : Perform(l, r)

Spec == Init /\ [][Next]_vars

-----------------------------------------------------------------------------
(* Fairness.                                                               *)

\* curl_multi_poll has a reason to return before its 120 s are over.
PromptReturn(l) ==
  /\ wakeup[l] \/ \E r \in Owned(l) : xfer[r] \in {"headers", "flowing"}
  /\ PollReturn(l)

\* An executor polls every woken task, a thread that can run does, a server
\* answers, and curl_multi_poll honours its wake-ups and sockets.  Nothing
\* makes a caller begin, cancel, read on or close.
Fairness ==
  /\ \A r \in Req : WF_vars(PollFuture(r) \/ (pc[r] = "reading" /\ PollBody(r)))
  /\ \A l \in Loops : WF_vars(LoopThread(l) \/ PromptReturn(l))
  /\ \A r \in Req : SF_vars(\E l \in Loops : Perform(l, r))

FairSpec == Spec /\ Fairness

\* In addition the 120 s timeout of curl_multi_poll expires, and a caller that
\* has a response, and no read pending, ends up closing it.
PatientSpec ==
  /\ FairSpec
  /\ \A l \in Loops : WF_vars(PollReturn(l))
  /\ \A r \in Req : WF_vars(pc[r] # "reading" /\ Close(r))

-----------------------------------------------------------------------------
(* Safety.                                                                 *)

\* Every field keeps its type: keys, queues, results and the futures' positions.
TypeOK ==
  /\ mgr \in Loops \cup {NoLoop}
  /\ clientGone \in BOOLEAN
  /\ refused \subseteq Loops
  /\ lpc \in [Loops -> {"unborn", "poll", "drain", "perform", "exiting", "dead"}]
  /\ queue \in [Loops -> Seq(LoopTask)]
  /\ inBatch \in [Loops -> Nat]
  /\ \A l \in Loops : lpc[l] # "dead" => inBatch[l] <= Len(queue[l])
  /\ lastCall \in [Loops -> BOOLEAN]
  /\ wakeup \in [Loops -> BOOLEAN]
  /\ slab \in [Loops -> [Ids -> Req \cup {NoReq}]]
  /\ pc \in [Req -> {"idle"} \cup FuturePc \cup BodyPc \cup FinalPc]
  /\ cm \in [Req -> Loops \cup {NoLoop}]
  /\ hid \in [Req -> Ids \cup {NoId}]
  /\ unpauseSent \in [Req -> BOOLEAN]
  /\ parked \in [Req -> BOOLEAN]
  /\ result \in [Req -> RequestResult]
  /\ resId \in [Req -> Ids \cup {NoId}]
  /\ header \in [Req -> BOOLEAN]
  /\ buf \in [Req -> BOOLEAN]
  /\ easy \in [Req -> {"none", "client", "queue", "slab", "shared", "freed"}]
  /\ handle \in [Req -> {"none", "client", "task", "shared", "gone"}]
  /\ xfer \in [Req -> {"none", "headers", "paused", "flowing", "okMsg", "errMsg",
                       "finished"}]
  /\ left \in [Req -> 0..MaxChunks]

Held(r) == handle[r] \in {"client", "task", "shared"}

\* A RequestHandle, wherever it is, addresses its own easy handle: as long as
\* the thread it was given lives, the slab key in it is that of its request.
\* It is what makes "handle not found" in QueryHandleResponse unreachable.
HandleFindsItsEasy ==
  \A r \in Req : Held(r) /\ Alive(cm[r]) => hid[r] \in Ids /\ slab[cm[r]][hid[r]] = r

\* A key that waits in a DropHandle task is still that of the request whose
\* handle was dropped, and waits there once: a key reused by a later request
\* can never be removed by the drop of an earlier one.
DropTargetsReleased ==
  \A l \in Loops : \A k \in DOMAIN queue[l] :
    queue[l][k].kind = "Drop" =>
      /\ queue[l][k].id \in Ids
      /\ slab[l][queue[l][k].id] = queue[l][k].req
      /\ handle[queue[l][k].req] = "gone"
      /\ \A j \in DOMAIN queue[l] :
           queue[l][j].kind = "Drop" /\ queue[l][j].id = queue[l][k].id => j = k

\* An UnpauseRecvHandle task never reaches another request's transfer: the
\* queue is first in, first out, and a handle is dropped after its last poll.
UnpauseTargetsSender ==
  \A l \in Loops : \A k \in DOMAIN queue[l] :
    queue[l][k].kind = "UnpauseRecv" => slab[l][queue[l][k].id] = queue[l][k].req

\* Every slab key in use, in a handle or in a queued task, is still that of the
\* request it was given to.
HandlesAreCurrent ==
  HandleFindsItsEasy /\ DropTargetsReleased /\ UnpauseTargetsSender

\* A request whose transfer is in progress was started on the client's current
\* thread: batch_unpause_send goes through the client's manager, not through the
\* one in the RequestHandle, and its key must mean the same there.  The one way
\* to another manager is a thread that could not be woken when a request was
\* submitted, and is replaced with its transfers still running.
InProgressOnCurrentLoop ==
  \A r \in Req :
    pc[r] \in {"wait1", "query", "wait2"} /\ result[r] = "InProgress" =>
      cm[r] = mgr \/ cm[r] \in refused

\* The easy handle is in exactly one place: with the future, in one
\* ConstructHandle task, under one key of one slab, in the EasyLost result, or
\* freed.  Two places would be a double free, none a lost request.
EasyInOnePlace ==
  \A r \in Req :
    /\ easy[r] = "client" <=> pc[r] \in {"acquire", "submit", "replace"}
    /\ easy[r] = "shared" <=> result[r] = "EasyLost"
    /\ \A l \in Loops :
         /\ r \in Queued(l, "Construct") <=> easy[r] = "queue" /\ l = cm[r]
         /\ r \in Owned(l) <=> easy[r] = "slab" /\ l = cm[r]
         /\ \A i, j \in Ids : slab[l][i] = r /\ slab[l][j] = r => i = j

\* A transfer is dropped after its request has released it or has been told an
\* outcome, never under a request that waits: an orderly end of the thread finds
\* the slab empty, and a failing thread tells everyone first.
Told(r) == handle[r] = "gone" \/ IsDone(r) \/ pc[r] \in {"end", "broken"} \cup FinalPc

NoLiveTransferLost ==
  [][\A r \in Req : easy[r] = "slab" /\ easy'[r] = "freed" => Told(r)]_vars

\* A success that is published and not yet taken is not replaced by an error:
\* not by the failure of the thread, nor by a message or a task of another
\* request.  The steps that may do it are the request's own query, when the
\* response cannot be made, and its own unpause, when it reaches curl after the
\* transfer has completed and curl refuses it.
OwnQueryFails(r) ==
  /\ InfoMayFail
  /\ HasTask(cm[r], "Query") /\ Head(queue[cm[r]]).req = r

OwnUnpauseFails(r) ==
  /\ LateUnpauseFails
  /\ HasTask(cm[r], "UnpauseRecv") /\ Head(queue[cm[r]]).req = r
  /\ xfer[r] = "finished"

SuccessIsKept ==
  [][\A r \in Req :
       result[r] = "DoneOk" /\ result'[r] = "DoneErr" =>
         OwnQueryFails(r) \/ OwnUnpauseFails(r)]_vars

-----------------------------------------------------------------------------
(* The inductive invariant: who may own what at each point of a request's  *)
(* life, and which task may stand for it in a queue.                       *)

\* A slab entry, the owner of the easy handle and the published key agree.
SlabConsistent ==
  /\ \A r \in Req : easy[r] = "slab" =>
       Alive(cm[r]) /\ resId[r] \in Ids /\ slab[cm[r]][resId[r]] = r
  /\ \A l \in Loops, i \in Ids : slab[l][i] \in Req =>
       easy[slab[l][i]] = "slab" /\ cm[slab[l][i]] = l /\ resId[slab[l][i]] = i

\* A live handle stands for an easy handle in the slab, under the same key.
HandleConsistent ==
  \A r \in Req : Held(r) /\ Alive(cm[r]) => easy[r] = "slab" /\ hid[r] = resId[r]

\* What a future may own at each of its points.
FutureConsistent ==
  \A r \in Req :
    /\ easy[r] = "client" <=> pc[r] \in {"acquire", "submit", "replace"}
    /\ easy[r] = "none" <=> pc[r] = "idle"
    /\ easy[r] = "shared" <=> result[r] = "EasyLost"
    /\ pc[r] \in {"idle", "acquire", "submit", "starting", "replace"} => handle[r] = "none"
    /\ pc[r] \in {"wait1", "query"} \cup BodyPc => handle[r] = "client"
    /\ easy[r] \in {"none", "client", "queue"} => result[r] = "Init"
    /\ easy[r] \in {"queue", "shared"} => handle[r] = "none"
    /\ handle[r] = "none" /\ Alive(cm[r]) /\ result[r] \in {"InProgress", "DoneOk", "DoneErr"}
         => easy[r] = "slab"

\* What a queued task says of its request.
TaskOK(l, t) ==
  /\ Alive(l)
  /\ t.kind # "Shutdown" => t.req \in Req /\ cm[t.req] = l
  /\ t.kind = "Construct" => easy[t.req] = "queue"
  /\ t.kind = "Query" => handle[t.req] = "task" /\ t.id = hid[t.req]
  /\ t.kind \in {"Drop", "UnpauseRecv"} =>
       easy[t.req] = "slab" /\ t.id = hid[t.req] /\ hid[t.req] = resId[t.req]
  /\ t.kind = "Drop" => handle[t.req] = "gone"

TaskConsistent == \A l \in Loops : \A t \in Tasks(l) : TaskOK(l, t)

\* Construct, Query and Drop stand at most once for a request, and Drop is the
\* last of its tasks.
Before(s, t) ==
  s.req = t.req =>
    /\ s.kind # "Drop"
    /\ s.kind \in {"Construct", "Query"} => s.kind # t.kind

Ordered(q) == \A j, k \in DOMAIN q : j < k => Before(q[j], q[k])
TaskOrder  == \A l \in Loops : Ordered(queue[l])

\* A manager the client or a request holds was sent back by a started thread.
ManagersStarted ==
  /\ mgr \in Loops => lpc[mgr] # "unborn"
  /\ \A r \in Req : cm[r] \in Loops => lpc[cm[r]] # "unborn"

IndInv == TypeOK /\ ManagersStarted /\ SlabConsistent /\ HandleConsistent
            /\ FutureConsistent /\ TaskConsistent /\ TaskOrder

-----------------------------------------------------------------------------
(* Liveness.                                                               *)

\* The model has run out of threads to replace the dead one with.
OutOfLoops(r) ==
  pc[r] \in {"acquire", "replace"} /\ \A l \in Loops : lpc[l] # "unborn"

\* A request future is eventually ready, whatever threads end under it: no
\* wake-up is lost and a lost easy handle is resubmitted.
RequestResolves ==
  \A r \in Req : pc[r] \in FuturePc ~> (pc[r] \notin FuturePc \/ OutOfLoops(r))

\* A pending read of the body is eventually answered with data, the end, or an
\* error.
ReadResolves == \A r \in Req : pc[r] = "reading" ~> pc[r] # "reading"

\* A dropped RequestHandle eventually frees its easy handle.
ReleasedIsFreed == \A r \in Req : handle[r] = "gone" ~> easy[r] = "freed"

\* Once the client is gone and no request owns an easy handle any more, no
\* thread stays: the Shutdown task or two idle rounds end it.
LoopsEnd ==
  \A l \in Loops :
    (clientGone /\ \A r \in Req : handle[r] = "gone" \/ easy[r] \in {"none", "freed"})
      ~> ~Alive(l)

=============================================================================
