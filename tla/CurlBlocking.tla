---------------------------- MODULE CurlBlocking ----------------------------
(***************************************************************************)
(* The blocking client of the curl backend.  Threads share a client; a     *)
(* request takes the multi handle, with its one easy handle, out of the    *)
(* client's slot or makes a new one, drives the transfer from its own      *)
(* thread, and gives the handle back, reset, when the response is dropped. *)
(*                                                                         *)
(* A handle belongs to one thread at a time, so a round of poll_until is   *)
(* one action; what the threads interleave on is the slot and its mutex.   *)
(***************************************************************************)
EXTENDS Naturals, Sequences, SequencesExt

CONSTANTS
  Threads,      \* threads that use the client
  MaxRequests,  \* bound on the requests they make
  BodyLen,      \* pieces of a response body
  Limit,        \* max_response_buffer_size, in pieces
  MayFail,      \* a transfer, or the setup of a request, may fail
  MayRefuse     \* curl_multi_add_handle or _remove_handle may fail

ASSUME CurlBlockingAssumption ==
  /\ {MaxRequests, BodyLen, Limit} \subseteq Nat
  /\ {MayFail, MayRefuse} \subseteq BOOLEAN
  /\ "free" \notin Threads

Handles  == 1..MaxRequests
Requests == 1..MaxRequests
Nothing  == 0

VARIABLES
  pc,        \* where each thread is in its request
  req,       \* the request it works on
  mine,      \* the handle in its EasyHandleGuard
  got,       \* body pieces its caller has been given
  seen,      \* the requests whose header or body it has been given
  told,      \* its caller has been told that the transfer failed
  asked,     \* requests made so far
  made,      \* handles made so far
  slot,      \* MultiEasySlot.multi_easy: the handle in it
  lock,      \* ... the thread that holds its mutex
  poisoned,  \* ... that thread panicked
  easy,      \* the handles whose set holds the easy handle
  xfer,      \* each handle's transfer, in curl
  sent,      \* body pieces curl has passed to the write callback
  header,    \* RequestState.header_finished and response_headers_buffer
  body       \* RequestState.response_buffer

threadVars == <<pc, req, mine, got, seen, told>>
slotVars   == <<slot, lock, poisoned>>
handleVars == <<easy, xfer, sent, header, body>>
vars == <<threadVars, asked, made, slotVars, handleVars>>

-----------------------------------------------------------------------------

Init ==
  /\ pc = [t \in Threads |-> "idle"]
  /\ req = [t \in Threads |-> Nothing] /\ mine = [t \in Threads |-> Nothing]
  /\ got = [t \in Threads |-> 0] /\ seen = [t \in Threads |-> {}]
  /\ told = [t \in Threads |-> FALSE]
  /\ asked = 0 /\ made = 0
  /\ slot = Nothing /\ lock = "free" /\ poisoned = FALSE
  /\ easy = {}
  /\ xfer = [h \in Handles |-> "idle"] /\ sent = [h \in Handles |-> 0]
  /\ header = [h \in Handles |-> Nothing] /\ body = [h \in Handles |-> <<>>]

Goto(t, p) == pc' = [pc EXCEPT ![t] = p]

-----------------------------------------------------------------------------
(* get_or_create_handle.                                                   *)

Lock(t) ==
  /\ pc[t] = "idle" /\ asked < MaxRequests /\ lock = "free"
  /\ asked' = asked + 1
  /\ IF poisoned
       THEN Goto(t, "panicked") /\ UNCHANGED <<req, lock>>
       ELSE /\ Goto(t, "take") /\ lock' = t
            /\ req' = [req EXCEPT ![t] = asked + 1]
  /\ got' = [got EXCEPT ![t] = 0] /\ seen' = [seen EXCEPT ![t] = {}]
  /\ told' = [told EXCEPT ![t] = FALSE]
  /\ UNCHANGED <<mine, made, slot, poisoned, handleVars>>

\* Variant of EmptySlot: the handle stays in the slot.
LeaveSlot == UNCHANGED slot

\* slot.take().
EmptySlot == slot' = Nothing

Take(t) ==
  /\ pc[t] = "take"
  /\ lock' = "free"
  /\ EmptySlot
  /\ \/ /\ slot # Nothing
        /\ mine' = [mine EXCEPT ![t] = slot]
        /\ Goto(t, "populate")
        /\ UNCHANGED <<made, easy>>
     \/ /\ slot = Nothing
        /\ made' = made + 1
        /\ mine' = [mine EXCEPT ![t] = made + 1]
        /\ easy' = easy \cup {made + 1}
        /\ Goto(t, "populate")
     \/ /\ slot = Nothing /\ MayFail
        /\ Goto(t, "idle")
        /\ UNCHANGED <<mine, made, easy>>
  /\ UNCHANGED <<req, got, seen, told, asked, poisoned, xfer, sent, header, body>>

\* populate_request on the detached easy handle.  A refused detach or attach
\* loses the easy handle; a failure in between does not.
Populate(t) ==
  /\ pc[t] = "populate"
  /\ \/ /\ Goto(t, "headers")
        /\ xfer' = [xfer EXCEPT ![mine[t]] = "running"]
        /\ UNCHANGED easy
     \/ /\ MayFail
        /\ Goto(t, "drop")
        /\ UNCHANGED <<xfer, easy>>
     \/ /\ MayRefuse
        /\ Goto(t, "drop")
        /\ easy' = easy \ {mine[t]}
        /\ UNCHANGED xfer
  /\ UNCHANGED <<req, mine, got, seen, told, asked, made, slotVars, sent, header, body>>

-----------------------------------------------------------------------------
(* poll_until.                                                             *)

\* curl_multi_wait and curl_multi_perform for handle h with request r: n pieces
\* of the body, after the header, and perhaps the end of the transfer.  `end` is
\* "idle" when there is no transfer to go on with, "refused" when a call fails.
Perform(h, r, n, end) ==
  \/ /\ xfer[h] = "running" /\ end \in {"running", "ok", "failed"}
     /\ end = "ok" => sent[h] + n = BodyLen
     /\ end = "failed" => MayFail
     /\ n \in 0..(BodyLen - sent[h])
     /\ sent' = [sent EXCEPT ![h] = @ + n]
     /\ xfer' = [xfer EXCEPT ![h] = end]
     /\ \E it \in IF n > 0 \/ end = "ok" THEN {r} ELSE {header[h], r} :
          header' = [header EXCEPT ![h] = it]
  \/ /\ n = 0
     /\ (end = "idle" /\ xfer[h] # "running") \/ (end = "refused" /\ MayRefuse)
     /\ UNCHANGED <<sent, xfer, header>>

\* Variant of Verdict: no transfer running counts before the message is read.
VerdictByCount(end, stop) ==
  IF end = "refused" THEN "error"
  ELSE IF end \in {"ok", "failed", "idle"} \/ stop THEN "return" ELSE "again"

\* A failed call or a DONE message decides, then the number of running
\* transfers, then the caller's condition.
Verdict(end, stop) ==
  IF end \in {"failed", "refused"} THEN "error"
  ELSE IF end \in {"ok", "idle"} \/ stop THEN "return" ELSE "again"

Arrived(h, r, n) == body[h] \o [i \in 1..n |-> r]

\* poll_until_response_headers, and the header buffer if it returns.
PollHeaders(t) ==
  /\ pc[t] = "headers"
  /\ \E n \in 0..BodyLen, end \in {"running", "ok", "failed", "idle", "refused"} :
       LET h == mine[t] IN
       /\ Perform(h, req[t], n, end)
       /\ body' = [body EXCEPT ![h] = Arrived(h, req[t], n)]
       /\ LET verdict == Verdict(end, header'[h] # Nothing) IN
            /\ Goto(t, CASE verdict = "again"  -> "headers"
                         [] verdict = "return" -> "open"
                         [] verdict = "error"  -> "drop")
            /\ seen' = IF verdict = "return"
                         THEN [seen EXCEPT ![t] = @ \cup {header'[h]}] ELSE seen
  /\ UNCHANGED <<req, mine, got, told, asked, made, slotVars, easy>>

\* The first k pieces of the buffer go to the caller.
Give(t, buffer, k) ==
  /\ got' = [got EXCEPT ![t] = @ + k]
  /\ seen' = [seen EXCEPT ![t] = @ \cup ToSet(SubSeq(buffer, 1, k))]
  /\ body' = [body EXCEPT ![mine[t]] = SubSeq(buffer, k + 1, Len(buffer))]

Keep(t, buffer) ==
  /\ body' = [body EXCEPT ![mine[t]] = buffer]
  /\ UNCHANGED <<got, seen>>

\* poll_bytes, when the buffer already holds something.
ReadBuffered(t) ==
  /\ pc[t] = "open" /\ body[mine[t]] # <<>>
  /\ \E k \in 1..Len(body[mine[t]]) : Give(t, body[mine[t]], k)
  /\ UNCHANGED <<pc, req, mine, told, asked, made, slotVars, easy, xfer, sent, header>>

\* poll_bytes, when it has to wait.  After an error the caller may read on.
PollRead(t) ==
  /\ pc[t] = "reading" \/ (pc[t] = "open" /\ body[mine[t]] = <<>>)
  /\ \E n \in 0..BodyLen, end \in {"running", "ok", "failed", "idle", "refused"} :
       LET h == mine[t]
           buffer == Arrived(h, req[t], n)
           verdict == Verdict(end, buffer # <<>>) IN
       /\ Perform(h, req[t], n, end)
       /\ \/ verdict = "again" /\ Goto(t, "reading") /\ Keep(t, buffer)
          \/ verdict = "error" /\ Goto(t, "open") /\ Keep(t, buffer)
          \/ verdict = "return" /\ buffer = <<>> /\ Goto(t, "end") /\ Keep(t, buffer)
          \/ /\ verdict = "return" /\ Goto(t, "open")
             /\ \E k \in 1..Len(buffer) : Give(t, buffer, k)
       /\ told' = [told EXCEPT ![t] = @ \/ (verdict = "error" /\ end = "failed")]
  /\ UNCHANGED <<req, mine, asked, made, slotVars, easy>>

\* bytes(): poll_until_whole_response and take_response_buffer.
PollAll(t) ==
  /\ pc[t] \in {"open", "all"}
  /\ \E n \in 0..BodyLen, end \in {"running", "ok", "failed", "idle", "refused"} :
       LET h == mine[t]
           buffer == Arrived(h, req[t], n)
           verdict == Verdict(end, FALSE)
           large == Len(buffer) > Limit IN
       /\ Perform(h, req[t], n, end)
       /\ \/ verdict = "again" /\ ~large /\ Goto(t, "all") /\ Keep(t, buffer)
          \/ (verdict = "error" \/ large) /\ Goto(t, "failed") /\ Keep(t, buffer)
          \/ /\ verdict = "return" /\ ~large /\ Goto(t, "end")
             /\ Give(t, buffer, Len(buffer))
  /\ UNCHANGED <<req, mine, told, asked, made, slotVars, easy>>

-----------------------------------------------------------------------------
(* EasyHandleGuard::drop.                                                  *)

Done == {"drop", "open", "end", "failed"}

\* try_lock: if another thread has the mutex, or died with it, the handle goes.
TryLock(t) ==
  /\ pc[t] \in Done
  /\ IF lock = "free" /\ ~poisoned
       THEN lock' = t /\ Goto(t, "restore") /\ UNCHANGED mine
       ELSE mine' = [mine EXCEPT ![t] = Nothing] /\ Goto(t, "idle") /\ UNCHANGED lock
  /\ UNCHANGED <<req, got, seen, told, asked, made, slot, poisoned, handleVars>>

\* Variant of ResetHandle: only the options of the easy handle are reset.
ResetOptions(h) ==
  /\ xfer' = [xfer EXCEPT ![h] = "idle"] /\ sent' = [sent EXCEPT ![h] = 0]
  /\ UNCHANGED <<header, body>>

\* reset_easy_state: the callback state and the easy handle.
ResetHandle(h) ==
  /\ xfer' = [xfer EXCEPT ![h] = "idle"] /\ sent' = [sent EXCEPT ![h] = 0]
  /\ header' = [header EXCEPT ![h] = Nothing] /\ body' = [body EXCEPT ![h] = <<>>]

\* Variant of NotReset: the handle goes back whether the reset worked or not.
NotResetButBack(t) == slot' = mine[t]

\* reset_state failed: the handle does not go back.
NotReset(t) == UNCHANGED slot

\* reset_state, if the slot is empty; on a handle whose easy handle was lost its
\* `expect` panics, with the mutex held.
Restore(t) ==
  /\ pc[t] = "restore"
  /\ lock' = "free"
  /\ mine' = [mine EXCEPT ![t] = Nothing]
  /\ \/ /\ slot # Nothing
        /\ Goto(t, "idle")
        /\ UNCHANGED <<slot, poisoned, handleVars>>
     \/ /\ slot = Nothing /\ mine[t] \in easy
        /\ slot' = mine[t]
        /\ ResetHandle(mine[t])
        /\ Goto(t, "idle")
        /\ UNCHANGED <<poisoned, easy>>
     \/ /\ slot = Nothing /\ mine[t] \in easy /\ MayRefuse
        /\ easy' = easy \ {mine[t]}
        /\ NotReset(t)
        /\ Goto(t, "idle")
        /\ UNCHANGED <<poisoned, xfer, sent, header, body>>
     \/ /\ slot = Nothing /\ mine[t] \notin easy
        /\ poisoned' = TRUE
        /\ Goto(t, "panicked")
        /\ UNCHANGED <<slot, handleVars>>
  /\ UNCHANGED <<req, got, seen, told, asked, made>>

-----------------------------------------------------------------------------

Next ==
  \E t \in Threads :
    \/ Lock(t) \/ Take(t) \/ Populate(t)
    \/ PollHeaders(t) \/ ReadBuffered(t) \/ PollRead(t) \/ PollAll(t)
    \/ TryLock(t) \/ Restore(t)

Spec == Init /\ [][Next]_vars

-----------------------------------------------------------------------------
(* Properties.                                                             *)

\* Every field keeps its type, and no caller is given more pieces than a body
\* has.
TypeOK ==
  /\ pc \in [Threads -> {"idle", "take", "populate", "headers", "reading", "all",
                         "restore", "panicked"} \cup Done]
  /\ req \in [Threads -> Requests \cup {Nothing}]
  /\ mine \in [Threads -> Handles \cup {Nothing}]
  /\ got \in [Threads -> 0..BodyLen]
  /\ seen \in [Threads -> SUBSET (Requests \cup {Nothing})]
  /\ told \in [Threads -> BOOLEAN]
  /\ asked \in 0..MaxRequests /\ made \in 0..MaxRequests
  /\ slot \in Handles \cup {Nothing} /\ lock \in Threads \cup {"free"}
  /\ poisoned \in BOOLEAN /\ easy \subseteq Handles
  /\ xfer \in [Handles -> {"idle", "running", "ok", "failed"}]
  /\ sent \in [Handles -> 0..BodyLen]
  /\ header \in [Handles -> Requests \cup {Nothing}]
  /\ body \in [Handles -> Seq(Requests)]

\* A handle is in the slot or with one thread, never both and never with two:
\* the easy handle is not Sync, and curl is driven without a lock.
HandleHasOneOwner ==
  /\ \A t \in Threads : mine[t] # Nothing => mine[t] # slot
  /\ \A t, u \in Threads : mine[t] = mine[u] /\ mine[t] # Nothing => t = u

\* A caller is given the header and the body of its own request, never what the
\* last user of a pooled handle left in it.
ResponseIsOwn == \A t \in Threads : seen[t] \subseteq {req[t]}

\* A body that ends was received to its end, unless the caller has been told that its
\* transfer failed: no round of poll_until swallows the failure.  Only the read after that
\* one finds nothing running, and returns Ok(0).
EndIsComplete == \A t \in Threads : pc[t] = "end" => got[t] = BodyLen \/ told[t]

\* The handle in the slot can be used at once: its easy handle is in the set,
\* with no transfer on it.
SlotIsReady == slot # Nothing => slot \in easy /\ xfer[slot] = "idle"

-----------------------------------------------------------------------------
(* The inductive invariant: what the slot, a thread and its handle say of  *)
(* each other.                                                             *)

\* The mutex is held by a thread inside one of its two critical sections.
LockConsistent == \A t \in Threads : lock = t <=> pc[t] \in {"take", "restore"}

\* A handle is counted before it is given out, and a thread has one exactly
\* while it works on a request.
OwnersConsistent ==
  /\ slot <= made /\ \A t \in Threads : mine[t] <= made
  /\ made <= asked
  /\ \A t \in Threads :
       /\ pc[t] = "take" => made < asked /\ got[t] = 0
       /\ pc[t] \notin {"idle", "panicked"} => req[t] \in Requests
       /\ mine[t] = Nothing <=> pc[t] \in {"idle", "take", "panicked"}

\* A handle nobody has used, or that has been reset, carries nothing.
Clean(h) ==
  xfer[h] = "idle" /\ sent[h] = 0 /\ header[h] = Nothing /\ body[h] = <<>>

PoolConsistent ==
  /\ \A h \in Handles : h > made => Clean(h)
  /\ slot # Nothing => slot \in easy /\ Clean(slot)

\* What curl has passed on for a request is with its caller or in the buffer,
\* and a thread that still polls has been told if its transfer failed.
TransferConsistent(t, h) ==
  /\ got[t] + Len(body[h]) = sent[h]
  /\ header[h] \in {Nothing, req[t]}
  /\ \A i \in DOMAIN body[h] : body[h][i] = req[t]
  /\ xfer[h] = "ok" => sent[h] = BodyLen
  /\ pc[t] = "populate" => Clean(h)
  /\ pc[t] = "headers" => xfer[h] = "running"
  /\ pc[t] \in {"open", "reading", "all"} =>
       xfer[h] \in {"running", "ok"} \/ (xfer[h] = "failed" /\ told[t])

TransfersConsistent ==
  \A t \in Threads : mine[t] # Nothing => TransferConsistent(t, mine[t])

IndInv ==
  /\ TypeOK /\ LockConsistent /\ OwnersConsistent /\ HandleHasOneOwner
  /\ PoolConsistent /\ TransfersConsistent /\ ResponseIsOwn /\ EndIsComplete

=============================================================================
