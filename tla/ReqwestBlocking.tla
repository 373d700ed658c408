-------------------------- MODULE ReqwestBlocking --------------------------
(***************************************************************************)
(* The blocking client of the reqwest backend: every call runs its future  *)
(* with block_on, on the tokio runtime of the calling thread if it has one *)
(* (an application's, which runs by itself) and otherwise on the client's  *)
(* managed runtime, which runs only while some thread is in block_on.  The *)
(* tasks of the connections live on the runtime they were opened on, and   *)
(* the connections are pooled by the client.                               *)
(*                                                                         *)
(* The response's reads and its size limit are response.rs's, which the    *)
(* asynchronous client shares (its runtimes always run).  A connection may *)
(* fail at any frame, and the request's time run out at any point.         *)
(***************************************************************************)
EXTENDS Naturals, Sequences, FiniteSets

CONSTANTS
  Threads,   \* threads that share a client
  Sides,     \* sets of sides, "inside" or "outside" a runtime, that calls may come from
  Bodies,    \* response bodies, each the sizes of its data frames
  BufLen,    \* bound: the largest buffer of a read
  Limit,     \* max_response_buffer_size
  MaxCalls   \* bound on the requests

VARIABLES
  side,      \* where the calls of this behaviour may come from
  pc,        \* the call each thread is in: "none", "request", "bytes" or "read"
  ctx,       \* and the side it comes from
  made,      \* requests made
  response,  \* what it holds: "none", "open", or how it ended
  home,      \* the runtime of its connection
  frames,    \* data frames the connection task has still to pass on
  arrived,   \* a frame passed on and not taken, at most; End after the last
  fault,     \* "closed" with the connection, "told" once that was an error, or "timeout"
  buffer,    \* ReqwestResponse::buffer, in bytes
  collected, \* bytes of collect_all_bytes
  got,       \* bytes the caller has been given
  content,   \* the body of its response
  idle       \* homes of the pooled connections

callVars == <<pc, ctx, made>>
bodyVars == <<frames, arrived, fault, buffer, collected, got, content>>
vars == <<side, callVars, response, home, bodyVars, idle>>

Data(n) == [end |-> FALSE, size |-> n]
End == [end |-> TRUE, size |-> 0]

Init ==
  /\ side \in Sides
  /\ pc = [t \in Threads |-> "none"] /\ ctx = [t \in Threads |-> "outside"]
  /\ made = 0
  /\ response = [t \in Threads |-> "none"] /\ home = [t \in Threads |-> "inside"]
  /\ frames = [t \in Threads |-> <<>>] /\ arrived = [t \in Threads |-> <<>>]
  /\ fault = [t \in Threads |-> "none"]
  /\ buffer = [t \in Threads |-> 0] /\ collected = [t \in Threads |-> 0]
  /\ got = [t \in Threads |-> 0] /\ content = [t \in Threads |-> <<>>]
  /\ idle = {}

\* execute_with_runtime: a call blocks on the runtime of its side.
Call(t, name) ==
  /\ pc' = [pc EXCEPT ![t] = name]
  /\ \E s \in side : ctx' = [ctx EXCEPT ![t] = s]

Return(t) ==
  /\ pc' = [pc EXCEPT ![t] = "none"] /\ ctx' = [ctx EXCEPT ![t] = "outside"]
  /\ UNCHANGED made

\* A connection task runs if its runtime does: the managed one needs a thread.
Runs(runtime) ==
  runtime = "inside" \/ \E t \in Threads : pc[t] # "none" /\ ctx[t] = "outside"

Total(sizes) == LET sum[i \in 0..Len(sizes)] == IF i = 0 THEN 0 ELSE sum[i - 1] + sizes[i]
                IN sum[Len(sizes)]

-----------------------------------------------------------------------------
(* request.                                                                *)

\* On a pooled connection, whatever its home, or a new one.
Request(t) ==
  /\ pc[t] = "none" /\ response[t] # "open" /\ made < MaxCalls
  /\ made' = made + 1
  /\ Call(t, "request")
  /\ \/ \E h \in idle : home' = [home EXCEPT ![t] = h] /\ idle' = idle \ {h}
     \/ home' = [home EXCEPT ![t] = ctx'[t]] /\ UNCHANGED idle
  /\ response' = [response EXCEPT ![t] = "none"]
  /\ UNCHANGED <<side, bodyVars>>

\* ReqwestResponse::new, once the connection task has read the header.
Respond(t) ==
  /\ pc[t] = "request" /\ Runs(home[t])
  /\ \E sizes \in Bodies :
       /\ content' = [content EXCEPT ![t] = sizes]
       /\ frames' = [frames EXCEPT ![t] = sizes]
  /\ arrived' = [arrived EXCEPT ![t] = <<>>] /\ fault' = [fault EXCEPT ![t] = "none"]
  /\ buffer' = [buffer EXCEPT ![t] = 0]
  /\ collected' = [collected EXCEPT ![t] = 0] /\ got' = [got EXCEPT ![t] = 0]
  /\ response' = [response EXCEPT ![t] = "open"]
  /\ Return(t)
  /\ UNCHANGED <<side, home, idle>>

\* send() fails: no connection, one that is lost, or no time left.
RequestFails(t) ==
  /\ pc[t] = "request"
  /\ response' = [response EXCEPT ![t] = "failed"]
  /\ Return(t)
  /\ UNCHANGED <<side, home, bodyVars, idle>>

\* The connection task passes a frame on when the one before has been taken.
Deliver(t) ==
  /\ response[t] = "open" /\ arrived[t] = <<>> /\ fault[t] # "closed" /\ Runs(home[t])
  /\ IF frames[t] = <<>>
       THEN arrived' = [arrived EXCEPT ![t] = <<End>>] /\ UNCHANGED frames
       ELSE /\ arrived' = [arrived EXCEPT ![t] = <<Data(Head(frames[t]))>>]
            /\ frames' = [frames EXCEPT ![t] = Tail(@)]
  /\ UNCHANGED <<side, callVars, response, home, fault, buffer, collected, got, content,
                 idle>>

\* The connection fails before the end was passed on.
Lose(t) ==
  /\ response[t] = "open" /\ arrived[t] = <<>> /\ fault[t] = "none" /\ Runs(home[t])
  /\ fault' = [fault EXCEPT ![t] = "closed"]
  /\ UNCHANGED <<side, callVars, response, home, frames, arrived, buffer, collected, got,
                 content, idle>>

\* The time of the whole request, body included, is over: only a poll notices.
TimeOut(t) ==
  /\ pc[t] \in {"bytes", "read"} /\ response[t] = "open" /\ fault[t] = "none"
  /\ fault' = [fault EXCEPT ![t] = "timeout"]
  /\ UNCHANGED <<side, callVars, response, home, frames, arrived, buffer, collected, got,
                 content, idle>>

\* poll_receive_data_frame: an error, no data at the end, nor in an empty frame.
Fails(t) == fault[t] = "timeout" \/ (fault[t] = "closed" /\ arrived[t] = <<>>)
Received(t) == arrived[t][1].size
Took(t) == arrived' = [arrived EXCEPT ![t] = IF @[1].end THEN @ ELSE <<>>]

-----------------------------------------------------------------------------
(* bytes, and read.                                                        *)

Start(t) ==
  /\ pc[t] = "none" /\ response[t] = "open"
  /\ \/ Call(t, "bytes") /\ got[t] = 0
     \/ Call(t, "read")
  /\ UNCHANGED <<side, made, response, home, bodyVars, idle>>

\* The response is dropped: a connection that is through with it is pooled.
Close(t, how) ==
  /\ response' = [response EXCEPT ![t] = how]
  /\ idle' = IF frames[t] = <<>> /\ fault[t] \in {"none", "timeout"}
               THEN idle \cup {home[t]} ELSE idle

\* The caller needs no more of it.
Drop(t) ==
  /\ pc[t] = "none" /\ response[t] = "open"
  /\ Close(t, "dropped")
  /\ UNCHANGED <<side, callVars, home, bodyVars>>

\* The `?` behind every frame: bytes() gives the response up, a reader keeps it.  After
\* a lost connection the body ends, after a timeout every poll fails.
FrameFails(t) ==
  /\ \/ /\ pc[t] = "bytes"
        /\ Close(t, "failed")
     \/ /\ pc[t] = "read" /\ buffer[t] = 0
        /\ UNCHANGED <<response, idle>>
  /\ Return(t)
  /\ UNCHANGED <<side, home, frames, buffer, got, content>>

\* Variant of ReceiveError: the error of a lost connection is taken for the end.
ReceiveErrorAsEnd(t) ==
  /\ pc[t] \in {"bytes", "read"} /\ Fails(t)
  /\ IF fault[t] = "timeout"
       THEN FrameFails(t) /\ UNCHANGED <<arrived, fault, collected>>
       ELSE /\ arrived' = [arrived EXCEPT ![t] = <<End>>]
            /\ UNCHANGED <<side, callVars, response, home, frames, fault, buffer, collected,
                           got, content, idle>>

ReceiveError(t) ==
  /\ Fails(t) /\ FrameFails(t)
  /\ IF fault[t] = "timeout"
       THEN UNCHANGED <<arrived, fault>>
       ELSE /\ arrived' = [arrived EXCEPT ![t] = <<End>>]
            /\ fault' = [fault EXCEPT ![t] = "told"]
  /\ collected' = [collected EXCEPT ![t] = 0]

TooLarge(t, n) == collected[t] + n > Limit

\* collect_all_bytes.
Collect(t) ==
  /\ pc[t] = "bytes" /\ arrived[t] # <<>> /\ ~Fails(t)
  /\ Took(t)
  /\ \/ /\ Received(t) = 0
        /\ got' = [got EXCEPT ![t] = collected[t]]
        /\ Close(t, "bytes") /\ Return(t)
        /\ UNCHANGED collected
     \/ /\ Received(t) > 0 /\ TooLarge(t, Received(t))
        /\ Close(t, "too large") /\ Return(t)
        /\ UNCHANGED <<collected, got>>
     \/ /\ Received(t) > 0 /\ ~TooLarge(t, Received(t))
        /\ collected' = [collected EXCEPT ![t] = @ + Received(t)]
        /\ UNCHANGED <<callVars, response, got, idle>>
  /\ UNCHANGED <<side, home, frames, fault, buffer, content>>

\* write_to: what is left of the frame that was received last.
WriteTo(t, max) ==
  LET n == IF max < buffer[t] THEN max ELSE buffer[t] IN
  /\ pc[t] = "read" /\ n > 0
  /\ buffer' = [buffer EXCEPT ![t] = @ - n]
  /\ got' = [got EXCEPT ![t] = @ + n]
  /\ Return(t)
  /\ UNCHANGED <<side, response, home, frames, arrived, fault, collected, content, idle>>

\* receive_data_frame_buffered: a read of nothing is the end.
ReceiveFrame(t) ==
  /\ pc[t] = "read" /\ buffer[t] = 0 /\ arrived[t] # <<>> /\ ~Fails(t)
  /\ Took(t)
  /\ buffer' = [buffer EXCEPT ![t] = Received(t)]
  /\ IF Received(t) = 0
       THEN Close(t, "read") /\ Return(t)
       ELSE UNCHANGED <<callVars, response, idle>>
  /\ UNCHANGED <<side, home, frames, fault, collected, got, content>>

Step(t) ==
  \/ Respond(t) \/ Deliver(t) \/ Collect(t) \/ ReceiveFrame(t) \/ ReceiveError(t)
  \/ \E max \in 1..BufLen : WriteTo(t, max)

Next ==
  \E t \in Threads :
    \/ Request(t) \/ Start(t) \/ Drop(t) \/ Step(t)
    \/ RequestFails(t) \/ Lose(t) \/ TimeOut(t)

Spec == Init /\ [][Next]_vars

\* Runtimes that run poll their tasks, servers answer, threads in a call go on.
Fairness == \A t \in Threads : WF_vars(Step(t))

FairSpec == Spec /\ Fairness

-----------------------------------------------------------------------------
(* Properties.                                                             *)

\* A body that was read to its end without an error is the whole body, in reads of any
\* size or at once, whenever the connection is lost or the time runs out, and only a body
\* over the limit is refused; a body with an empty data frame before its end is cut there.
BodyIsRead ==
  \A t \in Threads :
    LET whole == \A i \in 1..Len(content[t]) : content[t][i] > 0 IN
    /\ response[t] \in {"read", "bytes"} /\ whole /\ fault[t] # "told" =>
         got[t] = Total(content[t])
    /\ response[t] = "bytes" => got[t] <= Limit
    /\ response[t] = "too large" => Total(content[t]) > Limit

\* A call returns, however many threads take turns at driving the managed runtime and
\* whichever connection of the pool they get, unless it is made inside another runtime
\* and its connection belongs to the managed one: that needs a thread to drive it.
CallReturns ==
  \A t \in Threads :
    pc[t] # "none" /\ (home[t] = "inside" \/ ctx[t] = "outside") ~> pc[t] = "none"

=============================================================================
