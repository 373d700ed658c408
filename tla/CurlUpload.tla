----------------------------- MODULE CurlUpload -----------------------------
(***************************************************************************)
(* The upload half of an asynchronous curl request.  The body streams      *)
(* belong to the request future; curl asks for their bytes on the loop     *)
(* thread, through callbacks that must not block.  A callback that cannot  *)
(* be served leaves a request in the SharedStreamState, wakes the future   *)
(* and pauses the transfer; the future polls the stream, fills the buffer  *)
(* and queues an UnpauseSendHandle task.                                   *)
(*                                                                         *)
(* A byte is its position in the stream; Junk is a byte of the buffer that *)
(* no stream has written (Vec::resize fills with zeros).  Every action is  *)
(* one critical section of SharedRequestStates.state.                      *)
(***************************************************************************)
EXTENDS Integers, Sequences, FiniteSetsExt, SequencesExt

CONSTANTS
  NStreams,       \* the streams of one request: the body, or the multipart parts
  Size,           \* bytes in each stream
  Sized,          \* the streams that are BoxedStream::Sized: known length, seekable
  MaxRead,        \* bound on the buffer curl passes to a read callback
  MaxRewinds,     \* bound on the times curl restarts the upload
  RewindAnywhere, \* curl may restart with bytes buffered or a read under way
  EarlyResponse   \* a response may arrive before the upload is complete

ASSUME UploadAssumption ==
  /\ NStreams \in Nat \ {0} /\ Size \in Nat /\ MaxRead \in Nat \ {0}
  /\ MaxRewinds \in Nat
  /\ Sized \subseteq 1..NStreams
  /\ {RewindAnywhere, EarlyResponse} \subseteq BOOLEAN

Streams == 1..NStreams
Junk == -1
Byte == {Junk} \cup (0..(Size - 1))

VARIABLES
  req,       \* [Streams -> SharedStreamState.request]
  buf,       \* [Streams -> SharedStreamState.buf]
  pos,       \* [Streams -> the position of the caller's stream]
  owes,      \* [Streams -> the stream returned Pending and holds the waker]
  fut,       \* the request future
  asleep,    \* its task sleeps, with its waker registered
  unpauses,  \* UnpauseSendHandle tasks in the queue of the loop thread
  transfer,  \* the transfer inside curl
  paused,    \* ... which has paused sending
  answered,  \* the response is in the shared state
  sent,      \* [Streams -> the bytes curl has taken since the last rewind]
  rewinds

streamVars == <<req, buf, pos, owes>>
curlVars   == <<transfer, paused, sent, rewinds>>
vars == <<streamVars, fut, asleep, unpauses, curlVars, answered>>

-----------------------------------------------------------------------------
(* Shared stream state.                                                    *)

Ready      == [kind |-> "Ready", n |-> 0]
Read(n)    == [kind |-> "Read",  n |-> n]
Seek(p)    == [kind |-> "Seek",  n |-> p]
Fail       == [kind |-> "Fail",  n |-> 0]
Eof        == [kind |-> "Eof",   n |-> 0]

Init ==
  /\ req  = [s \in Streams |-> Ready]
  /\ buf  = [s \in Streams |-> << >>]
  /\ pos  = [s \in Streams |-> 0]
  /\ owes = [s \in Streams |-> FALSE]
  /\ fut = "running" /\ asleep = FALSE
  /\ unpauses = 0
  /\ transfer = "sending" /\ paused = FALSE
  /\ answered = FALSE
  /\ sent = [s \in Streams |-> << >>]
  /\ rewinds = 0

Wake == asleep' = FALSE

-----------------------------------------------------------------------------
(* curl on the loop thread.                                                *)

\* curl is done with a stream at its known length, or at the end of file.
Done(s) == IF s \in Sized THEN Len(sent[s]) >= Size
                    ELSE req[s] = Eof /\ buf[s] = << >>

Current == Min({s \in Streams : ~Done(s)})
Sending == transfer = "sending" /\ ~paused /\ \E s \in Streams : ~Done(s)

Take(s, n) ==
  /\ sent' = [sent EXCEPT ![s] = @ \o SubSeq(buf[s], 1, n)]
  /\ buf'  = [buf EXCEPT ![s] = SubSeq(@, n + 1, Len(@))]

\* SharedStreamState::read for a buffer of n bytes; after an end of file that
\* curl did not expect the transfer fails.
ReadCallback(n) ==
  /\ Sending
  /\ LET s == Current
         len == Min({n, Len(buf[s])}) IN
     \/ /\ req[s] = Fail
        /\ transfer' = "failed"
        /\ Wake
        /\ UNCHANGED <<req, buf, paused, sent>>
     \/ /\ req[s].kind \in {"Read", "Seek"}
        /\ paused' = TRUE
        /\ UNCHANGED <<req, buf, asleep, sent, transfer>>
     \/ /\ req[s] = Ready /\ len = 0
        /\ req' = [req EXCEPT ![s] = Read(n)]
        /\ Wake
        /\ paused' = TRUE
        /\ UNCHANGED <<buf, sent, transfer>>
     \/ /\ req[s] = Eof /\ len = 0
        /\ transfer' = "failed"
        /\ Wake
        /\ UNCHANGED <<req, buf, paused, sent>>
     \/ /\ req[s] \in {Ready, Eof} /\ len > 0
        /\ Take(s, len)
        /\ UNCHANGED <<req, asleep, paused, transfer>>
  /\ UNCHANGED <<pos, owes, fut, unpauses, answered, rewinds>>

Untouched(s) == sent[s] = << >> /\ req[s] = Ready /\ buf[s] = << >>
CleanAt(s)   == buf[s] = << >> /\ req[s].kind # "Read"

\* SharedStreamState::seek to the start, for every stream curl has begun; a
\* stream that cannot seek fails the transfer.
Rewind ==
  /\ transfer = "sending" /\ rewinds < MaxRewinds
  /\ \E s \in Streams : ~Untouched(s)
  /\ RewindAnywhere \/ \A s \in Streams : CleanAt(s)
  /\ rewinds' = rewinds + 1
  /\ LET begun == {s \in Streams : ~Untouched(s)} IN
     IF begun \subseteq Sized /\ \A s \in begun : req[s] # Fail
       THEN /\ req'  = [s \in Streams |-> IF s \in begun THEN Seek(0) ELSE req[s]]
            /\ sent' = [s \in Streams |-> << >>]
            /\ UNCHANGED transfer
       ELSE /\ transfer' = "failed"
            /\ UNCHANGED <<req, sent>>
  /\ Wake
  /\ UNCHANGED <<buf, pos, owes, fut, unpauses, paused, answered>>

\* LoopTask::UnpauseSendHandle.
UnpauseSend ==
  /\ unpauses > 0
  /\ unpauses' = unpauses - 1
  /\ paused' = FALSE
  /\ UNCHANGED <<streamVars, fut, asleep, transfer, sent, rewinds, answered>>

\* The last byte is taken; the server has the whole body.
UploadDone ==
  /\ transfer = "sending" /\ \A s \in Streams : Done(s)
  /\ transfer' = "sent"
  /\ UNCHANGED <<streamVars, fut, asleep, unpauses, paused, sent, rewinds, answered>>

\* The response reaches the shared state: its headers are complete, and the
\* loop thread has answered QueryHandleResponse.
Respond ==
  /\ fut = "running" /\ ~answered
  /\ transfer = "sent" \/ (EarlyResponse /\ transfer = "sending")
  /\ answered' = TRUE
  /\ Wake
  /\ UNCHANGED <<streamVars, fut, unpauses, curlVars>>

-----------------------------------------------------------------------------
(* The request future: select(wait_for_response, ReadTaskCollection::execute).*)

\* What poll_execute_one can make of a stream: the request and buffer it
\* leaves, the position of the stream, and whether the stream keeps the waker.
Outcome(r, b, p, w) == [req |-> r, buf |-> b, pos |-> p, owes |-> w]
Keep(s) == Outcome(req[s], buf[s], pos[s], owes[s])

Padded(s) == [k \in 1..req[s].n |-> IF k <= Len(buf[s]) THEN buf[s][k] ELSE Junk]
BytesAt(p, n) == [k \in 1..n |-> p + k - 1]

\* Variant of Served: a short read is taken for the end of file.
ServedShort(s, n) == IF n < req[s].n THEN Eof ELSE Ready

Served(s, n) == IF n = 0 THEN Eof ELSE Ready

ReadOutcomes(s) ==
  LET most == Min({req[s].n, Size - pos[s]}) IN
  {Outcome(req[s], Padded(s), pos[s], TRUE),
   Outcome(Fail, Padded(s), pos[s], FALSE)}
  \cup {Outcome(Served(s, n), BytesAt(pos[s], n), pos[s] + n, FALSE)
          : n \in IF most = 0 THEN {0} ELSE 1..most}

SeekOutcomes(s) ==
  {Outcome(req[s], buf[s], pos[s], TRUE), Outcome(Fail, buf[s], pos[s], FALSE)}
  \cup IF s \in Sized THEN {Outcome(Ready, buf[s], req[s].n, FALSE)} ELSE {}

PollOne(s) ==
  CASE req[s].kind = "Read" -> ReadOutcomes(s)
    [] req[s].kind = "Seek" -> SeekOutcomes(s)
    [] OTHER -> {Keep(s)}

Announce(S) == unpauses' = unpauses + Cardinality(S)

\* Variant of Settle: a failed stream leaves the future running.
SettleRunning(failed) == UNCHANGED fut /\ asleep' = TRUE

Settle(failed) ==
  /\ fut' = IF failed = {} THEN "running" ELSE "failed"
  /\ asleep' = (failed = {})

\* One poll of every stream in order, up to the first that fails; a stream
\* whose request is served or fails queues an UnpauseSendHandle task.
Polled(out) ==
  LET failed == {s \in Streams : req[s] # Fail /\ out[s].req = Fail}
      upto   == IF failed = {} THEN Streams ELSE 1..Min(failed)
      new    == [s \in Streams |-> IF s \in upto THEN out[s] ELSE Keep(s)] IN
  /\ req'  = [s \in Streams |-> new[s].req]
  /\ buf'  = [s \in Streams |-> new[s].buf]
  /\ pos'  = [s \in Streams |-> new[s].pos]
  /\ owes' = [s \in Streams |-> new[s].owes]
  /\ Announce({s \in Streams : new[s].req # req[s]})
  /\ Settle(failed)

PollResults == {out \in [Streams -> UNION {PollOne(s) : s \in Streams}] :
              \A s \in Streams : out[s] \in PollOne(s)}

\* No response yet, the result is InProgress: the streams are polled.
Execute ==
  /\ fut = "running" /\ ~asleep /\ ~answered /\ transfer \in {"sending", "sent"}
  /\ \E out \in PollResults : Polled(out)
  /\ UNCHANGED <<curlVars, answered>>

\* wait_for_response is polled first: a response, or the error of the transfer,
\* ends the future and drops the streams.
Resolve ==
  /\ fut = "running" /\ ~asleep
  /\ answered \/ transfer = "failed"
  /\ fut' = IF answered THEN "open" ELSE "failed"
  /\ owes' = [s \in Streams |-> FALSE]
  /\ UNCHANGED <<req, buf, pos, asleep, unpauses, curlVars, answered>>

\* A stream that returned Pending becomes ready and wakes the task.
StreamReady(s) ==
  /\ owes[s] /\ fut = "running"
  /\ owes' = [owes EXCEPT ![s] = FALSE]
  /\ Wake
  /\ UNCHANGED <<req, buf, pos, fut, unpauses, curlVars, answered>>

\* The failed future has dropped its RequestHandle: the transfer is removed.
DropTransfer ==
  /\ fut = "failed" /\ transfer \in {"sending", "sent"}
  /\ transfer' = "removed"
  /\ UNCHANGED <<streamVars, fut, asleep, unpauses, paused, sent, rewinds, answered>>

-----------------------------------------------------------------------------

LoopThread == (\E n \in 1..MaxRead : ReadCallback(n)) \/ UploadDone
Next ==
  \/ LoopThread \/ UnpauseSend \/ Rewind \/ Respond \/ DropTransfer
  \/ Execute \/ Resolve \/ \E s \in Streams : StreamReady(s)

Spec == Init /\ [][Next]_vars

\* The executor polls a woken task, the loop thread runs, a stream that owes a
\* wake-up gives it and does not stay pending for ever, a removed handle is
\* dropped, and the server answers a complete upload.
Fairness ==
  /\ WF_vars(Execute) /\ WF_vars(Resolve)
  /\ WF_vars(LoopThread) /\ WF_vars(UnpauseSend) /\ WF_vars(DropTransfer)
  /\ WF_vars(transfer = "sent" /\ Respond)
  /\ \A s \in Streams :
       WF_vars(StreamReady(s)) /\ SF_vars(Execute /\ ~owes'[s])

FairSpec == Spec /\ Fairness

-----------------------------------------------------------------------------
(* Safety.                                                                 *)

\* What curl sends of a stream is the stream from its start, in order, nothing
\* skipped, repeated or made up, however reads, short reads and rewinds fall.
SentIsTheStream ==
  \A s \in Streams : \A k \in DOMAIN sent[s] : sent[s][k] = k - 1

TransferState ==
  CASE transfer = "sent" -> "ended"
    [] transfer \in {"failed", "removed"} -> "failed"
    [] OTHER -> "open"

Transfer(s) == INSTANCE ByteStream WITH
  Body <- BytesAt(0, Size), Rewindable <- s \in Sized,
  received <- sent[s], state <- TransferState

\* The upload implements a ByteStream for every stream: what curl has sent is its
\* beginning at all times, whatever short, pending and failing reads and rewinds fall
\* together, and a whole upload carries every byte: the end of file that curl is told
\* of is the stream's own, never a failed, pending or restarted read.
BodyIsUploaded ==
  /\ \A s \in Streams : Transfer(s)!Init
  /\ [][\A s \in Streams : [Transfer(s)!Next]_<<sent[s], TransferState>>]_vars

\* A failed stream is not polled again: its future has ended.  It makes the
\* unreachable!() of poll_execute_one unreachable.
FailEndsTheFuture ==
  \A s \in Streams : req[s] = Fail => fut # "running"

-----------------------------------------------------------------------------
(* Liveness.                                                               *)

\* As long as the request waits for its response, an upload that has begun
\* ends: it is complete, or has failed and is removed.
UploadEnds == transfer = "sending" ~> (transfer # "sending" \/ fut = "open")

=============================================================================
