------------------------ MODULE WinrtBlockingUpload -------------------------
(***************************************************************************)
(* Request bodies of the blocking WinRT client (blocking/stream_content.rs): *)
(* ReadAsync spawns a thread that reads the caller's stream, under its lock, *)
(* until the buffer is full or the stream ends.  The stack has one read     *)
(* outstanding and waits for it before it seeks: cancelling the operation   *)
(* would not stop the thread.  Byte i of the stream is i.                   *)
(***************************************************************************)
EXTENDS Naturals, Sequences

CONSTANTS
  Bytes,      \* bytes in the stream
  Capacity,   \* capacity of the stack's buffer
  Sized       \* the stream has a length and can seek

VARIABLES
  open,    \* the Mutex<Option<BoxedStream>> is Some
  at,      \* where the stream is
  pos,     \* BlockingReadStreamBase::pos
  read,    \* the stack's read: its state, what it asked for, the bytes it got
  sent,    \* what the stack has sent since it last rewound
  stack    \* "open", "ended" or "failed"

vars == <<open, at, pos, read, sent, stack>>

\* A read has n bytes, the first of them at `from`.
NoRead == [state |-> "none", want |-> 0, partial |-> FALSE, from |-> 0, n |-> 0]

Init ==
  /\ open = TRUE /\ at = 0 /\ pos = 0
  /\ read = NoRead /\ sent = <<>> /\ stack = "open"

\* ReadAsync: a thread, for a buffer that may hold more than is asked for.
ReadAsync(want, partial) ==
  /\ stack = "open" /\ read.state = "none"
  /\ read' = [state |-> "spawned", want |-> want, partial |-> partial, from |-> 0, n |-> 0]
  /\ UNCHANGED <<open, at, pos, sent, stack>>

Counted(n) == pos' = pos + n

\* The loop ends with a full buffer, at the end of the stream, or after the first
\* bytes of a partial read.
Ends(n) == n = read.want \/ at + n = Bytes \/ (read.partial /\ n > 0)

\* The spawned thread: the bytes of a failed read are lost with their count.
RunRead ==
  /\ read.state = "spawned"
  /\ \/ /\ open
        /\ \E n \in 0..read.want :
             /\ at + n <= Bytes
             /\ at' = at + n
             /\ \/ /\ Ends(n) /\ Counted(n)
                   /\ read' = [read EXCEPT !.state = "done", !.from = at, !.n = n]
                \/ /\ read' = [read EXCEPT !.state = "error"] /\ UNCHANGED pos
     \/ /\ ~open
        /\ read' = [read EXCEPT !.state = "error"]
        /\ UNCHANGED <<at, pos>>
  /\ UNCHANGED <<open, sent, stack>>

\* The stack sends what it got; an empty buffer is the end of the body.
Received ==
  /\ read.state \in {"done", "error"}
  /\ read' = NoRead
  /\ IF read.state = "error" \/ stack = "failed"
     THEN stack' = "failed" /\ UNCHANGED sent
     ELSE /\ sent' = sent \o [i \in 1..read.n |-> read.from + i]
          /\ stack' = IF read.n = 0 THEN "ended" ELSE "open"
  /\ UNCHANGED <<open, at, pos>>

\* Seek(0), to send the body again: at once, under the lock, and it may fail.
Seek ==
  /\ Sized /\ open /\ stack # "failed" /\ read.state = "none"
  /\ \/ at' = 0 /\ pos' = 0 /\ sent' = <<>> /\ stack' = "open"
     \/ stack' = "failed" /\ UNCHANGED <<at, pos, sent>>
  /\ UNCHANGED <<open, read>>

Close ==
  /\ open /\ open' = FALSE /\ stack' = "failed"
  /\ UNCHANGED <<at, pos, read, sent>>

\* CanRead of a sized stream.
CanRead == open /\ (Sized => pos < Bytes)

Next ==
  \/ \E want \in 1..Capacity, partial \in BOOLEAN : ReadAsync(want, partial)
  \/ RunRead \/ Received \/ Seek \/ Close

Spec == Init /\ [][Next]_vars

-----------------------------------------------------------------------------
(* Properties.                                                             *)

Body == [i \in 1..Bytes |-> i]
Transfer == INSTANCE ByteStream WITH
  Body <- Body, Rewindable <- Sized, received <- sent, state <- stack

\* The stack sends the beginning of the stream, and ends it with its last byte,
\* for every mix of short and partial reads, failures and rewinds.
BodyIsUploaded == Transfer!Spec

=============================================================================
