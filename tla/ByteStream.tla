----------------------------- MODULE ByteStream -----------------------------
(***************************************************************************)
(* What a body transfer promises, whatever carries it: the receiver has a  *)
(* beginning of the body at all times, is told of the end only when it has *)
(* the whole of it, and starts again from nothing when the body is rewound. *)
(***************************************************************************)
EXTENDS Naturals, Sequences

CONSTANTS
  Body,       \* the bytes to transfer, a sequence
  Rewindable  \* the sender can start again

VARIABLES
  received,   \* what the receiver has
  state       \* "open", "ended" or "failed"

Init == received = <<>> /\ state = "open"

\* Some more bytes arrive.
Deliver ==
  /\ state = "open" /\ UNCHANGED state
  /\ \E n \in Len(received) + 1..Len(Body) : received' = SubSeq(Body, 1, n)

\* The receiver is told that it has the whole body, perhaps with its last bytes.
End == state = "open" /\ received' = Body /\ state' = "ended"

Fail == state = "open" /\ state' = "failed" /\ UNCHANGED received

\* The receiver is given up on even if it has everything.
Abandon == state = "ended" /\ state' = "failed" /\ UNCHANGED received

Rewind == Rewindable /\ received' = <<>> /\ state' = "open"

Next == Deliver \/ End \/ Fail \/ Abandon \/ Rewind

Spec == Init /\ [][Next]_<<received, state>>
=============================================================================
