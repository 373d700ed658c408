----------------------------- MODULE CurlHeader -----------------------------
(***************************************************************************)
(* What the curl backend makes of a response's header lines: RequestState, *)
(* fed by libcurl's header and write callbacks with the blocks of interim  *)
(* responses, of a proxy's answer to CONNECT, of redirects and of the      *)
(* final response, and read by the caller as soon as the header is over.   *)
(***************************************************************************)
EXTENDS Naturals, Sequences

CONSTANT Responses  \* sequences of blocks: a status, the reason, a number of fields

VARIABLES
  blocks,    \* the blocks libcurl will pass on
  at,        \* the block and the field it is at; 0 before the status line
  temp_status_code,
  is_established,
  header_finished,
  response_headers_buffer,
  taken      \* what the caller has taken for the header; FALSE until it has

vars == <<blocks, at, temp_status_code, is_established, header_finished,
          response_headers_buffer, taken>>

Init ==
  /\ blocks \in Responses /\ at = [block |-> 1, field |-> 0]
  /\ temp_status_code = 0 /\ is_established = FALSE /\ header_finished = FALSE
  /\ response_headers_buffer = <<>> /\ taken = [done |-> FALSE, header |-> <<>>]

Block == blocks[at.block]

\* A status line: its code, and whether the reason is "connection established".
StatusLine ==
  /\ at.block <= Len(blocks) /\ at.field = 0
  /\ at' = [at EXCEPT !.field = 1]
  /\ temp_status_code' = Block.code
  /\ is_established' = Block.established
  /\ UNCHANGED <<blocks, header_finished, response_headers_buffer, taken>>

FieldLine ==
  /\ at.block <= Len(blocks) /\ at.field \in 1..Block.fields
  /\ at' = [at EXCEPT !.field = @ + 1]
  /\ response_headers_buffer' =
       Append(response_headers_buffer, <<at.block, at.field>>)
  /\ UNCHANGED <<blocks, temp_status_code, is_established, header_finished, taken>>

\* Variant of IsFinal: the proxy's answer is not told apart.
IsFinalOrProxy == temp_status_code \notin {100, 301, 302, 303, 307, 308}

\* The header is over, unless another is expected to follow.
IsFinal ==
  temp_status_code \notin {100, 301, 302, 303, 307, 308} /\ ~is_established

BlankLine ==
  /\ at.block <= Len(blocks) /\ at.field = Block.fields + 1
  /\ at' = [block |-> at.block + 1, field |-> 0]
  /\ header_finished' = (header_finished \/ IsFinal)
  /\ UNCHANGED <<blocks, temp_status_code, is_established, response_headers_buffer,
                 taken>>

\* write_data: the body, which libcurl passes on of the final response only.
WriteData ==
  /\ at.block > Len(blocks)
  /\ header_finished' = TRUE
  /\ UNCHANGED <<blocks, at, temp_status_code, is_established,
                 response_headers_buffer, taken>>

\* The caller's check after a round: the header is over, or the transfer is.
TakeHeaders ==
  /\ ~taken.done
  /\ header_finished \/ at.block > Len(blocks)
  /\ taken' = [done |-> TRUE, header |-> response_headers_buffer]
  /\ response_headers_buffer' = <<>>
  /\ UNCHANGED <<blocks, at, temp_status_code, is_established, header_finished>>

Next == StatusLine \/ FieldLine \/ BlankLine \/ WriteData \/ TakeHeaders

Spec == Init /\ [][Next]_vars

-----------------------------------------------------------------------------

\* What the caller took has every field of the final response, in order, at its end.
FinalFieldsTaken ==
  LET final == Len(blocks)
      fields == [i \in 1..blocks[final].fields |-> <<final, i>>]
      n == Len(taken.header) - Len(fields) IN
  n >= 0 /\ SubSeq(taken.header, n + 1, Len(taken.header)) = fields

\* The blocks that push_header_data expects another one after: continue, the redirects,
\* and a proxy's answer with the one reason it knows.
Foreseen(block) == block.code \in {100, 301, 302, 303, 307, 308} \/ block.established

\* The caller takes the whole header of the final response, after any number of foreseen
\* blocks, whatever it is itself, and whenever the caller looks.
HeaderIsComplete ==
  taken.done /\ (\A i \in 1..(Len(blocks) - 1) : Foreseen(blocks[i])) => FinalFieldsTaken

\* The header the caller takes is that of the response, whatever blocks come before it.
HeaderIsFinal == taken.done => FinalFieldsTaken

=============================================================================
