---------------------------- MODULE WinHttpProofs ----------------------------
(***************************************************************************)
(* Proofs about WinHTTP's two clients, for bodies of any length.           *)
(*                                                                         *)
(* The asynchronous one, WinHttpAsync: the context outlives every          *)
(* callback, one operation is in flight at a time on a buffer that stays,  *)
(* and both bodies are whole.                                              *)
(*                                                                         *)
(* The blocking one, a part of Exchanges: the server reads the body that   *)
(* was meant, and the response is whole or refused.                        *)
(***************************************************************************)
EXTENDS Exchanges, SequenceLemmas

-----------------------------------------------------------------------------
(* The asynchronous client: the inductive invariant.                       *)

Ended == {"failed", "cancelled", "closed"}

TypeOK ==
  /\ job \in {"none", "queued", "sent", "refused", "done"}
  /\ pc \in {"idle"} \cup InRequest \cup InResponse \cup Ended
  /\ st \in {"Initial", "HeadersSent", "WriteComplete", "HeadersReceived", "QueryingData",
             "DataAvailable", "Reading", "Completed"}
  /\ buffer[2] \in Nat
  /\ handle \in {"none", "open", "closing", "closed"}
  /\ op \in {"none", "send", "write", "receive", "query", "queried", "read"}
  /\ chunk \in Nat /\ wpos \in Nat /\ range \in Nat /\ wrote \in Nat
  /\ left \in Nat /\ got \in Nat

\* The request handle is open for whoever may still use it.
HandleUse ==
  /\ CallbackHasContext
  /\ pc \in ({"write", "receive"} \cup Waiting \cup InResponse) => handle = "open"
  /\ pc = "setup" /\ job = "sent" => handle = "open"

\* The thread pool's job comes before everything but a cancellation.
JobFirst ==
  /\ job \in {"none", "queued", "refused"} => st = "Initial" /\ op = "none" /\ ~err
  /\ pc = "idle" <=> job = "none"
  /\ job # "done" => pc \in {"idle", "setup"} \cup Ended
  /\ client => pc \notin {"idle"} \cup Ended
  /\ half => pc \in Waiting

\* The operation in flight, the state of the context and the place of the caller
\* agree; an error leaves no operation and no state that ends a wait.
OperationFits ==
  /\ op = "send" => st = "Initial" /\ pc \in {"setup", "waitSent"} \cup Ended
  /\ op = "write" => st = "HeadersSent" /\ pc \in {"waitWrite"} \cup Ended
  /\ op = "receive" => st \in {"HeadersSent", "WriteComplete"} /\ pc \in {"waitHeaders"} \cup Ended
  /\ op \in {"query", "queried"} => st = "QueryingData" /\ pc \in {"reading"} \cup Ended
  /\ op = "read" => st = "Reading" /\ pc \in {"reading"} \cup Ended
  /\ pc = "receive" => st \in {"HeadersSent", "WriteComplete"}
  /\ err => /\ op = "none"
            /\ pc \notin {"write", "receive"}
            /\ pc = "setup" => st = "Initial"
            /\ pc \in Waiting => st # Expected[pc]

\* Bytes of the streamed body: what WinHTTP has taken is the chunks before the
\* current one and the part of that one it has reported.
UploadAccount ==
  /\ pc \in {"idle", "setup", "waitSent"} =>
       chunk = 0 /\ wpos = 0 /\ wrote = 0 /\ range = 0
  /\ pc \in {"write", "waitWrite"} => streaming /\ chunk <= NChunks
  /\ pc = "write" =>
       \/ wpos = 0 /\ chunk < NChunks /\ wrote = chunk * ChunkSize
       \/ wpos > 0 /\ wpos < ChunkSize /\ wrote + ChunkSize = chunk * ChunkSize + wpos
  /\ pc = "waitWrite" =>
       /\ wpos + range <= ChunkSize
       /\ wrote + ChunkSize = chunk * ChunkSize + wpos + range
       /\ op = "write" => range = 0
       /\ st = "WriteComplete" => range > 0
  /\ pc \in ({"receive", "waitHeaders"} \cup InResponse) /\ streaming =>
       wrote = NChunks * ChunkSize

\* Bytes of the response: those consumed, those in the buffer, those to come.
ResponseAccount ==
  /\ pc \in {"idle"} \cup InRequest => got = 0 /\ left = BodyLen
  /\ pc \in {"receive", "waitHeaders"} => range = 0
  /\ pc \in InResponse =>
       /\ got + left + (IF st = "HeadersReceived" THEN range ELSE 0) = BodyLen
       /\ st = "Completed" => left = 0
       /\ op = "queried" /\ range = 0 => left = 0
       /\ st = "HeadersReceived" /\ range > 0 => buffer[1] = "data" /\ range <= buffer[2]
  /\ op = "read" => buffer[1] = "data" /\ range = 0
  /\ pc = "end" => got = BodyLen

Inv == TypeOK /\ HandleUse /\ JobFirst /\ OperationFits /\ UploadAccount /\ ResponseAccount

-----------------------------------------------------------------------------
(* Every step keeps each part.                                             *)

\* The steps by what they are about: the future of the request, the caller that
\* reads its response, and WinHTTP.
LEMMA Steps ==
  ASSUME Next
  PROVE  \/ Begin \/ SetupSend \/ SetupDeliver \/ CheckError \/ CheckState
         \/ StartWrite \/ StartReceive \/ Cancel
         \/ ReadError \/ ReadAvailable \/ QueryMore \/ Consume \/ ReadEnd \/ ReadWait \/ Close
         \/ SendComplete \/ WriteComplete \/ HeadersAvailable \/ DataAvailable
         \/ DataAnnounced \/ ReadComplete \/ RequestError \/ HandleClosing
BY DEF Next, ThreadPool, PollRequest, PollRead, Callback

\* Whatever a wait leads to is written as one step.
LEMMA CheckStateTo ==
  ASSUME Inv, CheckState
  PROVE  /\ pc \in Waiting /\ half' = FALSE
         /\ UNCHANGED <<streaming, job, chunk, got, st, err, refVars, netVars>>
         /\ \/ /\ st # Expected[pc]
               /\ UNCHANGED <<pc, wpos, buffer, range>>
            \/ /\ pc = "waitSent" /\ st = "HeadersSent" /\ pc' = NextChunk
               /\ UNCHANGED <<wpos, buffer, range>>
            \/ pc = "waitWrite" /\ st = "WriteComplete" /\ Written
            \/ /\ pc = "waitHeaders" /\ st = "HeadersReceived" /\ pc' = "open"
               /\ UNCHANGED <<wpos, buffer, range>>
BY DEF Inv, JobFirst, CheckState, Expected, Waiting

LEMMA TypeStep ==
  ASSUME Inv, Next
  PROVE  TypeOK'
<1> USE WinHttpAssumption
<1> USE DEF clientVars, ctxVars, refVars, netVars, TypeOK, InRequest, InResponse, Waiting,
     Ended, Release, Fail, Wake, CanRead
<1>1. TypeOK
  BY DEF Inv
<1>2. CASE Begin \/ SetupSend \/ SetupDeliver
  BY <1>1, <1>2 DEF Begin, SetupSend, SetupDeliver
<1>3. CASE CheckError \/ Cancel \/ Close \/ StartReceive
  BY <1>1, <1>3 DEF CheckError, Cancel, Close, StartReceive
<1>4. CASE CheckState
  <2>1. NextChunk \in {"write", "receive"}
    BY DEF NextChunk
  <2>2. QED
    BY <1>1, <1>4, <2>1, CheckStateTo DEF Written, TakeWriteBuffer
<1>5. CASE StartWrite
  BY <1>1, <1>5 DEF StartWrite, TakeChunk, PrepareForWriting
<1>6. CASE ReadError \/ ReadEnd \/ ReadWait
  BY <1>1, <1>6 DEF ReadError, ReadEnd, ReadWait
<1>7. CASE ReadAvailable \/ QueryMore
  BY <1>1, <1>7 DEF ReadAvailable, QueryMore, Ask, Larger
<1>8. CASE Consume
  BY <1>1, <1>8 DEF Consume, Consumed
<1>9. CASE SendComplete \/ WriteComplete \/ HeadersAvailable
  BY <1>1, <1>9 DEF SendComplete, WriteComplete, HeadersAvailable
<1>10. CASE DataAvailable \/ DataAnnounced
  BY <1>1, <1>10 DEF DataAvailable, DataAnnounced
<1>11. CASE ReadComplete
  <2>1. PICK n \in Nat : /\ n <= left /\ range' = (IF n = 0 THEN range ELSE n) /\ left' = left - n
                         /\ st' = IF n = 0 THEN "Completed" ELSE "HeadersReceived"
    BY <1>1, <1>11 DEF ReadComplete
  <2>2. QED
    BY <1>1, <1>11, <2>1 DEF ReadComplete
<1>12. CASE RequestError \/ HandleClosing
  BY <1>1, <1>12 DEF RequestError, HandleClosing
<1>13. QED
  BY Steps, <1>2, <1>3, <1>4, <1>5, <1>6, <1>7, <1>8, <1>9, <1>10, <1>11, <1>12

\* The handle, the raw Arc and the caller's share.
LEMMA HandleStep ==
  ASSUME Inv, Next
  PROVE  HandleUse'
<1> USE DEF clientVars, ctxVars, refVars, netVars, InResponse, Waiting, Ended, Release, Fail,
     CanRead, HandleUse, CallbackHasContext, JobFirst
<1>1. TypeOK /\ HandleUse /\ JobFirst
  BY DEF Inv
<1>2. CASE Begin \/ SetupSend \/ SetupDeliver
  BY <1>1, <1>2 DEF Begin, SetupSend, SetupDeliver, TypeOK
<1>3. CASE CheckError \/ Cancel \/ Close
  BY <1>1, <1>3 DEF CheckError, Cancel, Close
<1>4. CASE CheckState
  <2>1. NextChunk \in {"write", "receive"}
    BY DEF NextChunk
  <2>2. QED
    BY <1>1, <1>4, <2>1, CheckStateTo DEF Written
<1>5. CASE StartWrite \/ StartReceive
  BY <1>1, <1>5 DEF StartWrite, StartReceive
<1>6. CASE ReadError \/ ReadAvailable \/ QueryMore \/ Consume \/ ReadEnd \/ ReadWait
  BY <1>1, <1>6 DEF ReadError, ReadAvailable, QueryMore, Ask, Consume, ReadEnd, ReadWait
<1>7. CASE SendComplete \/ WriteComplete \/ HeadersAvailable \/ DataAvailable
             \/ DataAnnounced \/ ReadComplete \/ RequestError
  BY <1>1, <1>7 DEF SendComplete, WriteComplete, HeadersAvailable, DataAvailable,
     DataAnnounced, ReadComplete, RequestError
<1>8. CASE HandleClosing
  BY <1>1, <1>8 DEF HandleClosing
<1>9. QED
  BY Steps, <1>2, <1>3, <1>4, <1>5, <1>6, <1>7, <1>8

LEMMA JobStep ==
  ASSUME Inv, Next
  PROVE  JobFirst'
<1> USE DEF clientVars, ctxVars, refVars, netVars, InResponse, Waiting, Ended, Release, Fail,
     CanRead, JobFirst
<1>1. TypeOK /\ JobFirst /\ OperationFits
  BY DEF Inv
<1>2. CASE Begin \/ SetupSend \/ SetupDeliver
  BY <1>1, <1>2 DEF Begin, SetupSend, SetupDeliver, TypeOK
<1>3. CASE CheckError \/ Cancel \/ Close
  BY <1>1, <1>3 DEF CheckError, Cancel, Close
<1>4. CASE CheckState
  <2>1. NextChunk \in {"write", "receive"}
    BY DEF NextChunk
  <2>2. QED
    BY <1>1, <1>4, <2>1, CheckStateTo DEF Written
<1>5. CASE StartWrite \/ StartReceive
  BY <1>1, <1>5 DEF StartWrite, StartReceive
<1>6. CASE ReadError \/ ReadAvailable \/ QueryMore \/ Consume \/ ReadEnd \/ ReadWait
  BY <1>1, <1>6 DEF ReadError, ReadAvailable, QueryMore, Ask, Consume, ReadEnd, ReadWait
<1>7. CASE SendComplete \/ WriteComplete \/ HeadersAvailable \/ DataAvailable
             \/ DataAnnounced \/ ReadComplete \/ RequestError
  BY <1>1, <1>7 DEF SendComplete, WriteComplete, HeadersAvailable, DataAvailable,
     DataAnnounced, ReadComplete, RequestError
<1>8. CASE HandleClosing
  BY <1>1, <1>8 DEF HandleClosing
<1>9. QED
  BY Steps, <1>2, <1>3, <1>4, <1>5, <1>6, <1>7, <1>8

LEMMA OperationStep ==
  ASSUME Inv, Next
  PROVE  OperationFits'
<1> USE DEF clientVars, ctxVars, refVars, netVars, InResponse, Waiting, Ended, Release, Fail,
     CanRead, OperationFits
<1>1. TypeOK /\ JobFirst /\ OperationFits
  BY DEF Inv
<1>2. CASE Begin \/ SetupSend \/ SetupDeliver
  BY <1>1, <1>2 DEF Begin, SetupSend, SetupDeliver, TypeOK, JobFirst, Expected
<1>3. CASE CheckError \/ Cancel \/ Close
  BY <1>1, <1>3 DEF CheckError, Cancel, Close
<1>4. CASE CheckState
  <2>1. NextChunk \in {"write", "receive"}
    BY DEF NextChunk
  <2>2. QED
    BY <1>1, <1>4, <2>1, CheckStateTo DEF Written, Expected
<1>5. CASE StartWrite
  BY <1>1, <1>5 DEF StartWrite, PrepareForWriting
<1>6. CASE StartReceive
  BY <1>1, <1>6 DEF StartReceive
<1>7. CASE ReadError \/ ReadEnd \/ ReadWait \/ Consume
  BY <1>1, <1>7 DEF ReadError, ReadEnd, ReadWait, Consume
<1>8. CASE ReadAvailable \/ QueryMore
  BY <1>1, <1>8 DEF ReadAvailable, QueryMore, Ask
<1>9. CASE SendComplete \/ WriteComplete \/ HeadersAvailable
  BY <1>1, <1>9 DEF SendComplete, WriteComplete, HeadersAvailable, Expected
<1>10. CASE DataAvailable \/ DataAnnounced \/ ReadComplete
  BY <1>1, <1>10 DEF DataAvailable, DataAnnounced, ReadComplete, Expected
<1>11. CASE RequestError
  BY <1>1, <1>11 DEF RequestError, Expected, TypeOK
<1>12. CASE HandleClosing
  BY <1>1, <1>12 DEF HandleClosing
<1>13. QED
  BY Steps, <1>2, <1>3, <1>4, <1>5, <1>6, <1>7, <1>8, <1>9, <1>10, <1>11, <1>12

\* One more chunk is ChunkSize more bytes.
LEMMA NextChunkBytes ==
  ASSUME NEW c \in Nat
  PROVE  (c + 1) * ChunkSize = c * ChunkSize + ChunkSize /\ c * ChunkSize \in Nat
BY WinHttpAssumption

LEMMA UploadStep ==
  ASSUME Inv, Next
  PROVE  UploadAccount'
<1> USE DEF clientVars, ctxVars, refVars, netVars, InResponse, Waiting, Ended, Release, Fail,
     CanRead, UploadAccount
<1>1. /\ TypeOK /\ JobFirst /\ OperationFits /\ UploadAccount
      /\ NChunks \in Nat /\ ChunkSize \in Nat /\ ChunkSize > 0
  BY WinHttpAssumption DEF Inv
<1>2. CASE Begin \/ SetupSend
  BY <1>1, <1>2 DEF Begin, SetupSend, JobFirst
<1>3. CASE SetupDeliver
  BY <1>1, <1>3 DEF SetupDeliver
<1>4. CASE CheckError \/ Cancel \/ Close
  BY <1>1, <1>4 DEF CheckError, Cancel, Close
<1>5. CASE CheckState
  <2>1. CASE st # Expected[pc]
    BY <1>1, <1>5, <2>1, CheckStateTo DEF Expected
  <2>2. CASE pc = "waitSent" /\ pc' = NextChunk /\ UNCHANGED <<wpos, buffer, range>>
    <3>1. chunk = 0 /\ wpos = 0 /\ wrote = 0 /\ 0 * ChunkSize = 0
      BY <1>1, <2>2
    <3>2. CASE streaming /\ chunk < NChunks
      <4>1. pc' = "write"
        BY <2>2, <3>2 DEF NextChunk
      <4>2. QED
        BY <1>1, <1>5, <2>2, <3>1, <3>2, <4>1, CheckStateTo
    <3>3. CASE ~(streaming /\ chunk < NChunks)
      <4>1. pc' = "receive" /\ (streaming => NChunks = 0)
        BY <1>1, <2>2, <3>1, <3>3 DEF NextChunk
      <4>2. QED
        BY <1>1, <1>5, <2>2, <3>1, <4>1, CheckStateTo
    <3>4. QED
      BY <3>2, <3>3
  <2>3. CASE pc = "waitWrite" /\ st = "WriteComplete" /\ Written
    <3>1. /\ streaming /\ streaming' = streaming /\ chunk <= NChunks
          /\ range > 0 /\ wpos + range <= ChunkSize
          /\ wrote + ChunkSize = chunk * ChunkSize + wpos + range
          /\ chunk' = chunk /\ wrote' = wrote
          /\ chunk \in Nat /\ wpos \in Nat /\ range \in Nat /\ wrote \in Nat
          /\ chunk * ChunkSize \in Nat
      BY <1>1, <1>5, <2>3, CheckStateTo, NextChunkBytes DEF TypeOK
    <3>2. CASE wpos + range < ChunkSize
      BY <1>1, <2>3, <3>1, <3>2 DEF Written
    <3>3. CASE wpos + range = ChunkSize
      <4>1. /\ pc' = (IF chunk < NChunks THEN "write" ELSE "receive")
            /\ wpos' = 0 /\ wrote = chunk * ChunkSize
        BY <1>1, <2>3, <3>1, <3>3 DEF Written, NextChunk
      <4>2. chunk < NChunks \/ chunk = NChunks
        BY <1>1, <3>1
      <4>3. QED
        BY <1>1, <3>1, <4>1, <4>2
    <3>4. QED
      BY <1>1, <3>1, <3>2, <3>3
  <2>4. CASE pc = "waitHeaders" /\ pc' = "open"
    BY <1>1, <1>5, <2>4, CheckStateTo
  <2>5. QED
    BY <1>5, <2>1, <2>2, <2>3, <2>4, CheckStateTo
<1>6. CASE StartWrite
  <2>1. /\ streaming' = streaming /\ streaming /\ wrote' = wrote /\ wpos' = wpos /\ range' = 0
        /\ pc' = "waitWrite" \/ pc' = "failed"
        /\ st' = "HeadersSent"
        /\ chunk' = IF wpos = 0 THEN chunk + 1 ELSE chunk
    BY <1>1, <1>6 DEF StartWrite, TakeChunk, PrepareForWriting
  <2>2. chunk \in Nat /\ wpos \in Nat /\ wrote \in Nat /\ chunk * ChunkSize \in Nat
    BY <1>1, NextChunkBytes DEF TypeOK
  <2>3. CASE wpos = 0
    <3>1. chunk < NChunks /\ wrote = chunk * ChunkSize /\ chunk' = chunk + 1
      BY <1>1, <1>6, <2>1, <2>3 DEF StartWrite
    <3>2. (chunk + 1) * ChunkSize = chunk * ChunkSize + ChunkSize
      BY <2>2, NextChunkBytes
    <3>3. wrote + ChunkSize = chunk' * ChunkSize + 0 + 0 /\ chunk' <= NChunks
      BY <1>1, <2>2, <3>1, <3>2
    <3>4. QED
      BY <1>1, <2>1, <2>2, <2>3, <3>3
  <2>4. CASE wpos > 0
    <3>1. /\ chunk <= NChunks /\ wpos < ChunkSize
          /\ wrote + ChunkSize = chunk * ChunkSize + wpos /\ chunk' = chunk
      BY <1>1, <1>6, <2>1, <2>2, <2>4 DEF StartWrite
    <3>2. wrote + ChunkSize = chunk' * ChunkSize + wpos + 0 /\ chunk' <= NChunks
      BY <1>1, <2>2, <3>1
    <3>3. QED
      BY <1>1, <2>1, <2>2, <2>4, <3>1, <3>2
  <2>5. QED
    BY <2>2, <2>3, <2>4
<1>7. CASE StartReceive
  BY <1>1, <1>7 DEF StartReceive
<1>8. CASE ReadError \/ ReadAvailable \/ QueryMore \/ Consume \/ ReadEnd \/ ReadWait
  BY <1>1, <1>8 DEF ReadError, ReadAvailable, QueryMore, Ask, Consume, ReadEnd, ReadWait
<1>9. CASE SendComplete \/ HeadersAvailable \/ DataAnnounced \/ RequestError \/ HandleClosing
  BY <1>1, <1>9 DEF SendComplete, HeadersAvailable, DataAnnounced, RequestError, HandleClosing,
     OperationFits
<1>10. CASE WriteComplete
  <2>1. PICK n \in 1..(ChunkSize - wpos) : wrote' = wrote + n /\ range' = range + n
    BY <1>10 DEF WriteComplete
  <2>2. pc \in {"waitWrite"} \cup Ended /\ pc' = pc /\ op' = "none"
    BY <1>1, <1>10 DEF WriteComplete, OperationFits
  <2>3. CASE pc = "waitWrite"
    <3>1. /\ range = 0 /\ wrote + ChunkSize = chunk * ChunkSize + wpos
          /\ streaming' = streaming /\ chunk' = chunk /\ wpos' = wpos
          /\ chunk \in Nat /\ wpos \in Nat /\ wrote \in Nat /\ chunk * ChunkSize \in Nat
      BY <1>1, <1>10, <2>3, NextChunkBytes DEF WriteComplete, TypeOK
    <3>2. /\ range' = n /\ n > 0 /\ wpos' + range' <= ChunkSize
          /\ wrote' + ChunkSize = chunk' * ChunkSize + wpos' + range'
      BY <1>1, <2>1, <3>1
    <3>3. QED
      BY <1>1, <2>2, <2>3, <3>1, <3>2
  <2>4. CASE pc \in Ended
    BY <2>2, <2>4
  <2>5. QED
    BY <2>2, <2>3, <2>4
<1>11. CASE DataAvailable \/ ReadComplete
  <2>1. /\ pc \in {"reading"} \cup Ended /\ pc' = pc
        /\ wrote' = wrote /\ streaming' = streaming
    BY <1>1, <1>11 DEF DataAvailable, ReadComplete, OperationFits
  <2>2. QED
    BY <1>1, <2>1
<1>12. QED
  BY Steps, <1>2, <1>3, <1>4, <1>5, <1>6, <1>7, <1>8, <1>9, <1>10, <1>11

LEMMA ResponseStep ==
  ASSUME Inv, Next
  PROVE  ResponseAccount'
<1> USE DEF clientVars, ctxVars, refVars, netVars, InRequest, InResponse, Waiting, Ended,
     Release, Fail, CanRead, ResponseAccount
<1>1. /\ TypeOK /\ JobFirst /\ OperationFits /\ UploadAccount /\ ResponseAccount
      /\ BodyLen \in Nat
  BY WinHttpAssumption DEF Inv
<1>2. CASE Begin \/ SetupSend \/ SetupDeliver
  BY <1>1, <1>2 DEF Begin, SetupSend, SetupDeliver, JobFirst
<1>3. CASE CheckError \/ Cancel \/ Close
  BY <1>1, <1>3 DEF CheckError, Cancel, Close
<1>4. CASE CheckState
  <2>1. op = "none" \/ pc' = pc
    BY <1>1, <1>4, CheckStateTo DEF OperationFits, TypeOK, Expected
  <2>2. CASE st # Expected[pc] /\ UNCHANGED <<pc, buffer, range>>
    BY <1>1, <1>4, <2>2, CheckStateTo
  <2>3. CASE pc = "waitSent" /\ pc' = NextChunk /\ UNCHANGED <<wpos, buffer, range>>
    BY <1>1, <1>4, <2>1, <2>3, CheckStateTo DEF NextChunk, UploadAccount
  <2>4. CASE pc = "waitWrite" /\ st = "WriteComplete" /\ Written
    <3>1. /\ pc' \in {"write", "receive"} /\ (pc' = "receive" => range' = 0)
          /\ op' = "none"
      BY <1>1, <1>4, <2>1, <2>4, CheckStateTo DEF Written, NextChunk, TakeWriteBuffer
    <3>2. QED
      BY <1>1, <1>4, <2>4, <3>1, CheckStateTo
  <2>5. CASE pc = "waitHeaders" /\ st = "HeadersReceived" /\ pc' = "open"
                /\ UNCHANGED <<wpos, buffer, range>>
    BY <1>1, <1>4, <2>1, <2>5, CheckStateTo DEF TypeOK
  <2>6. QED
    BY <1>4, <2>2, <2>3, <2>4, <2>5, CheckStateTo
<1>5. CASE StartWrite \/ StartReceive
  BY <1>1, <1>5 DEF StartWrite, StartReceive, OperationFits
<1>6. CASE ReadError \/ ReadEnd \/ ReadWait
  BY <1>1, <1>6 DEF ReadError, ReadEnd, ReadWait, OperationFits, TypeOK
<1>7. CASE QueryMore
  <2>1. op = "none"
    BY <1>1, <1>7 DEF QueryMore, OperationFits, TypeOK
  <2>2. QED
    BY <1>1, <1>7, <2>1 DEF QueryMore, Ask, TypeOK
<1>8. CASE ReadAvailable
  <2>1. op = "none" /\ Larger(range)[1] = "data"
    BY <1>1, <1>8 DEF ReadAvailable, Larger, OperationFits, TypeOK
  <2>2. QED
    BY <1>1, <1>8, <2>1 DEF ReadAvailable, Ask, TypeOK
<1>9. CASE Consume
  <2>1. PICK n \in 1..range : got' = got + n /\ range' = range - n
    BY <1>9 DEF Consume, Consumed
  <2>2. op = "none"
    BY <1>1, <1>9 DEF Consume, OperationFits, TypeOK
  <2>3. QED
    BY <1>1, <1>9, <2>1, <2>2 DEF Consume, TypeOK
<1>10. CASE SendComplete \/ WriteComplete \/ HeadersAvailable
  <2>1. /\ pc' = pc /\ pc \in {"setup"} \cup Waiting \cup Ended
        /\ pc = "waitHeaders" => range' = range
        /\ op' = "none" /\ got' = got /\ left' = left
    BY <1>1, <1>10 DEF SendComplete, WriteComplete, HeadersAvailable, OperationFits
  <2>2. QED
    BY <1>1, <2>1
<1>11. CASE DataAvailable \/ DataAnnounced
  <2>1. /\ pc' = pc /\ pc \in {"reading"} \cup Ended /\ st = "QueryingData"
        /\ op' \in {"queried", "none"} /\ got' = got /\ left' = left
        /\ DataAvailable => op' = "queried" /\ st' = st /\ (range' = 0 => left = 0)
        /\ DataAnnounced => /\ op = "queried" /\ range' = range
                            /\ st' = IF range = 0 THEN "Completed" ELSE "DataAvailable"
    BY <1>1, <1>11 DEF DataAvailable, DataAnnounced, OperationFits, TypeOK
  <2>2. QED
    BY <1>1, <1>11, <2>1
<1>12. CASE ReadComplete
  <2>1. PICK n \in Nat :
          /\ n <= left /\ n <= buffer[2] /\ (n = 0 => left = 0)
          /\ range' = (IF n = 0 THEN range ELSE n) /\ left' = left - n
          /\ st' = IF n = 0 THEN "Completed" ELSE "HeadersReceived"
    BY <1>1, <1>12 DEF ReadComplete, TypeOK
  <2>2. /\ pc' = pc /\ pc \in {"reading"} \cup Ended /\ st = "Reading"
        /\ buffer[1] = "data" /\ range = 0
        /\ op' = "none" /\ got' = got /\ buffer' = buffer
    BY <1>1, <1>12 DEF ReadComplete, OperationFits
  <2>3. QED
    BY <1>1, <2>1, <2>2 DEF TypeOK
<1>13. CASE RequestError \/ HandleClosing
  BY <1>1, <1>13 DEF RequestError, HandleClosing
<1>14. QED
  BY Steps, <1>2, <1>3, <1>4, <1>5, <1>6, <1>7, <1>8, <1>9, <1>10, <1>11, <1>12, <1>13

\* The invariant holds however callbacks, polls, refusals and cancellations
\* interleave, for bodies of any size.
THEOREM InvariantHolds == Spec => []Inv
<1>1. Init => Inv
  BY WinHttpAssumption DEF Init, Inv, TypeOK, HandleUse, CallbackHasContext, JobFirst,
     OperationFits, UploadAccount, ResponseAccount, InRequest, InResponse, Waiting, Ended
<1>2. Inv /\ [Next]_vars => Inv'
  <2>1. UNCHANGED vars /\ Inv => Inv'
    BY DEF vars, clientVars, ctxVars, refVars, netVars, Inv, TypeOK, HandleUse,
       CallbackHasContext, JobFirst, OperationFits, UploadAccount, ResponseAccount
  <2>2. QED
    BY <2>1, TypeStep, HandleStep, JobStep, OperationStep, UploadStep, ResponseStep DEF Inv
<1>3. QED
  BY <1>1, <1>2, PTL DEF Spec

-----------------------------------------------------------------------------
(* The safety properties.                                                  *)

\* Every status callback finds its RequestContext: the Arc behind the raw
\* pointer lives until HANDLE_CLOSING, and no longer.
THEOREM CallbacksHaveContext == Spec => []CallbackHasContext
<1>1. Inv => CallbackHasContext
  BY DEF Inv, HandleUse
<1>2. QED
  BY <1>1, InvariantHolds, PTL

\* No operation is started while another is in flight, and the buffer WinHTTP
\* was given stays in place, owned, until its callback.
THEOREM BuffersAreStable == Spec => BufferIsStable
<1> DEFINE Stable == op' = op /\ op \in {"send", "write", "read"}
                       => buffer' = buffer /\ (raw' \/ client')
<1>1. Inv => OneOperation
  BY DEF Inv, OneOperation, OperationFits, TypeOK, Ended
<1>2. Inv /\ Inv' /\ [Next]_vars => [Stable]_vars
  <2> SUFFICES ASSUME Inv, Inv', Next, op' = op, op \in {"send", "write", "read"}
               PROVE  buffer' = buffer /\ (raw' \/ client')
    BY DEF vars
  <2> USE DEF clientVars, ctxVars, refVars, netVars
  <2>1. raw'
    BY DEF Inv, HandleUse, CallbackHasContext
  <2>2. CASE Begin \/ StartWrite \/ ReadAvailable \/ SendComplete
    BY <2>2 DEF Inv, JobFirst, OperationFits, Ended, Begin, StartWrite, ReadAvailable, CanRead,
       SendComplete
  <2>3. CASE CheckState
    <3>1. ~(pc = "waitWrite" /\ st = "WriteComplete")
      BY <2>3 DEF Inv, OperationFits, Ended
    <3>2. QED
      BY <2>1, <2>3, <3>1, CheckStateTo
  <2>4. CASE SetupSend \/ SetupDeliver \/ CheckError \/ StartReceive \/ Cancel
               \/ ReadError \/ QueryMore \/ Consume \/ ReadEnd \/ ReadWait \/ Close
    BY <2>1, <2>4 DEF SetupSend, SetupDeliver, CheckError, StartReceive, Cancel, ReadError,
       QueryMore, Consume, ReadEnd, ReadWait, Close
  <2>5. CASE WriteComplete \/ HeadersAvailable \/ DataAvailable \/ DataAnnounced
               \/ ReadComplete \/ RequestError \/ HandleClosing
    BY <2>1, <2>5 DEF WriteComplete, HeadersAvailable, DataAvailable, DataAnnounced, ReadComplete,
       RequestError, HandleClosing
  <2>6. QED
    BY Steps, <2>1, <2>2, <2>3, <2>4, <2>5
<1>3. Spec => []OneOperation
  BY <1>1, InvariantHolds, PTL
<1>4. Spec => [][Stable]_vars
  BY <1>2, InvariantHolds, PTL DEF Spec
<1>5. QED
  BY <1>3, <1>4 DEF BufferIsStable

\* The server is asked for a response after the whole streamed body, however
\* short WinHTTP's writes are, and the caller's read of the response ends with
\* all of it, whatever the sizes WinHTTP announces.
THEOREM BothBodiesAreWhole == Spec => []BodiesAreWhole
<1>1. Inv => BodiesAreWhole
  BY DEF Inv, BodiesAreWhole, UploadAccount, ResponseAccount
<1>2. QED
  BY <1>1, InvariantHolds, PTL

-----------------------------------------------------------------------------
(* The asynchronous client: who is asleep will be woken.                   *)

\* The operation each wait is for.
Operation == [waitSent |-> "send", waitWrite |-> "write", waitHeaders |-> "receive"]

\* A future or a read that sleeps has registered its waker, the operation it waits for
\* is in flight on an open handle, and what ends its wait has not happened yet.  The
\* one exception is the error that came between take_error and the registration: the
\* future sleeps, the error is there, and nothing is in flight.
SleeperIsAwaited ==
  /\ pc \in Waiting /\ ~half /\ ~ready =>
       /\ waker = "task" /\ st # Expected[pc] /\ handle = "open"
       /\ op = Operation[pc] \/ (err /\ op = "none")
  /\ pc = "reading" /\ ~ready =>
       /\ waker = "task" /\ ~err /\ handle = "open"
       /\ \/ st = "QueryingData" /\ op \in {"query", "queried"}
          \/ st = "Reading" /\ op = "read"

\* When the request is over nobody but WinHTTP still holds the context, and that only
\* until the handle, which is being closed, or which the thread pool's closure will
\* fail to send, reports that it is closed.
ContextIsReleased ==
  pc \in Ended =>
    /\ ~client
    /\ raw => handle = "closing" \/ (handle = "open" /\ job = "sent")

\* A wait that has not been ended by its state or by an error is for the operation in
\* flight.
WaitsForOperation ==
  /\ pc = "setup" /\ job = "sent" /\ st # "HeadersSent" /\ ~err => op = "send"
  /\ pc \in Waiting /\ st # Expected[pc] /\ ~err => op = Operation[pc]
  /\ pc = "open" => st = "HeadersReceived"
  /\ pc = "reading" /\ st = "QueryingData" /\ ~err => op \in {"query", "queried"}
  /\ pc = "reading" /\ st = "Reading" /\ ~err => op = "read"

\* Who is not going to be polled has registered a waker, and nothing has happened since.
WakerIsSet ==
  /\ pc \in {"write", "receive"} => ready
  /\ pc \in Waiting /\ ~half /\ ~ready => waker = "task" /\ st # Expected[pc]
  /\ pc = "reading" => waker = "task"
  /\ pc = "reading" /\ ~ready => ~err /\ st \in {"QueryingData", "Reading"}

\* Before the future has the handles, and after the end, they stay open only with the
\* closure that made them.
HandleIsLeft == pc \in {"idle", "setup"} \cup Ended /\ handle = "open" => job = "sent"

LEMMA OperationWaitStep ==
  ASSUME Inv, WaitsForOperation, Next
  PROVE  WaitsForOperation'
<1> USE DEF clientVars, ctxVars, refVars, netVars, InResponse, Waiting, Ended, Release, Fail,
     CanRead, WaitsForOperation, Expected, Operation
<1>1. TypeOK /\ JobFirst /\ OperationFits /\ WaitsForOperation
  BY DEF Inv
<1>2. CASE Begin
  BY <1>1, <1>2 DEF Begin
<1>3. CASE SetupSend
  BY <1>1, <1>3 DEF SetupSend, JobFirst
<1>4. CASE SetupDeliver
  BY <1>1, <1>4 DEF SetupDeliver, JobFirst, OperationFits
<1>5. CASE CheckError \/ Cancel \/ Close
  BY <1>1, <1>5 DEF CheckError, Cancel, Close
<1>6. CASE CheckState
  <2>1. NextChunk \in {"write", "receive"}
    BY DEF NextChunk
  <2>2. QED
    BY <1>1, <1>6, <2>1, CheckStateTo DEF Written
<1>7. CASE StartWrite
  BY <1>1, <1>7 DEF StartWrite, PrepareForWriting
<1>8. CASE StartReceive
  BY <1>1, <1>8 DEF StartReceive
<1>9. CASE ReadError \/ ReadEnd \/ ReadWait \/ Consume
  BY <1>1, <1>9 DEF ReadError, ReadEnd, ReadWait, Consume
<1>10. CASE ReadAvailable \/ QueryMore
  BY <1>1, <1>10 DEF ReadAvailable, QueryMore, Ask
<1>11. CASE SendComplete \/ WriteComplete \/ HeadersAvailable
  BY <1>1, <1>11 DEF SendComplete, WriteComplete, HeadersAvailable, OperationFits
<1>12. CASE DataAvailable \/ DataAnnounced \/ ReadComplete
  BY <1>1, <1>12 DEF DataAvailable, DataAnnounced, ReadComplete, OperationFits
<1>13. CASE RequestError
  BY <1>1, <1>13 DEF RequestError, OperationFits
<1>14. CASE HandleClosing
  BY <1>1, <1>14 DEF HandleClosing
<1>15. QED
  BY Steps, <1>2, <1>3, <1>4, <1>5, <1>6, <1>7, <1>8, <1>9, <1>10, <1>11, <1>12, <1>13, <1>14

LEMMA WakerStep ==
  ASSUME Inv, WaitsForOperation, WakerIsSet, Next
  PROVE  WakerIsSet'
<1> USE DEF clientVars, ctxVars, refVars, netVars, InResponse, Waiting, Ended, Release, Fail,
     Wake, CanRead, WakerIsSet, Expected
<1>1. TypeOK /\ JobFirst /\ OperationFits /\ WaitsForOperation /\ WakerIsSet
  BY DEF Inv
<1>2. CASE Begin \/ SetupSend
  BY <1>1, <1>2 DEF Begin, SetupSend
<1>3. CASE SetupDeliver
  BY <1>1, <1>3 DEF SetupDeliver
<1>4. CASE CheckError \/ Cancel \/ Close
  BY <1>1, <1>4 DEF CheckError, Cancel, Close
<1>5. CASE CheckState
  <2>1. \/ st # Expected[pc] /\ waker' = "task" /\ UNCHANGED <<pc, ready>>
        \/ ready' = TRUE /\ pc' \in {"write", "receive", "open"}
    BY <1>5, CheckStateTo DEF CheckState, NextChunk, Written
  <2>2. pc \in Waiting /\ half' = FALSE /\ UNCHANGED <<st, err>>
    BY <1>5, CheckStateTo
  <2>3. QED
    BY <1>1, <2>1, <2>2
<1>6. CASE StartWrite \/ StartReceive
  BY <1>1, <1>6 DEF StartWrite, StartReceive
<1>7. CASE ReadError \/ ReadEnd \/ ReadWait \/ Consume
  BY <1>1, <1>7 DEF ReadError, ReadEnd, ReadWait, Consume
<1>8. CASE ReadAvailable \/ QueryMore
  BY <1>1, <1>8 DEF ReadAvailable, QueryMore, Ask
<1>9. CASE SendComplete \/ WriteComplete \/ HeadersAvailable
  BY <1>1, <1>9 DEF SendComplete, WriteComplete, HeadersAvailable
<1>10. CASE DataAvailable
  BY <1>1, <1>10 DEF DataAvailable
<1>11. CASE DataAnnounced \/ ReadComplete \/ RequestError
  <2>1. /\ UNCHANGED <<pc, half, waker>> /\ Wake
        /\ pc \in Waiting => ready' \/ UNCHANGED st
    BY <1>1, <1>11 DEF DataAnnounced, ReadComplete, RequestError, OperationFits
  <2>2. pc \in {"write", "receive"} => ready'
    BY <1>1, <2>1
  <2>3. pc \in Waiting /\ ~half' /\ ~ready' => waker' = "task" /\ st' # Expected[pc]
    BY <1>1, <2>1
  <2>4. pc = "reading" => waker' = "task" /\ ready'
    BY <1>1, <2>1
  <2>5. QED
    BY <2>1, <2>2, <2>3, <2>4
<1>12. CASE HandleClosing
  BY <1>1, <1>12 DEF HandleClosing
<1>13. QED
  BY Steps, <1>2, <1>3, <1>4, <1>5, <1>6, <1>7, <1>8, <1>9, <1>10, <1>11, <1>12

LEMMA HandleLeftStep ==
  ASSUME Inv, HandleIsLeft, Next
  PROVE  HandleIsLeft'
<1> USE DEF clientVars, ctxVars, refVars, netVars, InResponse, Waiting, Ended, Release, Fail,
     CanRead, HandleIsLeft
<1>1. TypeOK /\ HandleUse /\ JobFirst /\ HandleIsLeft
  BY DEF Inv
<1>2. CASE Begin \/ SetupSend \/ SetupDeliver
  BY <1>1, <1>2 DEF Begin, SetupSend, SetupDeliver, JobFirst, HandleUse
<1>3. CASE CheckError \/ Cancel \/ Close
  BY <1>1, <1>3 DEF CheckError, Cancel, Close
<1>4. CASE CheckState
  <2>1. NextChunk \in {"write", "receive"}
    BY DEF NextChunk
  <2>2. QED
    BY <1>1, <1>4, <2>1, CheckStateTo DEF Written
<1>5. CASE StartWrite \/ StartReceive
  BY <1>1, <1>5 DEF StartWrite, StartReceive
<1>6. CASE ReadError \/ ReadAvailable \/ QueryMore \/ Consume \/ ReadEnd \/ ReadWait
  BY <1>1, <1>6 DEF ReadError, ReadAvailable, QueryMore, Ask, Consume, ReadEnd, ReadWait
<1>7. CASE SendComplete \/ WriteComplete \/ HeadersAvailable \/ DataAvailable
             \/ DataAnnounced \/ ReadComplete \/ RequestError
  BY <1>1, <1>7 DEF SendComplete, WriteComplete, HeadersAvailable, DataAvailable,
     DataAnnounced, ReadComplete, RequestError
<1>8. CASE HandleClosing
  BY <1>1, <1>8 DEF HandleClosing
<1>9. QED
  BY Steps, <1>2, <1>3, <1>4, <1>5, <1>6, <1>7, <1>8

\* No wake-up is lost between the callbacks and the polls, for bodies of any length,
\* but for an error reported between the two locks of poll_for_state.
THEOREM SleepersAreAwaited == Spec => []SleeperIsAwaited
<1>1. Init => WaitsForOperation /\ WakerIsSet
  BY DEF Init, WaitsForOperation, WakerIsSet, Waiting
<1>2. Inv /\ WaitsForOperation /\ WakerIsSet /\ [Next]_vars => (WaitsForOperation /\ WakerIsSet)'
  <2>1. WaitsForOperation /\ WakerIsSet /\ UNCHANGED vars => (WaitsForOperation /\ WakerIsSet)'
    BY DEF vars, clientVars, ctxVars, refVars, netVars, WaitsForOperation, WakerIsSet
  <2>2. QED
    BY <2>1, OperationWaitStep, WakerStep
<1>3. Inv /\ WaitsForOperation /\ WakerIsSet => SleeperIsAwaited
  <2> SUFFICES ASSUME Inv, WaitsForOperation, WakerIsSet
               PROVE  SleeperIsAwaited
    OBVIOUS
  <2>1. ASSUME pc \in Waiting, ~half, ~ready
        PROVE  /\ waker = "task" /\ st # Expected[pc] /\ handle = "open"
               /\ op = Operation[pc] \/ (err /\ op = "none")
    BY <2>1 DEF Inv, HandleUse, OperationFits, WaitsForOperation, WakerIsSet
  <2>2. ASSUME pc = "reading", ~ready
        PROVE  /\ waker = "task" /\ ~err /\ handle = "open"
               /\ \/ st = "QueryingData" /\ op \in {"query", "queried"}
                  \/ st = "Reading" /\ op = "read"
    BY <2>2 DEF Inv, HandleUse, InResponse, WaitsForOperation, WakerIsSet
  <2>3. QED
    BY <2>1, <2>2 DEF SleeperIsAwaited
<1>4. QED
  BY <1>1, <1>2, <1>3, InvariantHolds, PTL DEF Spec

\* No context is kept by a handle that nobody is going to close.
THEOREM ContextsAreReleased == Spec => []ContextIsReleased
<1>1. Init => HandleIsLeft
  BY DEF Init, HandleIsLeft
<1>2. Inv /\ HandleIsLeft /\ [Next]_vars => HandleIsLeft'
  <2>1. HandleIsLeft /\ UNCHANGED vars => HandleIsLeft'
    BY DEF vars, clientVars, ctxVars, refVars, netVars, HandleIsLeft
  <2>2. QED
    BY <2>1, HandleLeftStep
<1>3. Inv /\ HandleIsLeft => ContextIsReleased
  BY DEF Inv, HandleUse, CallbackHasContext, JobFirst, HandleIsLeft, ContextIsReleased
<1>4. QED
  BY <1>1, <1>2, <1>3, InvariantHolds, PTL DEF Spec

-----------------------------------------------------------------------------
(* The blocking client, in the steps of Exchanges.                         *)

LEMMA BlockingStep ==
  [ExchangesNext]_ExchangesVars => [Blocking!Next]_(Blocking!vars)
<1>1. UNCHANGED blockingVars => UNCHANGED Blocking!vars
  BY DEF blockingVars, Blocking!vars, Blocking!writerVars, Blocking!readVars,
         Blocking!headerVars
<1>. QED
  BY <1>1 DEF ExchangesNext, ExchangesVars

-----------------------------------------------------------------------------
(* The blocking client: the response.                                      *)

ReadTypeOK ==
  /\ breq.limit \in SUBSET Nat /\ bleft \in Nat /\ bgot \in Nat
  /\ index \in Nat /\ found \in Seq(STRING)

\* bytes() has room for one byte more than the limit; all of the body that it has left
\* out is still to come.
RoomIsLeft ==
  /\ bpc = "bytes" => /\ room = {n + 1 - bgot : n \in breq.limit}
                      /\ \A n \in breq.limit : bgot <= n
  /\ bpc = "whole" => bleft = 0 /\ \A n \in breq.limit : bgot <= n
  /\ bpc = "large" => \E n \in breq.limit : bgot > n

\* The values found are the first ones.
ValuesAreFound ==
  /\ bpc = "header" =>
       /\ Len(found) = index /\ index <= Len(HeaderValues)
       /\ \A i \in 1..index : found[i] = HeaderValues[i]
  /\ bpc \notin {"header", "failed"} => found \in {<<>>, HeaderValues}

ReadInv == ReadTypeOK /\ RoomIsLeft /\ ValuesAreFound

LEMMA ReadInit == Blocking!Init => ReadInv
<1>. SUFFICES ASSUME Blocking!Init PROVE ReadInv
  OBVIOUS
<1>1. breq.limit \in SUBSET Nat
  BY ExchangesAssumption DEF Blocking!Init
<1>2. ReadTypeOK
  BY <1>1, ExchangesAssumption DEF Blocking!Init, ReadTypeOK
<1>. QED
  BY <1>2 DEF Blocking!Init, ReadInv, RoomIsLeft, ValuesAreFound

\* A round of bytes() leaves room for one byte more than the limit, or is over it.
LEMMA ReadMoreStep == ASSUME ReadInv, Blocking!ReadMore PROVE ReadInv'
<1>1. PICK n \in 1..bleft :
        /\ bleft' = bleft - n /\ bgot' = bgot + n
        /\ IF room # {} /\ n >= Blocking!Min(room)
             THEN bpc' = "large" /\ UNCHANGED room
             ELSE room' = {r - n : r \in room} /\ UNCHANGED bpc
  BY DEF Blocking!ReadMore, Blocking!Readable
<1>2. /\ bpc = "bytes" /\ breq' = breq /\ index' = index /\ found' = found
      /\ breq.limit \in SUBSET Nat /\ bleft \in Nat /\ bgot \in Nat
      /\ room = {k + 1 - bgot : k \in breq.limit} /\ \A k \in breq.limit : bgot <= k
  BY DEF Blocking!ReadMore, Blocking!headerVars, ReadInv, ReadTypeOK, RoomIsLeft
<1>3. n \in Nat /\ bleft' \in Nat /\ bgot' \in Nat
  BY <1>1, <1>2
<1>4. ReadTypeOK' /\ bpc' \in {"bytes", "large"}
  BY <1>1, <1>2, <1>3 DEF ReadInv, ReadTypeOK
<1>5. ValuesAreFound'
  BY <1>2, <1>4 DEF ReadInv, ValuesAreFound
<1>6. room \subseteq Nat
  BY <1>2
<1>7. RoomIsLeft'
  <2>1. CASE room # {}
    <3>1. Blocking!Min(room) \in room /\ \A r \in room : Blocking!Min(room) <= r
      BY <1>6, <2>1, LeastExists DEF Blocking!Min
    <3>2. CASE n >= Blocking!Min(room)
      <4>1. PICK k \in breq.limit : Blocking!Min(room) = k + 1 - bgot
        BY <1>2, <3>1
      <4>2. bgot' > k /\ k \in breq.limit' /\ bpc' = "large"
        BY <1>1, <1>2, <1>3, <2>1, <3>2, <4>1
      <4>. QED
        BY <4>2 DEF RoomIsLeft
    <3>3. CASE ~ (n >= Blocking!Min(room))
      <4>1. bpc' = "bytes" /\ room' = {r - n : r \in room}
        BY <1>1, <1>2, <3>3
      <4>2. \A k \in breq.limit : n < k + 1 - bgot
        BY <1>2, <1>3, <1>6, <3>1, <3>3
      <4>3. \A k \in breq.limit : (k + 1 - bgot) - n = k + 1 - bgot' /\ bgot' <= k
        BY <1>1, <1>2, <1>3, <4>2
      <4>4. room' = {k + 1 - bgot' : k \in breq.limit}
        BY <1>2, <4>1, <4>3
      <4>. QED
        BY <1>2, <4>1, <4>3, <4>4 DEF RoomIsLeft
    <3>. QED
      BY <3>2, <3>3
  <2>2. CASE room = {}
    <3>1. breq.limit = {}
      BY <1>2, <2>2
    <3>2. bpc' = "bytes" /\ room' = {}
      BY <1>1, <1>2, <2>2
    <3>. QED
      BY <1>2, <3>1, <3>2 DEF RoomIsLeft
  <2>. QED
    BY <2>1, <2>2
<1>. QED
  BY <1>4, <1>5, <1>7 DEF ReadInv

LEMMA QueryHeaderStep == ASSUME ReadInv, Blocking!QueryHeader PROVE ReadInv'
<1>1. UNCHANGED <<breq, bleft, bgot, room>>
  BY DEF Blocking!QueryHeader
<1>2. HeaderValues \in Seq(STRING)
  BY ExchangesAssumption
<1>3. CASE bpc = "open" /\ bpc' = "header" /\ index' = 0 /\ found' = <<>>
  <2>1. ReadTypeOK' /\ RoomIsLeft'
    BY <1>1, <1>3 DEF ReadInv, ReadTypeOK, RoomIsLeft
  <2>2. ValuesAreFound'
    BY <1>2, <1>3 DEF ValuesAreFound
  <2>. QED
    BY <2>1, <2>2 DEF ReadInv
<1>4. CASE /\ bpc = "header" /\ index < Len(HeaderValues) /\ bpc' = bpc
           /\ index' = index + 1 /\ found' = Append(found, HeaderValues[index + 1])
  <2>1. /\ index \in Nat /\ found \in Seq(STRING) /\ Len(found) = index
        /\ \A i \in 1..index : found[i] = HeaderValues[i]
    BY <1>4 DEF ReadInv, ReadTypeOK, ValuesAreFound
  <2>2. HeaderValues[index + 1] \in STRING
    BY <1>2, <1>4, <2>1
  <2>3. /\ found' \in Seq(STRING) /\ Len(found') = index + 1
        /\ found'[index + 1] = HeaderValues[index + 1]
        /\ \A i \in 1..index : found'[i] = found[i]
    BY <1>4, <2>1, <2>2, AppendProperties
  <2>4. ReadTypeOK' /\ RoomIsLeft'
    BY <1>1, <1>4, <2>1, <2>3 DEF ReadInv, ReadTypeOK, RoomIsLeft
  <2>5. index + 1 <= Len(HeaderValues)
    BY <1>2, <1>4, <2>1
  <2>6. \A i \in 1..(index + 1) : found'[i] = HeaderValues[i]
    BY <2>1, <2>3
  <2>7. ValuesAreFound'
    BY <1>4, <2>3, <2>5, <2>6 DEF ValuesAreFound
  <2>. QED
    BY <2>4, <2>7 DEF ReadInv
<1>5. CASE /\ bpc = "header" /\ index = Len(HeaderValues) /\ bpc' = "open"
           /\ UNCHANGED <<index, found>>
  <2>1. /\ found \in Seq(STRING) /\ Len(found) = Len(HeaderValues)
        /\ \A i \in 1..Len(HeaderValues) : found[i] = HeaderValues[i]
    BY <1>5 DEF ReadInv, ReadTypeOK, ValuesAreFound
  <2>2. found = HeaderValues
    BY <1>2, <2>1, SeqEqual
  <2>. QED
    BY <1>1, <1>5, <2>2 DEF ReadInv, ReadTypeOK, RoomIsLeft, ValuesAreFound
<1>. QED
  BY <1>3, <1>4, <1>5 DEF Blocking!QueryHeader, Blocking!headerVars

LEMMA ReadNext == ReadInv /\ [Blocking!Next]_(Blocking!vars) => ReadInv'
<1>. SUFFICES ASSUME ReadInv, [Blocking!Next]_(Blocking!vars) PROVE ReadInv'
  OBVIOUS
<1>. USE DEF ReadInv, ReadTypeOK, RoomIsLeft, ValuesAreFound, Blocking!readVars,
             Blocking!headerVars
<1>1. CASE Blocking!Configure \/ Blocking!Fail \/ UNCHANGED Blocking!vars
  BY <1>1 DEF Blocking!Configure, Blocking!Fail, Blocking!vars
<1>2. CASE Blocking!CreateRequest \/ Blocking!Receive
  BY <1>2 DEF Blocking!CreateRequest, Blocking!Receive
<1>3. CASE Blocking!Send
  BY <1>3 DEF Blocking!Send, Blocking!SendStreaming, Blocking!SendComplete
<1>4. CASE Blocking!TakeBuffer
  BY <1>4 DEF Blocking!TakeBuffer
<1>5. CASE Blocking!WriteData \/ Blocking!Advance
  BY <1>5 DEF Blocking!WriteData, Blocking!Advance
<1>6. CASE Blocking!Read
  BY <1>6 DEF Blocking!Read
<1>7. CASE Blocking!StartBytes
  BY <1>7 DEF Blocking!StartBytes, Blocking!RoomFor
<1>8. CASE Blocking!ReadAll
  BY <1>8 DEF Blocking!ReadAll
<1>. QED
  BY <1>1, <1>2, <1>3, <1>4, <1>5, <1>6, <1>7, <1>8, ReadMoreStep, QueryHeaderStep
  DEF Blocking!Next

\* A body within the limit is returned whole and a longer one refused; a header is
\* returned with all its values.
THEOREM WinHttpIsExact == ExchangesSpec => []ResponseIsExact
<1>1. ExchangesInit => ReadInv
  BY ReadInit DEF ExchangesInit
<1>2. ReadInv /\ [ExchangesNext]_ExchangesVars => ReadInv'
  BY ReadNext, BlockingStep
<1>3. ReadInv => ResponseIsExact
  BY DEF ReadInv, RoomIsLeft, ValuesAreFound, ResponseIsExact, Blocking!ResponseIsExact
<1>. QED
  BY <1>1, <1>2, <1>3, PTL DEF ExchangesSpec

-----------------------------------------------------------------------------
(* The blocking client: the parts of a body, one after the other.          *)

\* Bytes; the provers need to be told of the literals.
Tokens == (STRING \cup {"crlf", "zero", "head", "end", "size"}) \X Nat

SyncParts == [stream: BOOLEAN, sized: BOOLEAN, data: Seq(Tokens)]

FlatTo(s, n, f) ==
  f = [i \in 1..n |-> IF i = 1 THEN s[i] ELSE f[i - 1] \o s[i]]

Flat(s) == CHOOSE f : FlatTo(s, Len(s), f)

LEMMA FlatExists ==
  ASSUME NEW s, NEW n \in Nat
  PROVE  \E f : FlatTo(s, n, f)
<1>. DEFINE Bad == {k \in Nat : ~\E f : FlatTo(s, k, f)}
<1>1. SUFFICES ASSUME Bad # {} PROVE FALSE
  OBVIOUS
<1>2. PICK m \in Bad : \A k \in Bad : m <= k
  <2>1. Bad \subseteq Nat
    OBVIOUS
  <2>. QED
    BY <1>1, <2>1, LeastExists
<1>3. m \in Nat /\ ~\E f : FlatTo(s, m, f)
  BY <1>2
<1>4. CASE m = 0
  <2>1. FlatTo(s, m, [i \in 1..m |-> <<>>])
    BY <1>4 DEF FlatTo
  <2>. QED
    BY <1>3, <2>1
<1>5. CASE m # 0
  <2>1. m - 1 \in Nat /\ m - 1 \notin Bad
    BY <1>2, <1>3, <1>5
  <2>2. PICK g : FlatTo(s, m - 1, g)
    BY <2>1
  <2>. DEFINE h == [i \in 1..m |->
                      IF i = m THEN IF m = 1 THEN s[m] ELSE g[m - 1] \o s[m]
                      ELSE g[i]]
  <2>3. \A i \in 1..(m - 1) : g[i] = IF i = 1 THEN s[i] ELSE g[i - 1] \o s[i]
    BY <1>3, <1>5, <2>2 DEF FlatTo
  <2>4. \A i \in 1..m : h[i] = IF i = 1 THEN s[i] ELSE h[i - 1] \o s[i]
    BY <1>3, <1>5, <2>3
  <2>5. FlatTo(s, m, h)
    BY <2>4 DEF FlatTo
  <2>. QED
    BY <1>3, <2>5
<1>. QED
  BY <1>4, <1>5

LEMMA FlatUnfold ==
  ASSUME NEW s \in Seq(Seq(Tokens))
  PROVE  /\ Blocking!FlattenSeq(s) = IF Len(s) = 0 THEN s ELSE Flat(s)[Len(s)]
         /\ \A i \in 1..Len(s) :
              Flat(s)[i] = IF i = 1 THEN s[i] ELSE Flat(s)[i - 1] \o s[i]
<1>1. FlatTo(s, Len(s), Flat(s))
  <2>1. Len(s) \in Nat
    OBVIOUS
  <2>. QED
    BY <2>1, FlatExists, Zenon DEF Flat
<1>2. Blocking!FlattenSeq(s) = IF Len(s) = 0 THEN s ELSE Flat(s)[Len(s)]
  BY Zenon DEF Blocking!FlattenSeq, Flat, FlatTo
<1>3. \A i \in 1..Len(s) : Flat(s)[i] = IF i = 1 THEN s[i] ELSE Flat(s)[i - 1] \o s[i]
  BY <1>1, Zenon DEF FlatTo
<1>. QED
  BY <1>2, <1>3

\* What is joined of a list does not depend on what follows.
LEMMA FlatAgree ==
  ASSUME NEW s \in Seq(Seq(Tokens)), NEW t \in Seq(Seq(Tokens)), Len(s) <= Len(t),
         \A i \in 1..Len(s) : s[i] = t[i]
  PROVE  \A i \in 1..Len(s) : Flat(s)[i] = Flat(t)[i]
<1>. DEFINE Bad == {k \in 1..Len(s) : Flat(s)[k] # Flat(t)[k]}
<1>0. Len(s) \in Nat /\ Len(t) \in Nat
  OBVIOUS
<1>1. SUFFICES ASSUME Bad # {} PROVE FALSE
  OBVIOUS
<1>2. PICK m \in Bad : \A k \in Bad : m <= k
  <2>1. Bad \subseteq Nat
    OBVIOUS
  <2>. QED
    BY <1>1, <2>1, LeastExists
<1>3. m \in 1..Len(s) /\ m \in 1..Len(t)
  BY <1>0, <1>2
<1>4. m # 1 => m - 1 \in 1..Len(s) /\ m - 1 \notin Bad
  BY <1>0, <1>2
<1>5. m # 1 => Flat(s)[m - 1] = Flat(t)[m - 1]
  BY <1>4
<1>6. Flat(s)[m] = Flat(t)[m]
  <2>1. Flat(s)[m] = IF m = 1 THEN s[m] ELSE Flat(s)[m - 1] \o s[m]
    BY <1>3, FlatUnfold
  <2>2. Flat(t)[m] = IF m = 1 THEN t[m] ELSE Flat(t)[m - 1] \o t[m]
    BY <1>3, FlatUnfold
  <2>3. s[m] = t[m]
    BY <1>3
  <2>. QED
    BY <1>5, <2>1, <2>2, <2>3
<1>. QED
  BY <1>2, <1>6

Joined(s) == Blocking!FlattenSeq(s)

LEMMA JoinedNone == Joined(<<>>) = <<>>
<1>1. <<>> \in Seq(Seq(Tokens)) /\ Len(<<>>) = 0
  BY EmptySeq
<1>. QED
  BY <1>1, FlatUnfold, Zenon DEF Joined

LEMMA JoinedAppends ==
  ASSUME NEW s \in Seq(Seq(Tokens)), NEW x \in Seq(Tokens)
  PROVE  Joined(Append(s, x)) = IF s = <<>> THEN x ELSE Joined(s) \o x
<1>. DEFINE t == Append(s, x)
<1>0. x \in Seq(Tokens)
  OBVIOUS
<1>1. /\ t \in Seq(Seq(Tokens)) /\ Len(t) = Len(s) + 1 /\ Len(s) \in Nat
      /\ t[Len(s) + 1] = x /\ \A i \in 1..Len(s) : t[i] = s[i]
  <2>. DEFINE B == Seq(Tokens)
  <2>1. s \in Seq(B) /\ x \in B
    OBVIOUS
  <2>. HIDE DEF B
  <2>2. /\ t \in Seq(B) /\ Len(t) = Len(s) + 1 /\ Len(s) \in Nat
        /\ t[Len(s) + 1] = x /\ \A i \in 1..Len(s) : t[i] = s[i]
    BY <2>1
  <2>. QED
    BY <2>2 DEF B
<1>. HIDE DEF t
<1>2. Joined(t) = Flat(t)[Len(s) + 1]
  <2>1. Len(t) # 0
    BY <1>1
  <2>. QED
    BY <1>1, <2>1, FlatUnfold, Zenon DEF Joined
<1>3. Len(s) + 1 \in 1..Len(t) /\ (Len(s) + 1) - 1 = Len(s)
  BY <1>1
<1>4. Flat(t)[Len(s) + 1] = IF Len(s) + 1 = 1 THEN x ELSE Flat(t)[Len(s)] \o x
  BY <1>1, <1>3, FlatUnfold, Zenon
<1>5. CASE s = <<>>
  <2>1. Len(s) + 1 = 1
    BY <1>5
  <2>. QED
    BY <1>2, <1>4, <1>5, <2>1 DEF t
<1>6. CASE s # <<>>
  <2>1. Len(s) + 1 # 1 /\ Len(s) # 0 /\ Len(s) \in 1..Len(s) /\ Len(s) <= Len(t)
    <3>. DEFINE B == Seq(Tokens)
    <3>1. s \in Seq(B)
      OBVIOUS
    <3>. HIDE DEF B
    <3>2. Len(s) # 0
      BY <1>6, <3>1
    <3>. QED
      BY <1>1, <3>2
  <2>2. Flat(t)[Len(s)] = Flat(s)[Len(s)]
    BY <1>1, <2>1, FlatAgree
  <2>3. Joined(s) = Flat(s)[Len(s)]
    BY <2>1, FlatUnfold, Zenon DEF Joined
  <2>. QED
    BY <1>2, <1>4, <1>6, <2>1, <2>2, <2>3, Zenon DEF t
<1>. QED
  BY <1>5, <1>6

LEMMA JoinedType == ASSUME NEW s \in Seq(Seq(Tokens)) PROVE Joined(s) \in Seq(Tokens)
<1>. DEFINE B == Seq(Tokens)
            T == {u \in Seq(B) : Joined(u) \in B}
<1>1. <<>> \in T
  <2>1. <<>> \in Seq(B) /\ <<>> \in B
    BY EmptySeq
  <2>. QED
    BY <2>1, JoinedNone
<1>2. ASSUME NEW u \in Seq(B), NEW x \in B, u \in T PROVE Append(u, x) \in T
  <2>1. Append(u, x) \in Seq(B)
    BY AppendProperties
  <2>2. Joined(u) \o x \in B /\ x \in B
    BY <1>2, ConcatProperties
  <2>3. Joined(Append(u, x)) = IF u = <<>> THEN x ELSE Joined(u) \o x
    BY JoinedAppends
  <2>. HIDE DEF B
  <2>. QED
    BY <2>1, <2>2, <2>3
<1>3. s \in Seq(B)
  OBVIOUS
<1>. HIDE DEF B
<1>4. s \in T
  BY <1>1, <1>2, <1>3, SeqInduction
<1>. QED
  BY <1>4 DEF B

LEMMA JoinedAppend ==
  ASSUME NEW s \in Seq(Seq(Tokens)), NEW x \in Seq(Tokens)
  PROVE  Joined(Append(s, x)) = Joined(s) \o x
<1>1. <<>> \o x = x
  BY ConcatEmptySeq
<1>. QED
  BY <1>1, JoinedAppends, JoinedNone, Zenon

\* The data of parts.
DataOf(ps) == [i \in DOMAIN ps |-> ps[i].data]

LEMMA DataIsSeq ==
  ASSUME NEW ps \in Seq(SyncParts)
  PROVE  DataOf(ps) \in Seq(Seq(Tokens)) /\ Len(DataOf(ps)) = Len(ps)
<1>. DEFINE B == Seq(Tokens)
<1>1. Len(ps) \in Nat /\ DOMAIN ps = 1..Len(ps) /\ \A i \in 1..Len(ps) : ps[i] \in SyncParts
  BY LenProperties, ElementOfSeq
<1>2. \A i \in 1..Len(ps) : ps[i].data \in B
  BY <1>1 DEF SyncParts
<1>. HIDE DEF B
<1>3. DataOf(ps) \in [1..Len(ps) -> B]
  BY <1>1, <1>2 DEF DataOf
<1>4. DataOf(ps) \in Seq(B) /\ Len(DataOf(ps)) = Len(ps)
  BY <1>1, <1>3
<1>. QED
  BY <1>4 DEF B

LEMMA ContentsJoin == ASSUME NEW ps PROVE Blocking!Contents(ps) = Joined(DataOf(ps))
  BY Zenon DEF Blocking!Contents, DataOf, Joined

LEMMA ContentsType ==
  ASSUME NEW ps \in Seq(SyncParts) PROVE Blocking!Contents(ps) \in Seq(Tokens)
  BY DataIsSeq, ContentsJoin, JoinedType

LEMMA ContentsNone == Blocking!Contents(<<>>) = <<>>
<1>1. <<>> \in Seq(SyncParts)
  BY EmptySeq
<1>2. DataOf(<<>>) \in Seq(Seq(Tokens)) /\ Len(DataOf(<<>>)) = 0
  BY <1>1, DataIsSeq
<1>3. DataOf(<<>>) = <<>>
  <2>. DEFINE B == Seq(Tokens)
  <2>1. DataOf(<<>>) \in Seq(B)
    BY <1>2
  <2>. HIDE DEF B
  <2>. QED
    BY <1>2, <2>1
<1>. QED
  BY <1>3, ContentsJoin, JoinedNone

LEMMA ContentsAppend ==
  ASSUME NEW ps \in Seq(SyncParts), NEW p \in SyncParts
  PROVE  Blocking!Contents(Append(ps, p)) = Blocking!Contents(ps) \o p.data
<1>. DEFINE all == Append(ps, p)
            B == Seq(Tokens)
<1>1. /\ all \in Seq(SyncParts) /\ Len(all) = Len(ps) + 1 /\ Len(ps) \in Nat
      /\ all[Len(ps) + 1] = p /\ \A i \in 1..Len(ps) : all[i] = ps[i]
  <2>. HIDE DEF all
  <2>. QED
    BY AppendProperties, LenProperties DEF all
<1>2. p.data \in B
  BY DEF SyncParts
<1>. HIDE DEF all, B
<1>3. /\ DataOf(all) \in Seq(B) /\ Len(DataOf(all)) = Len(all)
      /\ DataOf(ps) \in Seq(B) /\ Len(DataOf(ps)) = Len(ps)
  BY <1>1, DataIsSeq DEF B
<1>4. /\ DOMAIN all = 1..Len(all) /\ DOMAIN ps = 1..Len(ps)
  BY <1>1, LenProperties
<1>5. \A i \in 1..Len(ps) : DataOf(all)[i] = DataOf(ps)[i]
  BY <1>1, <1>4 DEF DataOf
<1>6. DataOf(all)[Len(ps) + 1] = p.data
  BY <1>1, <1>4 DEF DataOf
<1>7. DataOf(all) = Append(DataOf(ps), p.data)
  <2>. DEFINE s == DataOf(all)
              t == DataOf(ps)
              x == p.data
              u == Append(t, x)
  <2>0. s \in Seq(B) /\ t \in Seq(B) /\ x \in B /\ Len(s) = Len(t) + 1 /\ Len(t) \in Nat
        /\ s[Len(t) + 1] = x /\ \A i \in 1..Len(t) : s[i] = t[i]
    BY <1>1, <1>2, <1>3, <1>5, <1>6
  <2>. HIDE DEF s, t, x
  <2>1. u \in Seq(B) /\ Len(u) = Len(t) + 1 /\ u[Len(t) + 1] = x
        /\ \A i \in 1..Len(t) : u[i] = t[i]
    BY <2>0, AppendProperties
  <2>. HIDE DEF u
  <2>2. \A i \in 1..Len(s) : s[i] = u[i]
    BY <2>0, <2>1
  <2>3. s = u
    BY <2>0, <2>1, <2>2, SeqEqual
  <2>. QED
    BY <2>3 DEF s, t, x, u
<1>8. Joined(Append(DataOf(ps), p.data)) = Joined(DataOf(ps)) \o p.data
  <2>1. DataOf(ps) \in Seq(Seq(Tokens)) /\ p.data \in Seq(Tokens)
    BY <1>2, <1>3 DEF B
  <2>. QED
    BY <2>1, JoinedAppend
<1>. QED
  BY <1>7, <1>8, ContentsJoin, Zenon DEF all

LEMMA ContentsOne ==
  ASSUME NEW p \in SyncParts PROVE Blocking!Contents(<<p>>) = p.data
<1>1. <<>> \in Seq(SyncParts) /\ p.data \in Seq(Tokens)
  BY EmptySeq DEF SyncParts
<1>2. <<p>> = Append(<<>>, p)
  OBVIOUS
<1>3. <<>> \o p.data = p.data
  BY <1>1, ConcatEmptySeq
<1>4. Blocking!Contents(Append(<<>>, p)) = Blocking!Contents(<<>>) \o p.data
  BY <1>1, ContentsAppend
<1>. QED
  BY <1>2, <1>3, <1>4, ContentsNone, Zenon

LEMMA Associates ==
  \A s, t, u \in Seq(Tokens) : (s \o t) \o u = s \o (t \o u)
<1>. HIDE DEF Tokens
<1>. QED
  BY ConcatAssociative

\* The first part and the others.
LEMMA ContentsHead ==
  ASSUME NEW s \in Seq(SyncParts), s # <<>>
  PROVE  Blocking!Contents(s) = Head(s).data \o Blocking!Contents(Tail(s))
<1>. DEFINE C(u) == Blocking!Contents(u)
            T == {u \in Seq(SyncParts) : u # <<>> => C(u) = Head(u).data \o C(Tail(u))}
<1>1. <<>> \in T
  BY EmptySeq
<1>2. ASSUME NEW u \in Seq(SyncParts), NEW p \in SyncParts, u \in T
      PROVE  Append(u, p) \in T
  <2>1. Append(u, p) \in Seq(SyncParts) /\ p.data \in Seq(Tokens)
    BY AppendProperties DEF SyncParts
  <2>2. C(Append(u, p)) = C(u) \o p.data
    BY ContentsAppend
  <2>3. /\ Head(Append(u, p)) = IF u = <<>> THEN p ELSE Head(u)
        /\ Tail(Append(u, p)) = IF u = <<>> THEN <<>> ELSE Append(Tail(u), p)
    BY HeadTailAppend
  <2>. HIDE DEF C
  <2>4. CASE u = <<>>
    <3>1. C(u) = <<>> /\ <<>> \o p.data = p.data /\ p.data \o <<>> = p.data
      BY <2>1, <2>4, ContentsNone, ConcatEmptySeq DEF C
    <3>2. C(Append(u, p)) = Head(Append(u, p)).data \o C(Tail(Append(u, p)))
      BY <2>2, <2>3, <2>4, <3>1, ContentsNone, Zenon DEF C
    <3>. QED
      BY <2>1, <3>2
  <2>5. CASE u # <<>>
    <3>1. Head(u) \in SyncParts /\ Tail(u) \in Seq(SyncParts)
      BY <2>5, HeadTailProperties
    <3>2. C(u) = Head(u).data \o C(Tail(u))
      BY <1>2, <2>5
    <3>3. C(Append(Tail(u), p)) = C(Tail(u)) \o p.data
      BY <3>1, ContentsAppend DEF C
    <3>4. Head(u).data \in Seq(Tokens) /\ C(Tail(u)) \in Seq(Tokens)
      BY <3>1, ContentsType DEF C, SyncParts
    <3>5. (Head(u).data \o C(Tail(u))) \o p.data = Head(u).data \o (C(Tail(u)) \o p.data)
      BY ONLY <2>1, <3>4, Associates
    <3>6. C(Append(u, p)) = Head(Append(u, p)).data \o C(Tail(Append(u, p)))
      BY <2>2, <2>3, <2>5, <3>2, <3>3, <3>5, Zenon
    <3>. QED
      BY <2>1, <3>6
  <2>. QED
    BY <2>4, <2>5
<1>3. s \in T
  <2>. HIDE DEF T
  <2>. QED
    BY <1>1, <1>2, SeqInduction
<1>. QED
  BY <1>3

\* Parts that are used up leave the contents as they are.
LEMMA ContentsSkip ==
  ASSUME NEW ps \in Seq(SyncParts), NEW n \in 1..(Len(ps) + 1),
         \A i \in 1..(n - 1) : ps[i].data = <<>>
  PROVE  /\ SubSeq(ps, n, Len(ps)) \in Seq(SyncParts)
         /\ Blocking!Contents(SubSeq(ps, n, Len(ps))) = Blocking!Contents(ps)
<1>. DEFINE L == Len(ps)
            From(k) == SubSeq(ps, k, L)
            Bad == {k \in Nat : k \in 1..n
                                  /\ Blocking!Contents(From(k)) # Blocking!Contents(ps)}
<1>0. L \in Nat /\ n \in Nat /\ 1 <= n /\ n <= L + 1
      /\ \A i \in 1..L : ps[i] \in SyncParts
  BY LenProperties, ElementOfSeq
<1>1. ASSUME NEW k \in Int, 1 <= k
      PROVE From(k) \in Seq(SyncParts)
  BY <1>0, <1>1, SubSeqProperties
<1>2. From(1) = ps
  BY SubSeqFull
<1>3. SUFFICES ASSUME Bad # {} PROVE FALSE
  <2>1. n \notin Bad => Blocking!Contents(From(n)) = Blocking!Contents(ps)
    BY <1>0
  <2>. QED
    BY <1>0, <1>1, <2>1
<1>. HIDE DEF From
<1>4. PICK m \in Bad : \A k \in Bad : m <= k
  <2>1. Bad \subseteq Nat
    OBVIOUS
  <2>. QED
    BY <1>3, <2>1, LeastExists
<1>5. m # 1
  BY <1>2, <1>4
<1>6. m - 1 \in 1..n /\ m - 1 \in Nat /\ m - 1 \notin Bad /\ m - 1 \in 1..L
  BY <1>0, <1>4, <1>5
<1>7. Blocking!Contents(From(m - 1)) = Blocking!Contents(ps)
  BY <1>6
<1>8. /\ From(m - 1) # <<>> /\ Head(From(m - 1)) = ps[m - 1] /\ Tail(From(m - 1)) = From(m)
  <2>1. L \in (m - 1)..L /\ (m - 1) + 1 = m
    BY <1>0, <1>6
  <2>2. Head(From(m - 1)) = ps[m - 1] /\ Tail(From(m - 1)) = From(m)
    BY <1>6, <2>1, HeadTailOfSubSeq DEF From
  <2>3. Len(From(m - 1)) # 0
    <3>1. \A i \in (m - 1)..L : ps[i] \in SyncParts
      BY <1>0, <1>6
    <3>2. Len(From(m - 1)) = IF m - 1 <= L THEN L - (m - 1) + 1 ELSE 0
      BY <1>0, <1>6, <3>1, SubSeqProperties DEF From
    <3>. QED
      BY <1>0, <1>6, <3>2
  <2>. QED
    BY <2>2, <2>3
<1>9. Blocking!Contents(From(m - 1)) = ps[m - 1].data \o Blocking!Contents(From(m))
  <2>1. From(m - 1) \in Seq(SyncParts)
    BY <1>1, <1>6
  <2>. QED
    BY <1>8, <2>1, ContentsHead, Zenon
<1>10. ps[m - 1].data = <<>>
  BY <1>4, <1>6
<1>11. <<>> \o Blocking!Contents(From(m)) = Blocking!Contents(From(m))
  <2>1. From(m) \in Seq(SyncParts)
    BY <1>1, <1>4
  <2>. QED
    BY <2>1, ContentsType, ConcatEmptySeq
<1>. QED
  BY <1>4, <1>7, <1>9, <1>10, <1>11

-----------------------------------------------------------------------------
(* The parts a form is made of.                                            *)

\* The fold over the parts of a form: what was made of the parts of a set.
AddPart(ps, acc, i) ==
  LET text == Append(acc.text, <<"head", i>>) IN
  IF ps[i].stream
    THEN [out |-> acc.out \o <<Blocking!Data(text), ps[i]>>, text |-> <<Blocking!CRLF>>]
    ELSE [acc EXCEPT !.text = text \o ps[i].data \o <<Blocking!CRLF>>]

NoParts == [out |-> <<>>, text |-> <<>>]
Indices(ps) == [i \in 1..Len(ps) |-> i]

FoldsTo(ps, T, f) ==
  f = [s \in SUBSET T |->
         IF s = {} THEN NoParts
         ELSE AddPart(ps, f[s \ {Blocking!Max(s)}], Indices(ps)[Blocking!Max(s)])]

Folded(ps) == CHOOSE f : FoldsTo(ps, DOMAIN Indices(ps), f)

LEMMA FormIsFolded ==
  ASSUME NEW ps
  PROVE  LET all == Folded(ps)[DOMAIN Indices(ps)] IN
         Blocking!GenerateMultipart(ps) =
           Append(all.out, Blocking!Data(Append(all.text, <<"end", 0>>)))
  BY Zenon
  DEF Blocking!GenerateMultipart, Blocking!FoldLeft, Blocking!MapThenFoldSet, Folded, FoldsTo,
      AddPart, NoParts, Indices

LEMMA MaxIsLast ==
  ASSUME NEW n \in Nat, NEW s \in SUBSET (1..n), n \in s
  PROVE  Blocking!Max(s) = n
<1>1. \A y \in s : n >= y
  OBVIOUS
<1>2. \A x \in s : (\A y \in s : x >= y) => x = n
  OBVIOUS
<1>. QED
  BY <1>1, <1>2 DEF Blocking!Max

LEMMA FoldExists ==
  ASSUME NEW ps, NEW n \in Nat
  PROVE  \E f : FoldsTo(ps, 1..n, f)
<1>. DEFINE Bad == {k \in Nat : ~\E f : FoldsTo(ps, 1..k, f)}
<1>1. SUFFICES ASSUME Bad # {} PROVE FALSE
  OBVIOUS
<1>2. PICK m \in Bad : \A k \in Bad : m <= k
  <2>1. Bad \subseteq Nat
    OBVIOUS
  <2>. QED
    BY <1>1, <2>1, LeastExists
<1>3. m \in Nat /\ ~\E f : FoldsTo(ps, 1..m, f)
  BY <1>2
<1>4. CASE m = 0
  <2>. DEFINE f == [s \in SUBSET (1..m) |-> NoParts]
  <2>1. \A s \in SUBSET (1..m) : s = {}
    BY <1>4
  <2>2. f = [s \in SUBSET (1..m) |->
               IF s = {} THEN NoParts
               ELSE AddPart(ps, f[s \ {Blocking!Max(s)}], Indices(ps)[Blocking!Max(s)])]
    BY <2>1, Zenon
  <2>3. FoldsTo(ps, 1..m, f)
    BY <2>2 DEF FoldsTo
  <2>. QED
    BY <1>3, <2>3
<1>5. CASE m # 0
  <2>1. m - 1 \in Nat /\ m - 1 \notin Bad
    BY <1>2, <1>3, <1>5
  <2>2. PICK g : FoldsTo(ps, 1..m - 1, g)
    BY <2>1
  <2>. DEFINE h == [s \in SUBSET (1..m) |->
                      IF m \notin s THEN g[s]
                      ELSE AddPart(ps, g[s \ {m}], Indices(ps)[m])]
              Value(s) == IF s = {} THEN NoParts
                         ELSE AddPart(ps, h[s \ {Blocking!Max(s)}], Indices(ps)[Blocking!Max(s)])
  <2>3. \A s \in SUBSET (1..m) : m \notin s => s \in SUBSET (1..m - 1)
    BY <1>3, <1>5
  <2>4. \A s \in SUBSET (1..m) : \A x : s \ {x} \in SUBSET (1..m)
    OBVIOUS
  <2>5. ASSUME NEW s \in SUBSET (1..m), m \notin s PROVE h[s] = Value(s)
    <3>1. s \in SUBSET (1..m - 1) /\ h[s] = g[s]
      BY <2>3, <2>5
    <3>2. g[s] = IF s = {} THEN NoParts
                 ELSE AddPart(ps, g[s \ {Blocking!Max(s)}], Indices(ps)[Blocking!Max(s)])
      BY <2>2, <3>1, Zenon DEF FoldsTo
    <3>3. h[s \ {Blocking!Max(s)}] = g[s \ {Blocking!Max(s)}]
      <4>1. s \ {Blocking!Max(s)} \in SUBSET (1..m) /\ m \notin s \ {Blocking!Max(s)}
        BY <2>5
      <4>. QED
        BY <4>1
    <3>. QED
      BY <3>1, <3>2, <3>3, Zenon
  <2>6. ASSUME NEW s \in SUBSET (1..m), m \in s PROVE h[s] = Value(s)
    <3>1. Blocking!Max(s) = m /\ s # {}
      BY <1>3, <2>6, MaxIsLast
    <3>2. h[s] = AddPart(ps, g[s \ {m}], Indices(ps)[m])
      BY <2>6
    <3>3. h[s \ {m}] = g[s \ {m}]
      <4>1. s \ {m} \in SUBSET (1..m) /\ m \notin s \ {m}
        BY <2>6
      <4>. QED
        BY <4>1
    <3>. QED
      BY <3>1, <3>2, <3>3, Zenon
  <2>7. h = [s \in SUBSET (1..m) |-> Value(s)]
    <3>1. \A s \in SUBSET (1..m) : h[s] = Value(s)
      BY <2>5, <2>6
    <3>2. h = [s \in SUBSET (1..m) |-> h[s]]
      OBVIOUS
    <3>. HIDE DEF h, Value
    <3>. QED
      BY <3>1, <3>2
  <2>8. FoldsTo(ps, 1..m, h)
    BY <2>7 DEF FoldsTo
  <2>. QED
    BY <1>3, <2>8
<1>. QED
  BY <1>4, <1>5

\* What the fold makes of the first parts.
FirstParts(ps, k) == Folded(ps)[1..k]

LEMMA FoldSteps ==
  ASSUME NEW S, NEW ps \in Seq(S)
  PROVE  /\ FirstParts(ps, 0) = NoParts
         /\ \A k \in 1..Len(ps) : FirstParts(ps, k) = AddPart(ps, FirstParts(ps, k - 1), k)
<1>1. Len(ps) \in Nat /\ DOMAIN Indices(ps) = 1..Len(ps)
  BY DEF Indices
<1>2. FoldsTo(ps, 1..Len(ps), Folded(ps))
  BY <1>1, FoldExists, Zenon DEF Folded
<1>. DEFINE f == Folded(ps)
<1>3. \A s \in SUBSET (1..Len(ps)) :
        f[s] = IF s = {} THEN NoParts
               ELSE AddPart(ps, f[s \ {Blocking!Max(s)}], Indices(ps)[Blocking!Max(s)])
  BY <1>2, Zenon DEF FoldsTo
<1>. HIDE DEF f
<1>4. f[1..0] = NoParts
  <2>1. 1..0 = {} /\ {} \in SUBSET (1..Len(ps))
    OBVIOUS
  <2>. QED
    BY <1>3, <2>1
<1>5. ASSUME NEW k \in 1..Len(ps) PROVE f[1..k] = AddPart(ps, f[1..k - 1], k)
  <2>1. 1..k \in SUBSET (1..Len(ps)) /\ k \in Nat /\ k \in 1..k /\ 1..k # {}
    <3>1. k \in Nat /\ k >= 1 /\ k <= Len(ps)
      BY <1>1
    <3>2. k \in 1..k
      BY <3>1
    <3>3. \A i \in 1..k : i \in 1..Len(ps)
      BY <1>1, <3>1
    <3>. QED
      BY <3>1, <3>2, <3>3
  <2>2. Blocking!Max(1..k) = k
    BY <2>1, MaxIsLast
  <2>3. (1..k) \ {k} = 1..k - 1
    OBVIOUS
  <2>4. Indices(ps)[k] = k
    BY DEF Indices
  <2>5. f[1..k] = AddPart(ps, f[(1..k) \ {Blocking!Max(1..k)}], Indices(ps)[Blocking!Max(1..k)])
    BY ONLY <1>3, <2>1, Zenon
  <2>. QED
    BY ONLY <2>2, <2>3, <2>4, <2>5, Zenon
<1>. QED
  BY <1>4, <1>5 DEF FirstParts, f

\* The fields of a form, one after the other.
Field(ps, i) == <<<<"head", i>>>> \o ps[i].data \o <<Blocking!CRLF>>

Fields(ps) == [i \in DOMAIN ps |-> Field(ps, i)]

\* The first k fields.
FirstFields(ps, k) == IF k = 0 THEN <<>> ELSE Flat(Fields(ps))[k]

LEMMA TokensOfForm ==
  ASSUME NEW i \in Nat
  PROVE  /\ <<"head", i>> \in Tokens /\ <<"end", i>> \in Tokens /\ Blocking!CRLF \in Tokens
         /\ <<"size", i>> \in Tokens /\ Blocking!Zero \in Tokens
         /\ <<<<"head", i>>>> \in Seq(Tokens) /\ <<<<"end", i>>>> \in Seq(Tokens)
         /\ <<Blocking!CRLF>> \in Seq(Tokens)
<1>1. /\ <<"head", i>> \in Tokens /\ <<"end", i>> \in Tokens /\ Blocking!CRLF \in Tokens
      /\ <<"size", i>> \in Tokens /\ Blocking!Zero \in Tokens
  BY DEF Tokens, Blocking!CRLF, Blocking!Zero
<1>2. \A x \in Tokens : <<x>> \in Seq(Tokens)
  <2>. HIDE DEF Tokens
  <2>. QED
    OBVIOUS
<1>. QED
  BY <1>1, <1>2, Zenon

LEMMA FieldType ==
  ASSUME NEW ps \in Seq(SyncParts), NEW k \in 1..Len(ps)
  PROVE  /\ ps[k] \in SyncParts /\ ps[k].data \in Seq(Tokens)
         /\ Field(ps, k) \in Seq(Tokens)
<1>1. ps[k] \in SyncParts
  BY ElementOfSeq
<1>2. ps[k].data \in Seq(Tokens)
  BY <1>1 DEF SyncParts
<1>3. k \in Nat
  BY LenProperties
<1>4. <<<<"head", k>>>> \in Seq(Tokens) /\ <<Blocking!CRLF>> \in Seq(Tokens)
  BY <1>3, TokensOfForm
<1>5. <<<<"head", k>>>> \o ps[k].data \in Seq(Tokens)
  BY ONLY <1>2, <1>4, ConcatProperties
<1>6. (<<<<"head", k>>>> \o ps[k].data) \o <<Blocking!CRLF>> \in Seq(Tokens)
  BY ONLY <1>4, <1>5, ConcatProperties
<1>. QED
  BY <1>1, <1>2, <1>6 DEF Field

LEMMA FieldsType ==
  ASSUME NEW ps \in Seq(SyncParts)
  PROVE  Fields(ps) \in Seq(Seq(Tokens)) /\ Len(Fields(ps)) = Len(ps)
<1>. DEFINE B == Seq(Tokens)
<1>1. Len(ps) \in Nat /\ DOMAIN ps = 1..Len(ps)
  BY LenProperties
<1>2. \A k \in 1..Len(ps) : Field(ps, k) \in B
  BY FieldType
<1>. HIDE DEF B
<1>3. Fields(ps) \in [1..Len(ps) -> B]
  BY <1>1, <1>2 DEF Fields
<1>4. Fields(ps) \in Seq(B) /\ Len(Fields(ps)) = Len(ps)
  BY <1>1, <1>3
<1>. QED
  BY <1>4 DEF B

LEMMA FieldSteps ==
  ASSUME NEW ps \in Seq(SyncParts)
  PROVE  /\ FirstFields(ps, 0) = <<>>
         /\ \A k \in 1..Len(ps) : FirstFields(ps, k) = FirstFields(ps, k - 1) \o Field(ps, k)
         /\ Joined(Fields(ps)) = FirstFields(ps, Len(ps))
<1>0. Len(ps) \in Nat /\ DOMAIN ps = 1..Len(ps)
  BY LenProperties
<1>1. /\ Fields(ps) \in Seq(Seq(Tokens)) /\ Len(Fields(ps)) = Len(ps)
  BY FieldsType
<1>2. FirstFields(ps, 0) = <<>>
  BY DEF FirstFields
<1>3. ASSUME NEW k \in 1..Len(ps)
      PROVE  FirstFields(ps, k) = FirstFields(ps, k - 1) \o Field(ps, k)
  <2>1. Fields(ps)[k] = Field(ps, k) /\ k # 0 /\ k \in 1..Len(Fields(ps))
    BY <1>0, <1>1 DEF Fields
  <2>2. Flat(Fields(ps))[k] =
          IF k = 1 THEN Fields(ps)[k] ELSE Flat(Fields(ps))[k - 1] \o Fields(ps)[k]
    BY <1>1, <2>1, FlatUnfold
  <2>3. k = 1 => k - 1 = 0 /\ <<>> \o Field(ps, k) = Field(ps, k)
    BY FieldType, ConcatEmptySeq
  <2>4. k # 1 => k - 1 # 0
    BY <1>0
  <2>. QED
    BY <2>1, <2>2, <2>3, <2>4, Zenon DEF FirstFields
<1>4. Joined(Fields(ps)) = FirstFields(ps, Len(ps))
  <2>1. Joined(Fields(ps)) =
          IF Len(ps) = 0 THEN Fields(ps) ELSE Flat(Fields(ps))[Len(ps)]
    BY <1>1, FlatUnfold, Zenon DEF Joined
  <2>2. Len(ps) = 0 => Fields(ps) = <<>>
    <3>. DEFINE B == Seq(Tokens)
    <3>1. Fields(ps) \in Seq(B)
      BY <1>1
    <3>. HIDE DEF B
    <3>. QED
      BY <1>1, <3>1
  <2>. QED
    BY <2>1, <2>2, Zenon DEF FirstFields
<1>. QED
  BY <1>2, <1>3, <1>4

MadeSoFar == [out: Seq(SyncParts), text: Seq(Tokens)]

MadeOfForm(ps, k) ==
  /\ FirstParts(ps, k) \in MadeSoFar
  /\ Blocking!Contents(FirstParts(ps, k).out) \o FirstParts(ps, k).text = FirstFields(ps, k)

\* A field of a form is made into parts and text.
LEMMA AddField ==
  ASSUME NEW ps \in Seq(SyncParts), NEW k \in 1..Len(ps), NEW acc \in MadeSoFar
  PROVE  /\ AddPart(ps, acc, k) \in MadeSoFar
         /\ Blocking!Contents(AddPart(ps, acc, k).out) \o AddPart(ps, acc, k).text
              = (Blocking!Contents(acc.out) \o acc.text) \o Field(ps, k)
<1>. DEFINE out == acc.out
            text == acc.text
            h == <<"head", k>>
            c == <<Blocking!CRLF>>
            t == ps[k].data
            p == ps[k]
            d == Append(text, h)
            x == Blocking!Data(d)
            C(u) == Blocking!Contents(u)
            next == AddPart(ps, acc, k)
<1>0. /\ out \in Seq(SyncParts) /\ text \in Seq(Tokens)
      /\ \A v : [acc EXCEPT !.text = v] = [out |-> out, text |-> v]
  BY DEF MadeSoFar
<1>1. k \in Nat
  BY LenProperties
<1>2. /\ p \in SyncParts /\ t \in Seq(Tokens) /\ h \in Tokens /\ c \in Seq(Tokens)
      /\ <<h>> \in Seq(Tokens) /\ p.data = t
  BY <1>1, FieldType, TokensOfForm
<1>3. Field(ps, k) = (<<h>> \o t) \o c
  BY DEF Field
<1>4. next = IF p.stream THEN [out |-> out \o <<x, p>>, text |-> c]
                         ELSE [out |-> out, text |-> (d \o t) \o c]
  BY <1>0, Zenon DEF AddPart
<1>. HIDE DEF out, text, h, c, t, next, p
<1>5. d = text \o <<h>> /\ d \in Seq(Tokens)
  BY <1>0, <1>2, AppendIsConcat, AppendProperties
<1>6. x \in SyncParts /\ x.data = d
  BY <1>5 DEF Blocking!Data, SyncParts
<1>. HIDE DEF x, d, C, SyncParts
<1>7. C(out) \in Seq(Tokens)
  BY <1>0, ContentsType DEF C
<1>8. (C(out) \o text) \o Field(ps, k) = ((C(out) \o d) \o t) \o c
  <2>1. /\ <<h>> \o t \in Seq(Tokens) /\ C(out) \o text \in Seq(Tokens)
        /\ C(out) \o d \in Seq(Tokens)
    BY ONLY <1>2, <1>5, <1>7, <1>0, ConcatProperties
  <2>2. (C(out) \o text) \o ((<<h>> \o t) \o c) = ((C(out) \o text) \o (<<h>> \o t)) \o c
    <3>1. C(out) \o text \in Seq(Tokens) /\ <<h>> \o t \in Seq(Tokens) /\ c \in Seq(Tokens)
      BY <1>2, <2>1
    <3>. QED
      BY ONLY <3>1, Associates
  <2>3. (C(out) \o text) \o (<<h>> \o t) = ((C(out) \o text) \o <<h>>) \o t
    <3>1. C(out) \o text \in Seq(Tokens) /\ <<h>> \in Seq(Tokens) /\ t \in Seq(Tokens)
      BY <1>2, <2>1
    <3>. QED
      BY ONLY <3>1, Associates
  <2>4. (C(out) \o text) \o <<h>> = C(out) \o d
    <3>1. C(out) \in Seq(Tokens) /\ text \in Seq(Tokens) /\ <<h>> \in Seq(Tokens)
      BY <1>0, <1>2, <1>7
    <3>2. (C(out) \o text) \o <<h>> = C(out) \o (text \o <<h>>)
      BY ONLY <3>1, Associates
    <3>. QED
      BY ONLY <1>5, <3>2
  <2>. QED
    BY <1>3, <2>2, <2>3, <2>4, Zenon
<1>9. CASE p.stream
  <2>. DEFINE some == Append(out, x)
              all == Append(some, p)
  <2>1. out \o <<x, p>> = all
    <3>1. out \in Seq(SyncParts) /\ x \in SyncParts /\ p \in SyncParts
      BY <1>0, <1>2, <1>6
    <3>. QED
      BY <3>1
  <2>2. some \in Seq(SyncParts) /\ all \in Seq(SyncParts)
    <3>1. some \in Seq(SyncParts)
      BY <1>0, <1>6, AppendProperties
    <3>. HIDE DEF some
    <3>. QED
      BY <1>2, <3>1, AppendProperties
  <2>3. C(some) = C(out) \o d
    BY <1>0, <1>6, ContentsAppend, Zenon DEF C
  <2>. HIDE DEF some
  <2>4. C(all) = C(some) \o t
    BY <1>2, <2>2, ContentsAppend, Zenon DEF C
  <2>5. next.out = all /\ next.text = c
    BY <1>4, <1>9, <2>1
  <2>6. C(next.out) \o next.text = (C(out) \o text) \o Field(ps, k)
    BY <1>8, <2>3, <2>4, <2>5, Zenon
  <2>7. next \in MadeSoFar
    BY <1>2, <1>4, <1>9, <2>1, <2>2 DEF MadeSoFar
  <2>. QED
    BY <2>6, <2>7 DEF next, C, out, text
<1>10. CASE ~p.stream
  <2>1. next.out = out /\ next.text = (d \o t) \o c
    BY <1>4, <1>10
  <2>2. d \o t \in Seq(Tokens) /\ (d \o t) \o c \in Seq(Tokens)
    BY <1>2, <1>5, ConcatProperties
  <2>3. C(out) \o ((d \o t) \o c) = (C(out) \o (d \o t)) \o c
    <3>1. C(out) \in Seq(Tokens) /\ d \o t \in Seq(Tokens) /\ c \in Seq(Tokens)
      BY <1>2, <1>7, <2>2
    <3>. QED
      BY ONLY <3>1, Associates
  <2>4. C(out) \o (d \o t) = (C(out) \o d) \o t
    <3>1. C(out) \in Seq(Tokens) /\ d \in Seq(Tokens) /\ t \in Seq(Tokens)
      BY <1>2, <1>5, <1>7
    <3>. QED
      BY ONLY <3>1, Associates
  <2>5. C(next.out) \o next.text = (C(out) \o text) \o Field(ps, k)
    BY <1>8, <2>1, <2>3, <2>4, Zenon
  <2>6. next \in MadeSoFar
    BY <1>0, <1>4, <1>10, <2>2 DEF MadeSoFar
  <2>. QED
    BY <2>5, <2>6 DEF next, C, out, text
<1>. QED
  BY <1>9, <1>10

LEMMA FormSteps ==
  ASSUME NEW ps \in Seq(SyncParts)
  PROVE  MadeOfForm(ps, Len(ps))
<1>. DEFINE Bad == {k \in Nat : k <= Len(ps) /\ ~MadeOfForm(ps, k)}
<1>0. Len(ps) \in Nat
  BY LenProperties
<1>1. SUFFICES ASSUME Bad # {} PROVE FALSE
  BY <1>0
<1>2. PICK m \in Bad : \A k \in Bad : m <= k
  <2>1. Bad \subseteq Nat
    OBVIOUS
  <2>. QED
    BY <1>1, <2>1, LeastExists
<1>3. m \in Nat /\ m <= Len(ps) /\ ~MadeOfForm(ps, m)
  BY <1>2
<1>4. m # 0
  <2>1. <<>> \in Seq(SyncParts) /\ <<>> \in Seq(Tokens)
    BY EmptySeq
  <2>2. <<>> \o <<>> = <<>>
    BY <2>1, ConcatEmptySeq
  <2>3. FirstParts(ps, 0) = [out |-> <<>>, text |-> <<>>]
    BY FoldSteps, Zenon DEF NoParts
  <2>4. FirstParts(ps, 0) \in MadeSoFar
    <3>1. \A a \in Seq(SyncParts) : \A b \in Seq(Tokens) : [out |-> a, text |-> b] \in MadeSoFar
      BY DEF MadeSoFar
    <3>. QED
      BY <2>1, <2>3, <3>1, Zenon
  <2>5. FirstParts(ps, 0).out = <<>> /\ FirstParts(ps, 0).text = <<>>
    BY <2>3
  <2>6. MadeOfForm(ps, 0)
    BY <2>2, <2>4, <2>5, FieldSteps, ContentsNone, Zenon DEF MadeOfForm
  <2>. QED
    BY <1>3, <2>6
<1>5. m \in 1..Len(ps) /\ m - 1 \in Nat /\ m - 1 <= Len(ps) /\ m - 1 \notin Bad
  BY <1>0, <1>2, <1>3, <1>4
<1>6. MadeOfForm(ps, m - 1)
  BY <1>5
<1>. DEFINE acc == FirstParts(ps, m - 1)
            next == AddPart(ps, acc, m)
<1>8. /\ acc \in MadeSoFar
      /\ Blocking!Contents(acc.out) \o acc.text = FirstFields(ps, m - 1)
  BY <1>6 DEF MadeOfForm
<1>. HIDE DEF acc
<1>9. /\ next \in MadeSoFar
      /\ Blocking!Contents(next.out) \o next.text
           = (Blocking!Contents(acc.out) \o acc.text) \o Field(ps, m)
  BY <1>5, <1>8, AddField
<1>10. FirstParts(ps, m) = next
  BY <1>5, FoldSteps, Zenon DEF acc
<1>11. FirstFields(ps, m) = FirstFields(ps, m - 1) \o Field(ps, m)
  BY <1>5, FieldSteps, Zenon
<1>. HIDE DEF next
<1>12. MadeOfForm(ps, m)
  BY <1>8, <1>9, <1>10, <1>11, Zenon DEF MadeOfForm
<1>. QED
  BY <1>3, <1>12

LEMMA FormIsMeant ==
  ASSUME NEW b, b.kind = "multipart", b.parts \in Seq(SyncParts)
  PROVE  /\ Blocking!GenerateMultipart(b.parts) \in Seq(SyncParts)
         /\ Blocking!Contents(Blocking!GenerateMultipart(b.parts)) = Blocking!Meant(b)
         /\ Blocking!Meant(b) \in Seq(Tokens)
<1>. DEFINE ps == b.parts
            acc == FirstParts(ps, Len(ps))
            e == <<"end", 0>>
            whole == Append(acc.text, e)
            x == Blocking!Data(whole)
            all == Append(acc.out, x)
            C(u) == Blocking!Contents(u)
<1>1. Blocking!GenerateMultipart(ps) = all
  <2>1. DOMAIN Indices(ps) = 1..Len(ps)
    BY DEF Indices
  <2>. QED
    BY <2>1, FormIsFolded, Zenon DEF FirstParts
<1>2. Blocking!Meant(b) = FirstFields(ps, Len(ps)) \o <<e>>
  <2>1. Blocking!Meant(b) = Joined(Fields(ps)) \o <<e>>
    BY Zenon DEF Blocking!Meant, Joined, Fields, Field
  <2>. QED
    BY <2>1, FieldSteps, Zenon
<1>3. /\ acc.out \in Seq(SyncParts) /\ acc.text \in Seq(Tokens)
      /\ C(acc.out) \o acc.text = FirstFields(ps, Len(ps))
  BY FormSteps DEF MadeOfForm, MadeSoFar
<1>4. e \in Tokens /\ <<e>> \in Seq(Tokens)
  BY TokensOfForm
<1>. HIDE DEF acc, e
<1>5. whole = acc.text \o <<e>> /\ whole \in Seq(Tokens)
  BY <1>3, <1>4, AppendIsConcat, AppendProperties
<1>6. x \in SyncParts /\ x.data = whole
  BY <1>5 DEF Blocking!Data, SyncParts
<1>. HIDE DEF x, whole, C
<1>7. all \in Seq(SyncParts) /\ C(all) = C(acc.out) \o whole
  BY <1>3, <1>6, AppendProperties, ContentsAppend DEF C
<1>8. C(acc.out) \in Seq(Tokens)
  BY <1>3, ContentsType DEF C
<1>9. (C(acc.out) \o acc.text) \o <<e>> = C(acc.out) \o (acc.text \o <<e>>)
  BY ONLY <1>3, <1>4, <1>8, Associates
<1>10. C(all) = Blocking!Meant(b)
  BY <1>2, <1>3, <1>5, <1>7, <1>9, Zenon
<1>11. C(all) \in Seq(Tokens)
  BY <1>7, ContentsType DEF C
<1>. QED
  BY <1>1, <1>7, <1>10, <1>11, Zenon DEF C

-----------------------------------------------------------------------------
(* The pieces a long body is cut into.                                     *)

LEMMA MinOfTwo ==
  ASSUME NEW i \in Int, NEW j \in Int
  PROVE  Blocking!Min({i, j}) = IF i <= j THEN i ELSE j
<1>. DEFINE m == IF i <= j THEN i ELSE j
<1>1. m \in {i, j} /\ \A y \in {i, j} : m <= y
  OBVIOUS
<1>2. \A x \in {i, j} : (\A y \in {i, j} : x <= y) => x = m
  OBVIOUS
<1>. HIDE DEF m
<1>3. Blocking!Min({i, j}) = m
  BY <1>1, <1>2 DEF Blocking!Min
<1>. QED
  BY <1>3 DEF m

LEMMA Rounded ==
  ASSUME NEW n \in Nat, NEW u \in Nat \ {0}
  PROVE  /\ (n + u - 1) \div u \in Nat
         /\ ((n + u - 1) \div u) * u >= n
<1>. DEFINE q == (n + u - 1) \div u
            r == (n + u - 1) % u
<1>1. /\ n + u - 1 \in Nat /\ u > 0 /\ u \in Nat
  OBVIOUS
<1>2. n + u - 1 = u * q + r /\ r \in 0..(u - 1) /\ q \in Int
  BY <1>1
<1>. HIDE DEF q, r
<1>3. u * q >= n
  BY <1>1, <1>2
<1>4. q >= 0
  BY <1>1, <1>2, <1>3
<1>5. q * u = u * q
  BY <1>1, <1>2
<1>. QED
  BY <1>2, <1>3, <1>4, <1>5 DEF q

LEMMA Multiples ==
  ASSUME NEW u \in Nat \ {0}, NEW k \in Nat
  PROVE  /\ k * u \in Nat /\ (k = 0 => k * u = 0)
         /\ k # 0 => k * u = (k - 1) * u + u /\ (k - 1) * u \in Nat
  OBVIOUS

LEMMA PiecesAreTheBody ==
  ASSUME NEW s \in Seq(Tokens), U32Max \in Nat \ {0}
  PROVE  /\ Blocking!Pieces(s) \in Seq(SyncParts)
         /\ Blocking!Contents(Blocking!Pieces(s)) = s
<1>. DEFINE L == Len(s)
            U == U32Max
            n == (L + U - 1) \div U
            M(k) == k * U
            Edge(k) == IF M(k) <= L THEN M(k) ELSE L
            Piece(k) == Blocking!Data(SubSeq(s, M(k - 1) + 1, Edge(k)))
            ps == Blocking!Pieces(s)
            From(k) == SubSeq(ps, 1, k)
<1>1. L \in Nat /\ n \in Nat /\ M(n) >= L
  BY LenProperties, Rounded
<1>2. /\ \A k \in Nat : M(k) \in Nat /\ (k = 0 => M(k) = 0)
      /\ \A k \in Nat : k # 0 => M(k) = M(k - 1) + U /\ M(k - 1) \in Nat
  BY Multiples
<1>3. ps = [k \in 1..n |-> Piece(k)]
  <2>1. \A k \in 1..n : Blocking!Min({k * U, L}) = Edge(k)
    <3>. TAKE k \in 1..n
    <3>1. k * U \in Int /\ L \in Int
      BY <1>1
    <3>. QED
      BY <3>1, MinOfTwo
  <2>2. ps = [k \in 1..n |->
                Blocking!Data(SubSeq(s, (k - 1) * U + 1, Blocking!Min({k * U, L})))]
    BY Zenon DEF Blocking!Pieces
  <2>. QED
    BY <2>1, <2>2, Zenon
<1>. HIDE DEF n, M, U
<1>4. \A k \in Nat : Edge(k) \in 0..L
  BY <1>1, <1>2
<1>5. ASSUME NEW k \in 1..n
      PROVE  /\ SubSeq(s, M(k - 1) + 1, Edge(k)) \in Seq(Tokens)
             /\ Piece(k) \in SyncParts /\ Piece(k).data = SubSeq(s, M(k - 1) + 1, Edge(k))
  <2>. HIDE DEF Edge
  <2>1. M(k - 1) \in Nat /\ Edge(k) \in 0..L
    <3>1. k \in Nat /\ k # 0
      BY <1>1
    <3>. QED
      BY <1>2, <1>4, <3>1
  <2>2. \A i \in (M(k - 1) + 1)..Edge(k) : s[i] \in Tokens
    <3>1. \A i \in 1..L : s[i] \in Tokens
      BY ElementOfSeq
    <3>. QED
      BY <1>1, <2>1, <3>1
  <2>3. M(k - 1) + 1 \in Int /\ Edge(k) \in Int
    BY <2>1
  <2>4. SubSeq(s, M(k - 1) + 1, Edge(k)) \in Seq(Tokens)
    BY <2>2, <2>3, SubSeqProperties
  <2>. QED
    BY <2>4 DEF Blocking!Data, SyncParts
<1>6. ps \in Seq(SyncParts) /\ Len(ps) = n
  <2>. HIDE DEF Piece
  <2>1. ps \in [1..n -> SyncParts]
    BY <1>3, <1>5
  <2>. HIDE DEF ps
  <2>. QED
    BY <1>1, <2>1
<1>7. \A k \in 1..n : ps[k] = Piece(k)
  <2>. HIDE DEF Piece, ps
  <2>. QED
    BY <1>3
<1>. HIDE DEF ps, Piece
<1>8. \A k \in 0..n : Blocking!Contents(From(k)) = SubSeq(s, 1, Edge(k))
  <2>. DEFINE Bad == {k \in Nat : k \in 0..n
                                    /\ Blocking!Contents(From(k)) # SubSeq(s, 1, Edge(k))}
  <2>1. SUFFICES ASSUME Bad # {} PROVE FALSE
    BY <1>1
  <2>. HIDE DEF From, Edge
  <2>2. PICK m \in Bad : \A k \in Bad : m <= k
    <3>1. Bad \subseteq Nat
      OBVIOUS
    <3>. QED
      BY <2>1, <3>1, LeastExists
  <2>3. m # 0
    <3>1. Edge(0) = 0
      BY <1>1, <1>2 DEF Edge
    <3>2. From(0) = <<>> /\ SubSeq(s, 1, 0) = <<>>
      BY SubSeqEmpty DEF From
    <3>. QED
      BY <2>2, <3>1, <3>2, ContentsNone
  <2>4. m \in 1..n /\ m - 1 \in 0..n /\ m - 1 \in Nat /\ m - 1 \notin Bad /\ m \in Nat
    BY <1>1, <2>2, <2>3
  <2>5. Blocking!Contents(From(m - 1)) = SubSeq(s, 1, Edge(m - 1))
    BY <2>4
  <2>6. From(m) = Append(From(m - 1), Piece(m)) /\ From(m - 1) \in Seq(SyncParts)
    <3>1. m \in 1..Len(ps) /\ m - 1 <= Len(ps) /\ 1 \in 1..Len(ps) /\ m \in 1..Len(ps)
      BY <1>1, <1>6, <2>4
    <3>2. SubSeq(ps, 1, m) = SubSeq(ps, 1, m - 1) \o <<ps[m]>>
      BY <1>6, <3>1, SubSeqRecursiveSecond
    <3>3. SubSeq(ps, 1, m - 1) \in Seq(SyncParts) /\ ps[m] \in SyncParts
      <4>1. \A i \in 1..(m - 1) : ps[i] \in SyncParts
        BY <1>6, <3>1, ElementOfSeq
      <4>2. m - 1 \in Int
        BY <2>4
      <4>. QED
        BY <1>6, <3>1, <4>1, <4>2, SubSeqProperties, ElementOfSeq
    <3>4. Append(SubSeq(ps, 1, m - 1), ps[m]) = SubSeq(ps, 1, m - 1) \o <<ps[m]>>
      BY <3>3, AppendIsConcat
    <3>. QED
      BY <1>7, <2>4, <3>2, <3>3, <3>4, Zenon DEF From
  <2>7. Blocking!Contents(From(m))
          = SubSeq(s, 1, Edge(m - 1)) \o SubSeq(s, M(m - 1) + 1, Edge(m))
    <3>1. Blocking!Contents(Append(From(m - 1), Piece(m)))
            = Blocking!Contents(From(m - 1)) \o Piece(m).data
      BY <1>5, <2>4, <2>6, ContentsAppend
    <3>. QED
      BY <1>5, <2>4, <2>5, <2>6, <3>1, Zenon
  <2>8. SubSeq(s, 1, Edge(m - 1)) \o SubSeq(s, M(m - 1) + 1, Edge(m)) = SubSeq(s, 1, Edge(m))
    <3>1. M(m) = M(m - 1) + U /\ M(m - 1) \in Nat /\ U \in Nat
      BY <1>2, <2>4 DEF U
    <3>2. CASE M(m - 1) <= L
      <4>1. Edge(m - 1) = M(m - 1) /\ Edge(m) \in M(m - 1)..L /\ M(m - 1) \in 0..L
        BY <1>1, <3>1, <3>2 DEF Edge
      <4>2. 1 \in 1..Len(s) + 1 /\ M(m - 1) \in (1 - 1)..Len(s) /\ Edge(m) \in M(m - 1)..Len(s)
        BY <1>1, <4>1
      <4>3. SubSeq(s, 1, M(m - 1)) \o SubSeq(s, M(m - 1) + 1, Edge(m)) = SubSeq(s, 1, Edge(m))
        BY <4>2, ConcatAdjacentSubSeq
      <4>. QED
        BY <4>1, <4>3
    <3>3. CASE M(m - 1) > L
      <4>1. Edge(m - 1) = L /\ Edge(m) = L
        BY <1>1, <3>1, <3>3 DEF Edge
      <4>2. SubSeq(s, M(m - 1) + 1, L) = <<>>
        BY <1>1, <3>1, <3>3, SubSeqEmpty
      <4>3. SubSeq(s, 1, L) = s /\ s \o <<>> = s
        BY SubSeqFull, ConcatEmptySeq
      <4>. QED
        BY <4>1, <4>2, <4>3, Zenon
    <3>4. M(m - 1) <= L \/ M(m - 1) > L
      BY <1>1, <3>1
    <3>. QED
      BY <3>2, <3>3, <3>4, Zenon
  <2>. QED
    BY <2>2, <2>7, <2>8
<1>9. From(n) = ps /\ Edge(n) = L /\ SubSeq(s, 1, L) = s
  BY <1>1, <1>2, <1>6, SubSeqFull
<1>10. Blocking!Contents(From(n)) = SubSeq(s, 1, Edge(n))
  BY <1>1, <1>8
<1>. QED
  BY <1>6, <1>9, <1>10, Zenon DEF ps

-----------------------------------------------------------------------------
(* How the server takes chunks apart.                                      *)

\* What is read at a place, given what is read from later ones on.
Reader(w, f, i) ==
  IF SubSeq(w, i, Len(w)) = Blocking!LastChunk THEN {<<>>}
  ELSE IF Blocking!ChunkAt(w, i)
    THEN {SubSeq(w, i + 2, i + w[i][2] + 1) \o rest : rest \in f[i + w[i][2] + 3]}
  ELSE {}

ReadsTo(w, a, f) == f = [i \in a..(Len(w) + 1) |-> Reader(w, f, i)]

Decoding(w) == CHOOSE f : ReadsTo(w, 1, f)

\* What is read from a place on depends on what is read from later ones only.
LEMMA ReaderLocal ==
  ASSUME NEW w \in Seq(Tokens), NEW i \in 1..(Len(w) + 1), NEW f, NEW g,
         \A j \in (i + 1)..(Len(w) + 1) : f[j] = g[j]
  PROVE  Reader(w, f, i) = Reader(w, g, i)
<1>1. Blocking!ChunkAt(w, i) => f[i + w[i][2] + 3] = g[i + w[i][2] + 3]
  <2>. HAVE Blocking!ChunkAt(w, i)
  <2>1. Len(w) \in Nat /\ i \in 1..Len(w) /\ i + w[i][2] + 2 <= Len(w)
    BY LenProperties DEF Blocking!ChunkAt
  <2>2. w[i][2] \in Nat
    BY <2>1, ElementOfSeq DEF Tokens
  <2>3. i + w[i][2] + 3 \in (i + 1)..(Len(w) + 1)
    BY <2>1, <2>2
  <2>. QED
    BY <2>3
<1>. QED
  BY <1>1, Zenon DEF Reader

LEMMA DecodingExists ==
  ASSUME NEW w \in Seq(Tokens)
  PROVE  \E f : ReadsTo(w, 1, f)
<1>. DEFINE L == Len(w)
            Bad == {k \in Nat : k <= L + 1 /\ ~\E f : ReadsTo(w, (L + 2) - k, f)}
<1>0. L \in Nat
  BY LenProperties
<1>1. SUFFICES ASSUME Bad # {} PROVE FALSE
  <2>1. L + 1 \in Nat /\ L + 1 <= L + 1 /\ (L + 2) - (L + 1) = 1
    BY <1>0
  <2>. QED
    BY <2>1
<1>2. PICK m \in Bad : \A k \in Bad : m <= k
  <2>1. Bad \subseteq Nat
    OBVIOUS
  <2>. QED
    BY <1>1, <2>1, LeastExists
<1>. DEFINE a == (L + 2) - m
<1>. HIDE DEF a
<1>3. m \in Nat /\ m <= L + 1 /\ ~(\E f : ReadsTo(w, a, f)) /\ a \in Int
  BY <1>0, <1>2 DEF a
<1>4. m # 0
  <2>. SUFFICES ASSUME m = 0 PROVE FALSE
    OBVIOUS
  <2>. DEFINE f == [i \in a..(L + 1) |-> {}]
  <2>1. a..(L + 1) = {}
    BY <1>0 DEF a
  <2>2. f = [i \in a..(L + 1) |-> Reader(w, f, i)]
    BY <2>1, Zenon
  <2>3. ReadsTo(w, a, f)
    BY <2>2 DEF ReadsTo
  <2>. QED
    BY <1>3, <2>3
<1>5. m - 1 \in Nat /\ m - 1 <= L + 1 /\ m - 1 \notin Bad /\ (L + 2) - (m - 1) = a + 1
      /\ a \in 1..(L + 1)
  BY <1>0, <1>2, <1>3, <1>4 DEF a
<1>6. PICK g : ReadsTo(w, a + 1, g)
  <2>1. \E g : ReadsTo(w, (L + 2) - (m - 1), g)
    BY <1>5
  <2>. QED
    BY <1>5, <2>1, Zenon
<1>. HIDE DEF L
<1>. DEFINE h == [i \in a..(L + 1) |-> IF i = a THEN Reader(w, g, a) ELSE g[i]]
<1>7. \A i \in (a + 1)..(L + 1) : g[i] = Reader(w, g, i)
  BY <1>6, Zenon DEF ReadsTo, L
<1>8. \A i \in (a + 1)..(L + 1) : i \in a..(L + 1) /\ i # a /\ h[i] = g[i]
  BY <1>0, <1>5
<1>9. h[a] = Reader(w, g, a)
  BY <1>0, <1>5
<1>10. ASSUME NEW i \in a..(L + 1) PROVE Reader(w, h, i) = Reader(w, g, i)
  <2>1. i \in 1..(Len(w) + 1)
    BY <1>0, <1>5 DEF L
  <2>2. \A j \in (i + 1)..(Len(w) + 1) : h[j] = g[j]
    <3>1. \A j \in (i + 1)..(Len(w) + 1) : j \in (a + 1)..(L + 1)
      BY <1>0, <1>5 DEF L
    <3>. HIDE DEF h
    <3>. QED
      BY <1>8, <3>1
  <2>. HIDE DEF h
  <2>. QED
    BY <2>1, <2>2, ReaderLocal
<1>11. \A i \in a..(L + 1) : h[i] = Reader(w, h, i)
  <2>. TAKE i \in a..(L + 1)
  <2>1. i = a \/ i \in (a + 1)..(L + 1)
    BY <1>0, <1>5
  <2>. HIDE DEF h
  <2>. QED
    BY <1>7, <1>8, <1>9, <1>10, <2>1, Zenon
<1>12. h = [i \in a..(L + 1) |-> h[i]]
  OBVIOUS
<1>13. ReadsTo(w, a, h)
  <2>. HIDE DEF h
  <2>1. h = [i \in a..(L + 1) |-> Reader(w, h, i)]
    BY <1>11, <1>12
  <2>. QED
    BY <2>1, Zenon DEF ReadsTo, L
<1>14. \E f : ReadsTo(w, a, f)
  <2>. HIDE DEF h
  <2>. QED
    BY <1>13
<1>. QED
  BY ONLY <1>3, <1>14, Zenon

LEMMA DecodingUnfold ==
  ASSUME NEW w \in Seq(Tokens)
  PROVE  /\ Blocking!Unchunked(w) = Decoding(w)[1]
         /\ \A i \in 1..(Len(w) + 1) : Decoding(w)[i] = Reader(w, Decoding(w), i)
<1>1. ReadsTo(w, 1, Decoding(w))
  BY DecodingExists, Zenon DEF Decoding
<1>2. Blocking!Unchunked(w) = Decoding(w)[1]
  BY Zenon DEF Blocking!Unchunked, Decoding, ReadsTo, Reader
<1>. QED
  BY <1>1, <1>2, Zenon DEF ReadsTo

LEMMA DecodingType ==
  ASSUME NEW w \in Seq(Tokens)
  PROVE  \A i \in 1..(Len(w) + 1) : Decoding(w)[i] \subseteq Seq(Tokens)
<1>. DEFINE L == Len(w)
            f == Decoding(w)
            Bad == {k \in Nat : k <= L /\ ~(f[L + 1 - k] \subseteq Seq(Tokens))}
<1>0. L \in Nat
  BY LenProperties
<1>1. SUFFICES ASSUME Bad # {} PROVE FALSE
  <2>1. ASSUME NEW i \in 1..(L + 1), ~(f[i] \subseteq Seq(Tokens)) PROVE Bad # {}
    <3>1. L + 1 - i \in Nat /\ L + 1 - i <= L /\ L + 1 - (L + 1 - i) = i
      BY <1>0
    <3>2. L + 1 - i \in Bad
      BY <2>1, <3>1
    <3>. QED
      BY <3>2
  <2>. QED
    BY <2>1
<1>2. PICK m \in Bad : \A k \in Bad : m <= k
  <2>1. Bad \subseteq Nat
    OBVIOUS
  <2>. QED
    BY <1>1, <2>1, LeastExists
<1>. DEFINE i == L + 1 - m
<1>. HIDE DEF i
<1>3. /\ i \in 1..(L + 1) /\ m \in Nat /\ i \in Nat /\ m = L + 1 - i
      /\ ~(f[i] \subseteq Seq(Tokens))
  BY <1>0, <1>2 DEF i
<1>4. \A j \in (i + 1)..(L + 1) : f[j] \subseteq Seq(Tokens)
  <2>. SUFFICES ASSUME NEW j \in (i + 1)..(L + 1), ~(f[j] \subseteq Seq(Tokens)) PROVE FALSE
    OBVIOUS
  <2>1. L + 1 - j \in Nat /\ L + 1 - j <= L /\ L + 1 - (L + 1 - j) = j /\ ~(m <= L + 1 - j)
    BY <1>0, <1>3
  <2>2. L + 1 - j \in Bad
    BY <2>1
  <2>. QED
    BY <1>2, <2>1, <2>2
<1>. HIDE DEF Bad
<1>5. f[i] = Reader(w, f, i)
  BY <1>3, DecodingUnfold
<1>6. <<>> \in Seq(Tokens)
  BY EmptySeq
<1>7. ASSUME Blocking!ChunkAt(w, i)
      PROVE  {SubSeq(w, i + 2, i + w[i][2] + 1) \o rest : rest \in f[i + w[i][2] + 3]}
               \subseteq Seq(Tokens)
  <2>. DEFINE n == w[i][2]
              t == SubSeq(w, i + 2, i + n + 1)
  <2>1. i \in 1..L /\ i + n + 2 <= L
    BY <1>0, <1>3, <1>7 DEF Blocking!ChunkAt
  <2>2. n \in Nat
    BY <2>1, ElementOfSeq DEF Tokens
  <2>. HIDE DEF n
  <2>3. i + n + 3 \in (i + 1)..(L + 1)
    BY <1>0, <2>1, <2>2
  <2>4. t \in Seq(Tokens)
    <3>1. \A j \in (i + 2)..(i + n + 1) : w[j] \in Tokens
      <4>1. \A j \in 1..L : w[j] \in Tokens
        BY ElementOfSeq
      <4>. QED
        BY <1>0, <2>1, <2>2, <4>1
    <3>2. i + 2 \in Int /\ i + n + 1 \in Int
      BY <2>1, <2>2
    <3>. QED
      BY <3>1, <3>2, SubSeqProperties
  <2>. HIDE DEF t
  <2>5. \A rest \in f[i + n + 3] : t \o rest \in Seq(Tokens)
    <3>1. \A rest \in f[i + n + 3] : rest \in Seq(Tokens)
      BY <1>4, <2>3
    <3>2. \A u \in Seq(Tokens) : t \o u \in Seq(Tokens)
      BY <2>4, ConcatProperties
    <3>. QED
      BY <3>1, <3>2, Zenon
  <2>. QED
    BY <2>5 DEF t, n
<1>8. Reader(w, f, i) \subseteq Seq(Tokens)
  BY <1>6, <1>7, Zenon DEF Reader
<1>. QED
  BY <1>3, <1>5, <1>8

\* What is read of the end of a list does not depend on what comes before it.
LEMMA DecodingShift ==
  ASSUME NEW p \in Seq(Tokens), NEW r \in Seq(Tokens)
  PROVE  Decoding(p \o r)[Len(p) + 1] = Blocking!Unchunked(r)
<1>. DEFINE w == p \o r
            P == Len(p)
            L == Len(r)
            f == Decoding(w)
            g == Decoding(r)
            Bad == {k \in Nat : k <= L /\ f[P + (L + 1 - k)] # g[L + 1 - k]}
<1>0. /\ P \in Nat /\ L \in Nat /\ w \in Seq(Tokens) /\ Len(w) = P + L
      /\ \A j \in 1..L : w[P + j] = r[j] /\ r[j] \in Tokens
  <2>1. /\ w \in Seq(Tokens) /\ Len(w) = P + L
        /\ \A i \in 1..(P + L) : w[i] = IF i <= P THEN p[i] ELSE r[i - P]
    BY ConcatProperties
  <2>2. P \in Nat /\ L \in Nat
    BY LenProperties
  <2>. HIDE DEF w
  <2>3. \A j \in 1..L : P + j \in 1..(P + L) /\ ~(P + j <= P) /\ (P + j) - P = j
    BY <2>2
  <2>4. \A j \in 1..L : r[j] \in Tokens
    BY ElementOfSeq
  <2>. QED
    BY <2>1, <2>2, <2>3, <2>4
<1>. HIDE DEF w
<1>1. SUFFICES ASSUME Bad # {} PROVE FALSE
  <2>1. L \in Nat /\ L + 1 - L = 1 /\ L \notin Bad => f[P + 1] = g[1]
    OBVIOUS
  <2>2. Blocking!Unchunked(r) = g[1]
    BY DecodingUnfold
  <2>. QED
    BY <1>0, <2>1, <2>2 DEF w
<1>2. PICK m \in Bad : \A k \in Bad : m <= k
  <2>1. Bad \subseteq Nat
    OBVIOUS
  <2>. QED
    BY <1>1, <2>1, LeastExists
<1>. DEFINE i == L + 1 - m
<1>. HIDE DEF i
<1>3. /\ i \in 1..(L + 1) /\ m \in Nat /\ i \in Nat /\ m = L + 1 - i /\ f[P + i] # g[i]
  BY <1>0, <1>2 DEF i
<1>4. \A j \in (i + 1)..(L + 1) : f[P + j] = g[j]
  <2>. SUFFICES ASSUME NEW j \in (i + 1)..(L + 1), f[P + j] # g[j] PROVE FALSE
    OBVIOUS
  <2>1. L + 1 - j \in Nat /\ L + 1 - j <= L /\ L + 1 - (L + 1 - j) = j /\ ~(m <= L + 1 - j)
    BY <1>0, <1>3
  <2>2. L + 1 - j \in Bad
    BY <2>1
  <2>. QED
    BY <1>2, <2>1, <2>2
<1>. HIDE DEF Bad
<1>5. /\ P + i \in 1..(Len(w) + 1)
      /\ f[P + i] = Reader(w, f, P + i) /\ g[i] = Reader(r, g, i)
  <2>1. P + i \in 1..(Len(w) + 1)
    BY <1>0, <1>3
  <2>. QED
    BY <1>0, <1>3, <2>1, DecodingUnfold
<1>6. \A a \in 1..(L + 1) : \A b \in 0..L :
        SubSeq(w, P + a, P + b) = SubSeq(r, a, b) /\ SubSeq(r, a, b) \in Seq(Tokens)
  <2>. TAKE a \in 1..(L + 1)
  <2>. TAKE b \in 0..L
  <2>. DEFINE s == SubSeq(w, P + a, P + b)
              t == SubSeq(r, a, b)
  <2>1. \A k \in a..b : r[k] \in Tokens
    BY <1>0
  <2>2. \A k \in (P + a)..(P + b) : w[k] \in Tokens
    <3>1. \A k \in 1..Len(w) : w[k] \in Tokens
      BY <1>0, ElementOfSeq
    <3>. QED
      BY <1>0, <3>1
  <2>3. P + a \in Int /\ P + b \in Int /\ a \in Int /\ b \in Int
    BY <1>0
  <2>4. /\ s \in Seq(Tokens) /\ Len(s) = IF P + a <= P + b THEN (P + b) - (P + a) + 1 ELSE 0
        /\ \A k \in 1..((P + b) - (P + a) + 1) : s[k] = w[(P + a) + k - 1]
    BY <2>2, <2>3, SubSeqProperties
  <2>5. /\ t \in Seq(Tokens) /\ Len(t) = IF a <= b THEN b - a + 1 ELSE 0
        /\ \A k \in 1..(b - a + 1) : t[k] = r[a + k - 1]
    BY <2>1, <2>3, SubSeqProperties
  <2>. HIDE DEF s, t
  <2>6. Len(s) = Len(t) /\ (P + b) - (P + a) + 1 = b - a + 1
    BY <1>0, <2>4, <2>5
  <2>7. \A k \in 1..Len(s) : s[k] = t[k]
    <3>. TAKE k \in 1..Len(s)
    <3>1. a + k - 1 \in 1..L /\ (P + a) + k - 1 = P + (a + k - 1) /\ k \in 1..(b - a + 1)
      BY <1>0, <2>4, <2>5, <2>6
    <3>2. s[k] = w[P + (a + k - 1)] /\ t[k] = r[a + k - 1]
      BY <2>4, <2>5, <2>6, <3>1
    <3>. QED
      BY <1>0, <3>1, <3>2
  <2>8. s = t
    BY <2>4, <2>5, <2>6, <2>7, SeqEqual
  <2>. QED
    BY <2>5, <2>8 DEF s, t
<1>7. SubSeq(w, P + i, Len(w)) = SubSeq(r, i, L)
  <2>1. L \in 0..L /\ Len(w) = P + L
    BY <1>0
  <2>. QED
    BY <1>3, <1>6, <2>1
<1>8. Blocking!ChunkAt(w, P + i) <=> Blocking!ChunkAt(r, i)
  <2>1. CASE i = L + 1
    BY <1>0, <2>1 DEF Blocking!ChunkAt
  <2>2. CASE i # L + 1
    <3>1. i \in 1..L /\ P + i <= Len(w) /\ w[P + i] = r[i]
      BY <1>0, <1>3, <2>2
    <3>. DEFINE n == r[i][2]
    <3>2. n \in Nat
      BY <1>0, <3>1 DEF Tokens
    <3>. HIDE DEF n
    <3>3. /\ (P + i) + n + 2 <= Len(w) <=> i + n + 2 <= L
          /\ (P + i) + 1 = P + (i + 1) /\ (P + i) + n + 2 = P + (i + n + 2)
      BY <1>0, <3>1, <3>2
    <3>4. i + n + 2 <= L => /\ w[(P + i) + 1] = r[i + 1]
                            /\ w[(P + i) + n + 2] = r[i + n + 2]
      <4>1. i + n + 2 <= L => i + 1 \in 1..L /\ i + n + 2 \in 1..L
        BY <1>0, <3>1, <3>2
      <4>. QED
        BY <1>0, <3>3, <4>1
    <3>5. i <= L
      BY <3>1
    <3>. QED
      BY <3>1, <3>3, <3>4, <3>5, Zenon DEF Blocking!ChunkAt, n, L
  <2>. QED
    BY <2>1, <2>2
<1>9. ASSUME Blocking!ChunkAt(r, i)
      PROVE  /\ SubSeq(w, (P + i) + 2, (P + i) + w[P + i][2] + 1)
                  = SubSeq(r, i + 2, i + r[i][2] + 1)
             /\ f[(P + i) + w[P + i][2] + 3] = g[i + r[i][2] + 3]
  <2>1. i \in 1..L /\ i + r[i][2] + 2 <= L /\ w[P + i] = r[i]
    BY <1>0, <1>3, <1>9 DEF Blocking!ChunkAt
  <2>. DEFINE n == r[i][2]
  <2>2. n \in Nat
    BY <1>0, <2>1 DEF Tokens
  <2>3. i + n + 2 <= L
    BY <2>1
  <2>. HIDE DEF n
  <2>4. /\ (P + i) + 2 = P + (i + 2) /\ (P + i) + n + 1 = P + (i + n + 1)
        /\ (P + i) + n + 3 = P + (i + n + 3)
        /\ i + 2 \in 1..(L + 1) /\ i + n + 1 \in 0..L /\ i + n + 3 \in (i + 1)..(L + 1)
    BY <1>0, <2>1, <2>2, <2>3
  <2>5. /\ SubSeq(w, (P + i) + 2, (P + i) + n + 1) = SubSeq(r, i + 2, i + n + 1)
        /\ f[(P + i) + n + 3] = g[i + n + 3]
    <3>1. SubSeq(w, P + (i + 2), P + (i + n + 1)) = SubSeq(r, i + 2, i + n + 1)
      BY <1>6, <2>4
    <3>2. f[P + (i + n + 3)] = g[i + n + 3]
      BY <1>4, <2>4
    <3>. QED
      BY <2>4, <3>1, <3>2, Zenon
  <2>. QED
    BY <2>1, <2>5 DEF n
<1>10. Reader(w, f, P + i) = Reader(r, g, i)
  BY <1>7, <1>8, <1>9, Zenon DEF Reader, L
<1>. QED
  BY <1>3, <1>5, <1>10

\* A chunk: its size and its tokens between line ends.
Chunk(t) == (<<<<"size", Len(t)>>, Blocking!CRLF>> \o t) \o <<Blocking!CRLF>>

LEMMA ChunkType ==
  ASSUME NEW t \in Seq(Tokens)
  PROVE  /\ Chunk(t) \in Seq(Tokens) /\ Len(Chunk(t)) = Len(t) + 3
         /\ Chunk(t)[1] = <<"size", Len(t)>> /\ Chunk(t)[2] = Blocking!CRLF
         /\ Chunk(t)[Len(t) + 3] = Blocking!CRLF
         /\ \A k \in 1..Len(t) : Chunk(t)[k + 2] = t[k]
<1>. DEFINE n == Len(t)
            z == <<"size", n>>
            c == Blocking!CRLF
            a == <<z, c>>
            b == <<c>>
            u == a \o t
            v == u \o b
<1>1. n \in Nat
  BY LenProperties
<1>2. z \in Tokens /\ c \in Tokens
  BY <1>1, TokensOfForm
<1>. HIDE DEF z, c, n
<1>3. /\ a \in Seq(Tokens) /\ Len(a) = 2 /\ a[1] = z /\ a[2] = c
      /\ b \in Seq(Tokens) /\ Len(b) = 1 /\ b[1] = c
  BY <1>2
<1>. HIDE DEF a, b
<1>4. /\ u \in Seq(Tokens) /\ Len(u) = Len(a) + Len(t)
      /\ \A i \in 1..(Len(a) + Len(t)) : u[i] = IF i <= Len(a) THEN a[i] ELSE t[i - Len(a)]
  BY <1>3, ConcatProperties
<1>. HIDE DEF u
<1>5. /\ v \in Seq(Tokens) /\ Len(v) = Len(u) + Len(b)
      /\ \A i \in 1..(Len(u) + Len(b)) : v[i] = IF i <= Len(u) THEN u[i] ELSE b[i - Len(u)]
  <2>1. u \in Seq(Tokens) /\ b \in Seq(Tokens)
    BY <1>3, <1>4
  <2>. QED
    BY ONLY <2>1, ConcatProperties
<1>. HIDE DEF v
<1>6. Len(t) = n
  BY DEF n
<1>7. Len(v) = n + 3 /\ v[1] = z /\ v[2] = c /\ v[n + 3] = c
  BY <1>1, <1>3, <1>4, <1>5, <1>6
<1>8. \A k \in 1..n : v[k + 2] = t[k]
  BY <1>1, <1>3, <1>4, <1>5, <1>6
<1>9. v = Chunk(t)
  BY Zenon DEF Chunk, v, u, a, b, z, c, n
<1>. QED
  BY <1>5, <1>6, <1>7, <1>8, <1>9 DEF z, c

\* A chunk is read as its tokens and what follows.
LEMMA ChunkIsRead ==
  ASSUME NEW t \in Seq(Tokens), t # <<>>, NEW r \in Seq(Tokens)
  PROVE  Blocking!Unchunked(Chunk(t) \o r) = {t \o rest : rest \in Blocking!Unchunked(r)}
<1>. DEFINE p == Chunk(t)
            w == p \o r
            n == Len(t)
            f == Decoding(w)
<1>1. n \in Nat /\ n > 0
  <2>1. n \in Nat /\ n # 0
    OBVIOUS
  <2>. QED
    BY <2>1
<1>2. /\ p \in Seq(Tokens) /\ Len(p) = n + 3
      /\ p[1] = <<"size", n>> /\ p[2] = Blocking!CRLF /\ p[n + 3] = Blocking!CRLF
      /\ \A k \in 1..n : p[k + 2] = t[k]
  BY ChunkType
<1>3. Len(r) \in Nat
  BY LenProperties
<1>. HIDE DEF p, n
<1>4. /\ w \in Seq(Tokens) /\ Len(w) = (n + 3) + Len(r)
      /\ \A i \in 1..(n + 3) : w[i] = p[i]
  <2>1. /\ w \in Seq(Tokens) /\ Len(w) = Len(p) + Len(r)
        /\ \A i \in 1..(Len(p) + Len(r)) : w[i] = IF i <= Len(p) THEN p[i] ELSE r[i - Len(p)]
    BY <1>2, ConcatProperties
  <2>. HIDE DEF w
  <2>. QED
    BY <1>1, <1>2, <1>3, <2>1
<1>5. f[n + 4] = Blocking!Unchunked(r)
  <2>1. f[Len(p) + 1] = Blocking!Unchunked(r)
    BY <1>2, DecodingShift
  <2>2. Len(p) + 1 = n + 4
    BY <1>1, <1>2
  <2>. QED
    BY <2>1, <2>2, Zenon
<1>. HIDE DEF w
<1>6. w[1] = <<"size", n>> /\ w[1][1] = "size" /\ w[1][2] = n
      /\ w[2] = Blocking!CRLF /\ w[n + 3] = Blocking!CRLF
  BY <1>1, <1>2, <1>4
<1>7. Blocking!ChunkAt(w, 1)
  <2>1. 1 <= Len(w) /\ 1 + n + 2 <= Len(w) /\ 1 + 1 = 2 /\ 1 + n + 2 = n + 3
    BY <1>1, <1>3, <1>4
  <2>. QED
    BY <1>1, <1>6, <2>1, Zenon DEF Blocking!ChunkAt
<1>8. SubSeq(w, 1, Len(w)) # Blocking!LastChunk
  <2>1. SubSeq(w, 1, Len(w)) = w
    BY <1>4, SubSeqFull
  <2>2. Blocking!LastChunk[1] = <<"size", 0>>
    BY DEF Blocking!LastChunk
  <2>3. w[1] # <<"size", 0>>
    BY <1>1, <1>6
  <2>. QED
    BY <2>1, <2>2, <2>3, Zenon
<1>9. SubSeq(w, 3, n + 2) = t
  <2>1. \A k \in 3..(n + 2) : w[k] \in Tokens
    <3>1. \A k \in 1..Len(w) : w[k] \in Tokens
      BY <1>4, ElementOfSeq
    <3>. QED
      BY <1>1, <1>3, <1>4, <3>1
  <2>. DEFINE s == SubSeq(w, 3, n + 2)
  <2>2. /\ s \in Seq(Tokens) /\ Len(s) = IF 3 <= n + 2 THEN (n + 2) - 3 + 1 ELSE 0
        /\ \A k \in 1..((n + 2) - 3 + 1) : s[k] = w[3 + k - 1]
    BY <1>1, <2>1, SubSeqProperties
  <2>. HIDE DEF s
  <2>3. Len(s) = n /\ (n + 2) - 3 + 1 = n
    BY <1>1, <2>2
  <2>4. \A k \in 1..n : s[k] = t[k]
    <3>. TAKE k \in 1..n
    <3>1. 3 + k - 1 = k + 2 /\ k + 2 \in 1..(n + 3) /\ k \in 1..((n + 2) - 3 + 1)
      BY <1>1, <2>3
    <3>2. w[k + 2] = p[k + 2] /\ p[k + 2] = t[k]
      BY <1>2, <1>4, <3>1
    <3>3. s[k] = w[3 + k - 1]
      BY <2>2, <3>1
    <3>. QED
      BY <3>1, <3>2, <3>3, Zenon
  <2>5. s = t
    BY <2>2, <2>3, <2>4, SeqEqual DEF n
  <2>. QED
    BY <2>5 DEF s
<1>10. Blocking!Unchunked(w) = Reader(w, f, 1)
  <2>1. 1 \in 1..(Len(w) + 1)
    BY <1>1, <1>3, <1>4
  <2>. QED
    BY <1>4, <2>1, DecodingUnfold
<1>11. Reader(w, f, 1) = {t \o rest : rest \in f[n + 4]}
  <2>1. 1 + 2 = 3 /\ 1 + n + 1 = n + 2 /\ 1 + n + 3 = n + 4
    BY <1>1
  <2>2. Reader(w, f, 1) = {SubSeq(w, 1 + 2, 1 + n + 1) \o rest : rest \in f[1 + n + 3]}
    BY <1>6, <1>7, <1>8, Zenon DEF Reader
  <2>. QED
    BY <1>9, <2>1, <2>2, Zenon
<1>. QED
  BY <1>5, <1>10, <1>11, Zenon DEF w, p

LEMMA LastChunkIsRead ==
  /\ Blocking!LastChunk \in Seq(Tokens)
  /\ Blocking!Unchunked(Blocking!LastChunk) = {<<>>}
<1>. DEFINE w == Blocking!LastChunk
            z == <<"size", 0>>
            c == Blocking!CRLF
<1>1. z \in Tokens /\ c \in Tokens
  BY TokensOfForm
<1>. HIDE DEF z, c
<1>2. <<z, c, c>> \in Seq(Tokens) /\ Len(<<z, c, c>>) = 3
  BY <1>1
<1>3. w = <<z, c, c>>
  BY DEF Blocking!LastChunk, z, c
<1>4. w \in Seq(Tokens) /\ Len(w) = 3
  BY <1>2, <1>3, Zenon
<1>. HIDE DEF w
<1>5. SubSeq(w, 1, Len(w)) = w
  BY <1>4, SubSeqFull
<1>6. 1 \in 1..(Len(w) + 1)
  BY <1>4
<1>7. Blocking!Unchunked(w) = Reader(w, Decoding(w), 1)
  BY <1>4, <1>6, DecodingUnfold
<1>8. Reader(w, Decoding(w), 1) = {<<>>}
  BY <1>5, Zenon DEF Reader, w
<1>. QED
  BY <1>4, <1>7, <1>8, Zenon DEF w

\* Whatever follows some of a body, the server has read so much of it before.
HasRead(w, sent) ==
  \A r \in Seq(Tokens) :
    Blocking!Unchunked(w \o r) = {sent \o rest : rest \in Blocking!Unchunked(r)}

LEMMA UnchunkedType ==
  \A r \in Seq(Tokens) : Blocking!Unchunked(r) \subseteq Seq(Tokens)
<1>. TAKE r \in Seq(Tokens)
<1>1. 1 \in 1..(Len(r) + 1)
  BY LenProperties
<1>. QED
  BY <1>1, DecodingType, DecodingUnfold

LEMMA HasReadNothing == HasRead(<<>>, <<>>)
<1>. SUFFICES ASSUME NEW r \in Seq(Tokens)
              PROVE  Blocking!Unchunked(<<>> \o r)
                       = {<<>> \o rest : rest \in Blocking!Unchunked(r)}
  BY DEF HasRead
<1>1. <<>> \o r = r
  BY ConcatEmptySeq
<1>2. \A rest \in Blocking!Unchunked(r) : <<>> \o rest = rest
  BY UnchunkedType, ConcatEmptySeq
<1>. DEFINE D == Blocking!Unchunked(r)
<1>. HIDE DEF D
<1>3. \A rest \in D : <<>> \o rest = rest
  BY <1>2 DEF D
<1>4. D = {<<>> \o rest : rest \in D}
  BY <1>3
<1>. QED
  BY <1>1, <1>4, Zenon DEF D

LEMMA HasReadChunk ==
  ASSUME NEW w \in Seq(Tokens), NEW sent \in Seq(Tokens), HasRead(w, sent),
         NEW t \in Seq(Tokens), t # <<>>
  PROVE  HasRead(w \o Chunk(t), sent \o t)
<1>. SUFFICES ASSUME NEW r \in Seq(Tokens)
              PROVE  Blocking!Unchunked((w \o Chunk(t)) \o r)
                       = {(sent \o t) \o rest : rest \in Blocking!Unchunked(r)}
  BY Zenon DEF HasRead
<1>1. Chunk(t) \in Seq(Tokens) /\ Chunk(t) \o r \in Seq(Tokens)
  <2>1. Chunk(t) \in Seq(Tokens)
    BY ChunkType
  <2>. QED
    BY <2>1, ConcatProperties
<1>2. (w \o Chunk(t)) \o r = w \o (Chunk(t) \o r)
  BY ONLY w \in Seq(Tokens), r \in Seq(Tokens), <1>1, Associates
<1>3. Blocking!Unchunked(w \o (Chunk(t) \o r))
        = {sent \o rest : rest \in Blocking!Unchunked(Chunk(t) \o r)}
  BY <1>1, Zenon DEF HasRead
<1>4. Blocking!Unchunked(Chunk(t) \o r) = {t \o rest : rest \in Blocking!Unchunked(r)}
  BY ChunkIsRead
<1>. DEFINE D == Blocking!Unchunked(r)
<1>5. \A rest \in D : (sent \o t) \o rest = sent \o (t \o rest)
  <2>1. \A rest \in D : rest \in Seq(Tokens)
    BY UnchunkedType
  <2>. HIDE DEF D
  <2>. QED
    BY <2>1, Associates
<1>. HIDE DEF D
<1>. DEFINE E == {t \o rest : rest \in D}
<1>6. {sent \o x : x \in E} = {(sent \o t) \o rest : rest \in D}
  <2>1. \A rest \in D : t \o rest \in E /\ (sent \o t) \o rest = sent \o (t \o rest)
    BY <1>5
  <2>2. \A x \in E : \E rest \in D : x = t \o rest
    OBVIOUS
  <2>. HIDE DEF E
  <2>3. ASSUME NEW y \in {sent \o x : x \in E} PROVE y \in {(sent \o t) \o rest : rest \in D}
    <3>1. PICK x \in E : y = sent \o x
      OBVIOUS
    <3>2. PICK rest \in D : x = t \o rest
      BY <2>2
    <3>3. y = (sent \o t) \o rest
      BY <2>1, <3>1, <3>2, Zenon
    <3>. QED
      BY <3>3
  <2>4. ASSUME NEW y \in {(sent \o t) \o rest : rest \in D} PROVE y \in {sent \o x : x \in E}
    <3>1. PICK rest \in D : y = (sent \o t) \o rest
      OBVIOUS
    <3>2. t \o rest \in E /\ y = sent \o (t \o rest)
      BY <2>1, <3>1, Zenon
    <3>. QED
      BY <3>2
  <2>. QED
    BY <2>3, <2>4
<1>. QED
  BY <1>2, <1>3, <1>4, <1>6, Zenon DEF D

LEMMA HasReadAll ==
  ASSUME NEW w \in Seq(Tokens), NEW sent \in Seq(Tokens), HasRead(w, sent)
  PROVE  Blocking!Unchunked(w \o Blocking!LastChunk) = {sent}
<1>1. Blocking!Unchunked(w \o Blocking!LastChunk)
        = {sent \o rest : rest \in Blocking!Unchunked(Blocking!LastChunk)}
  BY LastChunkIsRead DEF HasRead
<1>2. Blocking!Unchunked(Blocking!LastChunk) = {<<>>}
  BY LastChunkIsRead
<1>3. sent \o <<>> = sent
  BY ConcatEmptySeq
<1>. QED
  BY <1>1, <1>2, <1>3, Zenon

-----------------------------------------------------------------------------
(* What a body is prepared as.                                             *)

LEMMA BodyTypes ==
  ASSUME NEW b \in SyncBodies
  PROVE  /\ b.parts \in Seq(SyncParts)
         /\ \/ b.kind = "none" /\ b.parts = <<>>
            \/ b.kind \in {"bytes", "form"} /\ Len(b.parts) = 1
            \/ b.kind \in {"stream", "multipart"}
<1>. DEFINE Given == [stream: BOOLEAN, sized: BOOLEAN, data: Seq(STRING \X Nat)]
<1>1. /\ b.parts \in Seq(Given)
      /\ \/ b.kind = "none" /\ b.parts = <<>>
         \/ b.kind \in {"bytes", "form"} /\ Len(b.parts) = 1
         \/ b.kind \in {"stream", "multipart"}
  BY ExchangesAssumption
<1>2. STRING \X Nat \subseteq Tokens
  BY DEF Tokens
<1>3. \A s \in Seq(STRING \X Nat) : s \in Seq(Tokens)
  <2>. TAKE s \in Seq(STRING \X Nat)
  <2>. DEFINE A == STRING \X Nat
  <2>1. s \in Seq(A) /\ A \subseteq Tokens
    BY <1>2
  <2>. HIDE DEF A, Tokens
  <2>. QED
    BY <2>1, SeqMonotonic
<1>4. Given \subseteq SyncParts
  BY <1>3 DEF SyncParts
<1>. HIDE DEF Given
<1>5. b.parts \in Seq(SyncParts)
  BY <1>1, <1>4, SeqMonotonic
<1>. QED
  BY <1>1, <1>5

LEMMA DataIsPart ==
  ASSUME NEW t \in Seq(Tokens)
  PROVE  /\ Blocking!Data(t) \in SyncParts /\ <<Blocking!Data(t)>> \in Seq(SyncParts)
         /\ Blocking!Contents(<<Blocking!Data(t)>>) = t
<1>. DEFINE x == Blocking!Data(t)
<1>1. x \in SyncParts /\ x.data = t
  BY DEF Blocking!Data, SyncParts
<1>. HIDE DEF x
<1>2. <<x>> \in Seq(SyncParts)
  BY <1>1
<1>3. Blocking!Contents(<<x>>) = t
  BY <1>1, ContentsOne
<1>. QED
  BY <1>1, <1>2, <1>3 DEF x

\* What a body is prepared as stands for what the caller meant.
StandsFor(p, t) ==
  /\ p.kind \in {"none", "complete", "stream"}
  /\ p.parts \in Seq(SyncParts) /\ t \in Seq(Tokens) /\ Blocking!Contents(p.parts) = t
  /\ p.len = {} \/ p.len = {Len(t)}

LEMMA CompleteStands ==
  ASSUME NEW t \in Seq(Tokens) PROVE StandsFor(Blocking!Complete(t), t)
  BY DataIsPart DEF StandsFor, Blocking!Complete

LEMMA StreamedStands ==
  ASSUME NEW ps \in Seq(SyncParts)
  PROVE  StandsFor(Blocking!Streamed(ps), Blocking!Contents(ps))
  BY ContentsType DEF StandsFor, Blocking!Streamed, Blocking!TotalLength

LEMMA OneContents ==
  ASSUME NEW ps \in Seq(SyncParts), Len(ps) = 1
  PROVE  Blocking!Contents(ps) = ps[1].data /\ ps[1].data \in Seq(Tokens)
<1>1. ps = <<ps[1]>> /\ ps[1] \in SyncParts
  OBVIOUS
<1>2. Blocking!Contents(<<ps[1]>>) = ps[1].data
  BY <1>1, ContentsOne
<1>3. ps[1].data \in Seq(Tokens)
  BY <1>1 DEF SyncParts
<1>. QED
  BY <1>1, <1>2, <1>3, Zenon

LEMMA PreparedIsMeant ==
  ASSUME NEW b \in SyncBodies
  PROVE  StandsFor(Blocking!PrepareBody(b), Blocking!Meant(b))
<1>1. b.parts \in Seq(SyncParts)
  BY BodyTypes
<1>2. b.kind # "multipart" => Blocking!Meant(b) = Blocking!Contents(b.parts)
  BY Zenon DEF Blocking!Meant
<1>3. CASE b.kind = "none"
  <2>1. b.parts = <<>> /\ Blocking!Meant(b) = <<>>
    BY <1>2, <1>3, BodyTypes, ContentsNone
  <2>2. Blocking!PrepareBody(b) = [kind |-> "none", parts |-> <<>>, len |-> {0}]
    BY <1>3 DEF Blocking!PrepareBody
  <2>3. <<>> \in Seq(SyncParts) /\ <<>> \in Seq(Tokens) /\ Len(<<>>) = 0
    BY EmptySeq
  <2>. QED
    BY <2>1, <2>2, <2>3, ContentsNone DEF StandsFor
<1>4. CASE b.kind = "bytes"
  <2>1. Len(b.parts) = 1
    BY <1>4, BodyTypes
  <2>. DEFINE t == b.parts[1].data
  <2>2. t \in Seq(Tokens) /\ Blocking!Meant(b) = t
    BY <1>1, <1>2, <1>4, <2>1, OneContents
  <2>3. Blocking!PrepareBody(b) = IF Len(t) <= U32Max THEN Blocking!Complete(t)
                                  ELSE Blocking!Streamed(Blocking!Pieces(t))
    BY <1>4 DEF Blocking!PrepareBody
  <2>. HIDE DEF t
  <2>4. StandsFor(Blocking!Complete(t), t)
    BY <2>2, CompleteStands
  <2>5. StandsFor(Blocking!Streamed(Blocking!Pieces(t)), t)
    <3>1. U32Max \in Nat \ {0}
      BY ExchangesAssumption
    <3>2. /\ Blocking!Pieces(t) \in Seq(SyncParts)
          /\ Blocking!Contents(Blocking!Pieces(t)) = t
      BY <2>2, <3>1, PiecesAreTheBody
    <3>3. StandsFor(Blocking!Streamed(Blocking!Pieces(t)), Blocking!Contents(Blocking!Pieces(t)))
      BY <3>2, StreamedStands
    <3>. QED
      BY <3>2, <3>3, Zenon
  <2>. QED
    BY <2>2, <2>3, <2>4, <2>5, Zenon
<1>5. CASE b.kind = "form"
  <2>1. Len(b.parts) = 1
    BY <1>5, BodyTypes
  <2>2. b.parts[1].data \in Seq(Tokens) /\ Blocking!Meant(b) = b.parts[1].data
    BY <1>1, <1>2, <1>5, <2>1, OneContents
  <2>3. Blocking!PrepareBody(b) = Blocking!Complete(b.parts[1].data)
    BY <1>5 DEF Blocking!PrepareBody
  <2>. QED
    BY <2>2, <2>3, CompleteStands
<1>6. CASE b.kind = "stream"
  <2>1. Blocking!PrepareBody(b) = Blocking!Streamed(b.parts)
    BY <1>6 DEF Blocking!PrepareBody
  <2>. QED
    BY <1>1, <1>2, <1>6, <2>1, StreamedStands
<1>7. CASE b.kind = "multipart"
  <2>. DEFINE ps == Blocking!GenerateMultipart(b.parts)
  <2>1. /\ ps \in Seq(SyncParts) /\ Blocking!Contents(ps) = Blocking!Meant(b)
        /\ Blocking!Meant(b) \in Seq(Tokens)
    BY <1>1, <1>7, FormIsMeant
  <2>2. \/ Blocking!PrepareBody(b) = Blocking!Streamed(ps)
        \/ Blocking!PrepareBody(b) = Blocking!Complete(Blocking!Contents(ps))
    BY <1>7 DEF Blocking!PrepareBody, Blocking!PrepareParts
  <2>. HIDE DEF ps
  <2>3. StandsFor(Blocking!Streamed(ps), Blocking!Meant(b))
    BY <2>1, StreamedStands
  <2>4. StandsFor(Blocking!Complete(Blocking!Contents(ps)), Blocking!Meant(b))
    BY <2>1, CompleteStands
  <2>. QED
    BY <2>2, <2>3, <2>4, Zenon
<1>. QED
  BY <1>3, <1>4, <1>5, <1>6, <1>7, BodyTypes

LEMMA MinOfSome ==
  ASSUME NEW T, T \subseteq Nat, T # {}
  PROVE  Blocking!Min(T) \in T /\ \A y \in T : Blocking!Min(T) <= y
<1>1. \E x \in T : \A y \in T : x <= y
  BY LeastExists
<1>. QED
  BY <1>1, Zenon DEF Blocking!Min

\* What the loop of poll_take_buffer passes over is used up.
LEMMA RemainingParts ==
  ASSUME bparts \in Seq(SyncParts)
  PROVE  /\ Blocking!Remaining \in Seq(SyncParts)
         /\ Blocking!Contents(Blocking!Remaining) = Blocking!Contents(bparts)
         /\ Blocking!Remaining # <<>> => Head(Blocking!Remaining).data # <<>>
<1>. DEFINE L == Len(bparts)
            Full == {i \in DOMAIN bparts : bparts[i].data # <<>>}
            n == Blocking!Min(Full \cup {L + 1})
<1>1. L \in Nat /\ DOMAIN bparts = 1..L
  BY LenProperties
<1>2. n \in Full \cup {L + 1} /\ \A i \in Full : n <= i
  <2>1. Full \cup {L + 1} \subseteq Nat /\ Full \cup {L + 1} # {}
    BY <1>1
  <2>. HIDE DEF Full
  <2>. QED
    BY <2>1, MinOfSome
<1>3. Blocking!Remaining = SubSeq(bparts, n, L)
  BY Zenon DEF Blocking!Remaining
<1>. HIDE DEF n
<1>4. n \in 1..(L + 1) /\ \A i \in 1..(n - 1) : bparts[i].data = <<>>
  BY <1>1, <1>2
<1>5. /\ SubSeq(bparts, n, L) \in Seq(SyncParts)
      /\ Blocking!Contents(SubSeq(bparts, n, L)) = Blocking!Contents(bparts)
  BY <1>4, ContentsSkip
<1>6. SubSeq(bparts, n, L) # <<>> => Head(SubSeq(bparts, n, L)).data # <<>>
  <2>1. n = L + 1 => SubSeq(bparts, n, L) = <<>>
    BY <1>1, SubSeqEmpty
  <2>2. n # L + 1 => n \in 1..L /\ L \in n..L /\ bparts[n].data # <<>>
    BY <1>1, <1>2, <1>4
  <2>3. n # L + 1 => Head(SubSeq(bparts, n, L)) = bparts[n]
    BY <2>2, HeadTailOfSubSeq
  <2>. QED
    BY <2>1, <2>2, <2>3
<1>. QED
  BY <1>3, <1>5, <1>6, Zenon

\* The framing is laid around the data, whatever the buffer held behind it.
LEMMA DecoratedIsChunk ==
  ASSUME NEW held \in Seq(Tokens), NEW n \in 1..Len(held)
  PROVE  /\ Blocking!Decorated(held, n) \in Seq(Tokens)
         /\ SubSeq(Blocking!Decorated(held, n), 1, n + 3) = Chunk(SubSeq(held, 1, n))
<1>. DEFINE t == SubSeq(held, 1, n)
            x == SubSeq(held, n + 4, Len(held))
            z == <<"size", n>>
            c == Blocking!CRLF
            line == <<z, c, c>>
            y == t \o line
            laid == y \o x
            A == SubSeq(laid, n + 1, n + 2)
            B == SubSeq(laid, 1, n)
            C == SubSeq(laid, n + 3, Len(laid))
            u == A \o B
            d == u \o C
<1>1. n \in Nat /\ n >= 1 /\ Len(held) \in Nat /\ n <= Len(held)
      /\ \A i \in 1..Len(held) : held[i] \in Tokens
  BY LenProperties, ElementOfSeq
<1>2. z \in Tokens /\ c \in Tokens
  BY <1>1, TokensOfForm
<1>. HIDE DEF z, c
<1>3. /\ line \in Seq(Tokens) /\ Len(line) = 3
      /\ line[1] = z /\ line[2] = c /\ line[3] = c
  BY <1>2
<1>. HIDE DEF line
<1>4. t \in Seq(Tokens) /\ Len(t) = n /\ x \in Seq(Tokens)
  <2>1. \A i \in 1..n : held[i] \in Tokens
    BY <1>1
  <2>2. \A i \in (n + 4)..Len(held) : held[i] \in Tokens
    BY <1>1
  <2>3. 1 \in Int /\ n \in Int /\ n + 4 \in Int /\ Len(held) \in Int
    BY <1>1
  <2>4. t \in Seq(Tokens) /\ Len(t) = IF 1 <= n THEN n - 1 + 1 ELSE 0
    BY <2>1, <2>3, SubSeqProperties
  <2>5. x \in Seq(Tokens)
    BY <2>2, <2>3, SubSeqProperties
  <2>. HIDE DEF t
  <2>. QED
    BY <1>1, <2>4, <2>5
<1>. HIDE DEF t, x
<1>5. /\ y \in Seq(Tokens) /\ Len(y) = n + 3
      /\ \A i \in 1..n : y[i] = t[i]
      /\ y[n + 1] = z /\ y[n + 2] = c /\ y[n + 3] = c
  <2>1. /\ y \in Seq(Tokens) /\ Len(y) = Len(t) + Len(line)
        /\ \A i \in 1..(Len(t) + Len(line)) :
             y[i] = IF i <= Len(t) THEN t[i] ELSE line[i - Len(t)]
    BY ONLY <1>3, <1>4, ConcatProperties
  <2>. HIDE DEF y
  <2>. QED
    BY <1>1, <1>3, <1>4, <2>1
<1>. HIDE DEF y
<1>6. /\ laid \in Seq(Tokens) /\ Len(laid) = (n + 3) + Len(x) /\ Len(x) \in Nat
      /\ \A i \in 1..(n + 3) : laid[i] = y[i]
  <2>1. /\ laid \in Seq(Tokens) /\ Len(laid) = Len(y) + Len(x)
        /\ \A i \in 1..(Len(y) + Len(x)) :
             laid[i] = IF i <= Len(y) THEN y[i] ELSE x[i - Len(y)]
    BY ONLY <1>4, <1>5, ConcatProperties
  <2>2. Len(x) \in Nat
    BY <1>4, LenProperties
  <2>. HIDE DEF laid
  <2>. QED
    BY <1>1, <1>5, <2>1, <2>2
<1>. HIDE DEF laid
<1>7. \A i \in 1..Len(laid) : laid[i] \in Tokens
  BY <1>6, ElementOfSeq
<1>8. A = <<z, c>>
  <2>1. \A i \in (n + 1)..(n + 2) : laid[i] \in Tokens
    BY <1>1, <1>6, <1>7
  <2>2. /\ A \in Seq(Tokens) /\ Len(A) = IF n + 1 <= n + 2 THEN (n + 2) - (n + 1) + 1 ELSE 0
        /\ \A i \in 1..((n + 2) - (n + 1) + 1) : A[i] = laid[(n + 1) + i - 1]
    BY <1>1, <2>1, SubSeqProperties
  <2>. HIDE DEF A
  <2>3. Len(A) = 2 /\ A[1] = laid[n + 1] /\ A[2] = laid[n + 2]
    BY <1>1, <2>2
  <2>4. A[1] = z /\ A[2] = c
    BY <1>1, <1>5, <1>6, <2>3
  <2>. QED
    BY <2>2, <2>3, <2>4
<1>9. B = t
  <2>1. \A i \in 1..n : laid[i] \in Tokens
    BY <1>1, <1>6, <1>7
  <2>2. /\ B \in Seq(Tokens) /\ Len(B) = IF 1 <= n THEN n - 1 + 1 ELSE 0
        /\ \A i \in 1..(n - 1 + 1) : B[i] = laid[1 + i - 1]
    BY <1>1, <2>1, SubSeqProperties
  <2>. HIDE DEF B
  <2>3. Len(B) = n /\ \A i \in 1..n : B[i] = t[i]
    BY <1>1, <1>5, <1>6, <2>2
  <2>. QED
    BY <1>4, <2>2, <2>3, SeqEqual
<1>10. C \in Seq(Tokens) /\ Len(C) >= 1 /\ C[1] = c /\ Len(C) \in Nat
  <2>1. \A i \in (n + 3)..Len(laid) : laid[i] \in Tokens
    BY <1>1, <1>6, <1>7
  <2>2. n + 3 \in Int /\ Len(laid) \in Int
    BY <1>1, <1>6
  <2>3. /\ C \in Seq(Tokens)
        /\ Len(C) = IF n + 3 <= Len(laid) THEN Len(laid) - (n + 3) + 1 ELSE 0
        /\ \A i \in 1..(Len(laid) - (n + 3) + 1) : C[i] = laid[(n + 3) + i - 1]
    BY <2>1, <2>2, SubSeqProperties
  <2>. HIDE DEF C
  <2>4. Len(C) = Len(x) + 1 /\ C[1] = laid[n + 3]
    BY <1>1, <1>6, <2>3
  <2>. QED
    BY <1>1, <1>5, <1>6, <2>3, <2>4
<1>. HIDE DEF A, B, C
<1>11. Blocking!Decorated(held, n) = d
  BY Zenon DEF Blocking!Decorated, d, u, A, B, C, laid, y, t, line, z, c, x
<1>12. u \in Seq(Tokens) /\ Len(u) = n + 2
  <2>1. A \in Seq(Tokens) /\ Len(A) = 2
    BY <1>2, <1>8
  <2>2. u \in Seq(Tokens) /\ Len(u) = Len(A) + Len(B)
    BY <1>4, <1>9, <2>1, ConcatProperties
  <2>. HIDE DEF u
  <2>. QED
    BY <1>1, <1>4, <1>9, <2>1, <2>2
<1>. HIDE DEF u
<1>13. /\ d \in Seq(Tokens) /\ Len(d) = (n + 2) + Len(C)
       /\ \A i \in 1..((n + 2) + Len(C)) : d[i] = IF i <= n + 2 THEN u[i] ELSE C[i - (n + 2)]
  <2>1. /\ d \in Seq(Tokens) /\ Len(d) = Len(u) + Len(C)
        /\ \A i \in 1..(Len(u) + Len(C)) : d[i] = IF i <= Len(u) THEN u[i] ELSE C[i - Len(u)]
    BY ONLY <1>10, <1>12, ConcatProperties
  <2>. HIDE DEF d
  <2>. QED
    BY <1>12, <2>1
<1>. HIDE DEF d
<1>14. SubSeq(d, 1, n + 3) = u \o <<c>>
  <2>. DEFINE s == SubSeq(d, 1, n + 3)
              v == u \o <<c>>
              b == <<c>>
  <2>1. \A i \in 1..(n + 3) : d[i] \in Tokens
    <3>1. \A i \in 1..Len(d) : d[i] \in Tokens
      BY <1>13, ElementOfSeq
    <3>. QED
      BY <1>1, <1>10, <1>13, <3>1
  <2>2. /\ s \in Seq(Tokens) /\ Len(s) = IF 1 <= n + 3 THEN (n + 3) - 1 + 1 ELSE 0
        /\ \A i \in 1..((n + 3) - 1 + 1) : s[i] = d[1 + i - 1]
    BY <1>1, <2>1, SubSeqProperties
  <2>3. b \in Seq(Tokens) /\ Len(b) = 1 /\ b[1] = c
    BY <1>2
  <2>. HIDE DEF b
  <2>4. /\ u \o b \in Seq(Tokens) /\ Len(u \o b) = Len(u) + Len(b)
        /\ \A i \in 1..(Len(u) + Len(b)) : (u \o b)[i] = IF i <= Len(u) THEN u[i] ELSE b[i - Len(u)]
    BY ONLY <1>12, <2>3, ConcatProperties
  <2>5. v = u \o b
    BY DEF b
  <2>. HIDE DEF s, v
  <2>6. v \in Seq(Tokens) /\ Len(v) = n + 3
        /\ \A i \in 1..(n + 3) : v[i] = IF i <= n + 2 THEN u[i] ELSE c
    BY <1>1, <1>12, <2>3, <2>4, <2>5
  <2>7. Len(s) = n + 3 /\ \A i \in 1..(n + 3) : s[i] = d[i]
    BY <1>1, <2>2
  <2>8. \A i \in 1..(n + 3) : d[i] = IF i <= n + 2 THEN u[i] ELSE c
    BY <1>1, <1>10, <1>13
  <2>9. \A i \in 1..Len(s) : s[i] = v[i]
    BY <2>6, <2>7, <2>8
  <2>10. s = v
    BY <2>2, <2>6, <2>7, <2>9, SeqEqual
  <2>. QED
    BY <2>10 DEF s, v
<1>15. Chunk(t) = (<<z, c>> \o t) \o <<c>>
  BY <1>4, Zenon DEF Chunk, z, c
<1>16. u = <<z, c>> \o t
  BY <1>8, <1>9, Zenon DEF u
<1>. QED
  BY <1>11, <1>13, <1>14, <1>15, <1>16, Zenon DEF t

-----------------------------------------------------------------------------
(* The writer of a body.                                                   *)

\* A body that is sent in one piece has a length of 32 bits, as RequestHandle::send asks
\* of its caller.
BodiesFit ==
  \A b \in SyncBodies :
    Blocking!PrepareBody(b).kind # "stream" => Len(Blocking!Meant(b)) <= U32Max

Meaning == Blocking!Meant(breq.body)

\* What was written, what is about to be, and what is left make up the body.
WritingInv ==
  IF Blocking!Chunked
    THEN IF finished
           THEN Blocking!Unchunked(wire \o bchunk) = {Meaning}
           ELSE \E sent \in Seq(Tokens) :
                  /\ sent \o Blocking!Contents(bparts) = Meaning
                  /\ HasRead(wire \o bchunk, sent)
    ELSE (wire \o bchunk) \o Blocking!Contents(bparts) = Meaning

BodyIsThere ==
  /\ Blocking!Received = {Meaning}
  /\ Blocking!Prepared.len # {} => Blocking!Prepared.len = {Len(wire)}
  /\ total \in {Len(wire), U32Max}

Afterwards == {"receive", "open", "header", "bytes", "large", "whole"}

WriterTypeOK ==
  /\ breq.body \in SyncBodies
  /\ wire \in Seq(Tokens) /\ bchunk \in Seq(Tokens) /\ bbuffer \in Seq(Tokens)
  /\ bparts \in Seq(SyncParts) /\ finished \in BOOLEAN

WriterInv ==
  /\ WriterTypeOK
  /\ bpc \in {"session", "create"} => wire = <<>> /\ bchunk = <<>> /\ ~finished
  /\ bpc = "take" => bchunk = <<>> /\ ~finished
  /\ bpc \in {"take", "write"} =>
       /\ Blocking!Prepared.kind = "stream"
       /\ total = Blocking!TotalLengthOf(Blocking!Prepared.len)
       /\ finished => bparts = <<>>
       /\ WritingInv
  /\ bpc \in Afterwards => BodyIsThere

LEMMA WriterInit == Blocking!Init => WriterInv
<1>. SUFFICES ASSUME Blocking!Init PROVE WriterInv
  OBVIOUS
<1>1. /\ breq.body \in SyncBodies /\ bpc = "session"
      /\ wire = <<>> /\ bchunk = <<>> /\ bbuffer = <<>> /\ bparts = <<>> /\ finished = FALSE
  BY DEF Blocking!Init
<1>2. <<>> \in Seq(Tokens) /\ <<>> \in Seq(SyncParts)
  BY EmptySeq
<1>. QED
  BY <1>1, <1>2 DEF WriterInv, WriterTypeOK, Afterwards

\* Steps that leave the writer alone.
LEMMA WriterRests ==
  ASSUME WriterInv, UNCHANGED <<breq, wire, bchunk, bbuffer, bparts, finished, total>>,
         \/ bpc' = bpc \/ bpc' = "failed"
         \/ bpc = "session" /\ bpc' = "create"
         \/ bpc \in Afterwards /\ bpc' \in Afterwards
  PROVE  WriterInv'
<1>1. /\ WriterTypeOK' <=> WriterTypeOK
      /\ WritingInv' <=> WritingInv
      /\ BodyIsThere' <=> BodyIsThere
      /\ Blocking!Prepared' = Blocking!Prepared
  BY Zenon DEF WriterTypeOK, WritingInv, BodyIsThere, Meaning, Blocking!Received, Blocking!Chunked,
               Blocking!Prepared
<1>2. /\ (wire = <<>>)' <=> wire = <<>>
      /\ (bchunk = <<>>)' <=> bchunk = <<>>
      /\ (finished <=> finished') /\ (bparts = <<>>)' <=> bparts = <<>>
      /\ (total = Blocking!TotalLengthOf(Blocking!Prepared.len))'
           <=> total = Blocking!TotalLengthOf(Blocking!Prepared.len)
      /\ (Blocking!Prepared.kind = "stream")' <=> Blocking!Prepared.kind = "stream"
  BY <1>1, Zenon
<1>. QED
  BY <1>1, <1>2 DEF WriterInv, Afterwards

LEMMA PreparedStands ==
  ASSUME WriterTypeOK
  PROVE  StandsFor(Blocking!Prepared, Meaning)
<1>1. breq.body \in SyncBodies
  BY DEF WriterTypeOK
<1>. QED
  BY <1>1, PreparedIsMeant DEF Blocking!Prepared, Meaning

LEMMA SameRequest ==
  ASSUME UNCHANGED breq
  PROVE  /\ Blocking!Prepared' = Blocking!Prepared /\ Meaning' = Meaning
         /\ Blocking!Chunked' <=> Blocking!Chunked
  BY Zenon DEF Blocking!Prepared, Blocking!Chunked, Meaning

LEMMA SendStep ==
  ASSUME WriterInv, BodiesFit, Blocking!Send PROVE WriterInv'
<1>1. /\ bpc = "create" /\ UNCHANGED <<breq, finished, bchunk>>
      /\ IF Blocking!Prepared.kind = "stream" THEN Blocking!SendStreaming
         ELSE Blocking!SendComplete(Blocking!Contents(Blocking!Prepared.parts))
  BY DEF Blocking!Send
<1>2. WriterTypeOK /\ wire = <<>> /\ bchunk = <<>> /\ ~finished
  BY <1>1 DEF WriterInv
<1>3. StandsFor(Blocking!Prepared, Meaning)
  BY <1>2, PreparedStands
<1>. DEFINE p == Blocking!Prepared
            t == Meaning
<1>4. /\ p' = p /\ t' = t /\ (Blocking!Chunked' <=> Blocking!Chunked)
  BY <1>1, SameRequest
<1>. HIDE DEF p, t
<1>5. /\ p.parts \in Seq(SyncParts) /\ t \in Seq(Tokens) /\ Blocking!Contents(p.parts) = t
      /\ p.len = {} \/ p.len = {Len(t)}
  BY <1>3 DEF StandsFor, p, t
<1>6. breq.body \in SyncBodies /\ <<>> \in Seq(Tokens)
  BY <1>2, EmptySeq DEF WriterTypeOK
<1>7. CASE p.kind = "stream"
  <2>1. /\ total' = Blocking!TotalLengthOf(p.len) /\ bparts' = p.parts
        /\ bbuffer' = [i \in 1..ChunkBufferSize |-> Blocking!Zero]
        /\ bpc' = "take" /\ wire' = wire
    BY <1>1, <1>7 DEF Blocking!SendStreaming, p
  <2>2. bbuffer' \in Seq(Tokens)
    <3>1. ChunkBufferSize \in Nat /\ Blocking!Zero \in Tokens
      BY ExchangesAssumption, TokensOfForm
    <3>. QED
      BY <2>1, <3>1
  <2>3. WriterTypeOK'
    BY <1>1, <1>2, <1>5, <2>1, <2>2 DEF WriterTypeOK
  <2>4. /\ wire' \o bchunk' = <<>> /\ <<>> \o Blocking!Contents(bparts') = t'
    <3>1. wire' = <<>> /\ bchunk' = <<>>
      BY <1>1, <1>2, <2>1
    <3>2. <<>> \o <<>> = <<>> /\ <<>> \o t = t
      BY <1>5, <1>6, ConcatEmptySeq
    <3>3. Blocking!Contents(bparts') = t
      BY <1>5, <2>1
    <3>. QED
      BY <1>4, <3>1, <3>2, <3>3, Zenon
  <2>5. ~finished'
    BY <1>1, <1>2
  <2>6. HasRead(wire' \o bchunk', <<>>)
    BY <2>4, HasReadNothing
  <2>7. WritingInv'
    BY <1>6, <2>4, <2>5, <2>6 DEF WritingInv, t
  <2>8. bchunk' = <<>> /\ p'.kind = "stream" /\ total' = Blocking!TotalLengthOf(p'.len)
    BY <1>1, <1>2, <1>4, <1>7, <2>1
  <2>. QED
    BY <2>1, <2>3, <2>5, <2>7, <2>8 DEF WriterInv, Afterwards, p
<1>8. CASE p.kind # "stream"
  <2>1. /\ total' = Len(t) % (U32Max + 1) /\ wire' = SubSeq(t, 1, total') /\ bpc' = "receive"
        /\ UNCHANGED <<bparts, bbuffer>>
    BY <1>1, <1>5, <1>8 DEF Blocking!SendComplete, p
  <2>2. Len(t) \in Nat /\ Len(t) <= U32Max /\ U32Max \in Nat
    <3>1. Blocking!PrepareBody(breq.body).kind # "stream"
      BY <1>8 DEF p, Blocking!Prepared
    <3>2. Len(t) <= U32Max
      BY <1>6, <3>1 DEF BodiesFit, t, Meaning
    <3>. QED
      BY <1>5, <3>2, LenProperties, ExchangesAssumption
  <2>3. total' = Len(t)
    BY <2>1, <2>2
  <2>4. wire' = t
    BY <1>5, <2>1, <2>3, SubSeqFull
  <2>5. WriterTypeOK'
    BY <1>1, <1>2, <1>5, <2>1, <2>4 DEF WriterTypeOK
  <2>6. ~Blocking!Chunked'
    BY <1>4, <1>8 DEF Blocking!Chunked, p
  <2>7. Blocking!Received' = {t'}
    BY <1>4, <2>4, <2>6, Zenon DEF Blocking!Received
  <2>8. p'.len # {} => p'.len = {Len(wire')}
    BY <1>4, <1>5, <2>4
  <2>9. BodyIsThere'
    BY <2>3, <2>4, <2>7, <2>8 DEF BodyIsThere, p, t
  <2>. QED
    BY <2>1, <2>5, <2>9 DEF WriterInv, Afterwards
<1>. QED
  BY <1>7, <1>8

LEMMA WriteStep ==
  ASSUME WriterInv, Blocking!WriteData PROVE WriterInv'
<1>. DEFINE L == Len(bchunk)
<1>1. /\ bpc = "write" /\ bchunk # <<>>
      /\ UNCHANGED <<breq, bpc, total, bparts, bbuffer, finished>>
  BY DEF Blocking!WriteData
<1>2. PICK n \in Blocking!Accepted :
        /\ wire' = wire \o SubSeq(bchunk, 1, n) /\ bchunk' = SubSeq(bchunk, n + 1, L)
  BY DEF Blocking!WriteData
<1>3. WriterTypeOK /\ WritingInv
  BY <1>1 DEF WriterInv
<1>4. wire \in Seq(Tokens) /\ bchunk \in Seq(Tokens) /\ L \in Nat
  BY <1>3, LenProperties DEF WriterTypeOK
<1>5. n \in Nat /\ n \in 1..L
  <2>1. U32Max \in Int /\ L \in Int
    BY <1>4, ExchangesAssumption
  <2>2. Blocking!Min({L, U32Max}) = IF L <= U32Max THEN L ELSE U32Max
    BY <2>1, MinOfTwo
  <2>3. n \in 1..Blocking!Min({L, U32Max})
    BY <1>2 DEF Blocking!Accepted
  <2>. QED
    BY <1>4, <2>1, <2>2, <2>3
<1>6. /\ SubSeq(bchunk, 1, n) \in Seq(Tokens) /\ SubSeq(bchunk, n + 1, L) \in Seq(Tokens)
      /\ SubSeq(bchunk, 1, n) \o SubSeq(bchunk, n + 1, L) = bchunk
  <2>1. \A i \in 1..L : bchunk[i] \in Tokens
    BY <1>4, ElementOfSeq
  <2>2. \A i \in 1..n : bchunk[i] \in Tokens
    BY <1>4, <1>5, <2>1
  <2>3. \A i \in (n + 1)..L : bchunk[i] \in Tokens
    BY <1>4, <1>5, <2>1
  <2>4. n \in Int /\ n + 1 \in Int /\ L \in Int /\ 1 \in Int
    BY <1>4, <1>5
  <2>5. /\ SubSeq(bchunk, 1, n) \in Seq(Tokens) /\ SubSeq(bchunk, n + 1, L) \in Seq(Tokens)
    BY <2>2, <2>3, <2>4, SubSeqProperties
  <2>6. 1 \in 1..(L + 1) /\ n \in (1 - 1)..L /\ L \in n..L
    BY <1>4, <1>5
  <2>7. SubSeq(bchunk, 1, n) \o SubSeq(bchunk, n + 1, L) = SubSeq(bchunk, 1, L)
    BY <1>4, <2>6, ConcatAdjacentSubSeq
  <2>8. SubSeq(bchunk, 1, L) = bchunk
    BY <1>4, SubSeqFull
  <2>. QED
    BY <2>5, <2>7, <2>8
<1>7. wire' \o bchunk' = wire \o bchunk
  <2>1. (wire \o SubSeq(bchunk, 1, n)) \o SubSeq(bchunk, n + 1, L)
          = wire \o (SubSeq(bchunk, 1, n) \o SubSeq(bchunk, n + 1, L))
    BY ONLY <1>4, <1>6, Associates
  <2>. QED
    BY <1>2, <1>6, <2>1, Zenon
<1>8. wire' \in Seq(Tokens) /\ bchunk' \in Seq(Tokens)
  <2>1. wire \o SubSeq(bchunk, 1, n) \in Seq(Tokens)
    BY ONLY <1>4, <1>6, ConcatProperties
  <2>. QED
    BY <1>2, <1>6, <2>1, Zenon
<1>9. WriterTypeOK'
  BY <1>1, <1>3, <1>8 DEF WriterTypeOK
<1>10. /\ Blocking!Prepared' = Blocking!Prepared /\ Meaning' = Meaning
       /\ Blocking!Chunked' <=> Blocking!Chunked
  BY <1>1, SameRequest
<1>11. WritingInv'
  BY <1>1, <1>3, <1>7, <1>10, Zenon DEF WritingInv
<1>12. /\ Blocking!Prepared'.kind = "stream"
       /\ total' = Blocking!TotalLengthOf(Blocking!Prepared'.len)
       /\ finished' => bparts' = <<>>
  BY <1>1, <1>10 DEF WriterInv
<1>. QED
  BY <1>1, <1>9, <1>11, <1>12 DEF WriterInv, Afterwards

LEMMA ResizedType ==
  ASSUME NEW b \in Seq(Tokens)
  PROVE  Blocking!Resized(b) \in Seq(Tokens) /\ Len(Blocking!Resized(b)) = ChunkBufferSize
<1>1. ChunkBufferSize \in Nat /\ Blocking!Zero \in Tokens
  BY ExchangesAssumption, TokensOfForm
<1>2. \A i \in 1..ChunkBufferSize :
        (IF i <= Len(b) THEN b[i] ELSE Blocking!Zero) \in Tokens
  <2>. TAKE i \in 1..ChunkBufferSize
  <2>1. i <= Len(b) => i \in 1..Len(b)
    BY <1>1, LenProperties
  <2>2. i <= Len(b) => b[i] \in Tokens
    BY <2>1, ElementOfSeq
  <2>. QED
    BY <1>1, <2>2
<1>. HIDE DEF Tokens
<1>3. Blocking!Resized(b) \in [1..ChunkBufferSize -> Tokens]
  BY <1>2 DEF Blocking!Resized
<1>. QED
  BY <1>1, <1>3

LEMMA AdvanceStep ==
  ASSUME WriterInv, Blocking!Advance PROVE WriterInv'
<1>1. /\ bpc = "write" /\ bchunk = <<>>
      /\ UNCHANGED <<breq, total, bparts, finished, bchunk, wire>>
      /\ bpc' = IF finished THEN "receive" ELSE "take"
      /\ bbuffer' = Blocking!Resized(bbuffer) \/ bbuffer' = <<>>
  BY DEF Blocking!Advance
<1>2. /\ WriterTypeOK /\ WritingInv
      /\ Blocking!Prepared.kind = "stream"
      /\ total = Blocking!TotalLengthOf(Blocking!Prepared.len)
      /\ finished => bparts = <<>>
  BY <1>1 DEF WriterInv
<1>3. /\ Blocking!Prepared' = Blocking!Prepared /\ Meaning' = Meaning
      /\ Blocking!Chunked' <=> Blocking!Chunked
  BY <1>1, SameRequest
<1>4. bbuffer' \in Seq(Tokens)
  <2>1. bbuffer \in Seq(Tokens) /\ <<>> \in Seq(Tokens)
    BY <1>2, EmptySeq DEF WriterTypeOK
  <2>2. Blocking!Resized(bbuffer) \in Seq(Tokens)
    BY <2>1, ResizedType
  <2>. QED
    BY <1>1, <2>1, <2>2, Zenon
<1>5. WriterTypeOK'
  BY <1>1, <1>2, <1>4 DEF WriterTypeOK
<1>6. CASE ~finished
  <2>1. WritingInv'
    BY <1>1, <1>2, <1>3, Zenon DEF WritingInv
  <2>2. bpc' = "take" /\ bchunk' = <<>> /\ ~finished'
    BY <1>1, <1>6
  <2>3. /\ Blocking!Prepared'.kind = "stream"
        /\ total' = Blocking!TotalLengthOf(Blocking!Prepared'.len)
    BY <1>1, <1>2, <1>3
  <2>. QED
    BY <1>5, <2>1, <2>2, <2>3 DEF WriterInv, Afterwards
<1>7. CASE finished
  <2>. DEFINE t == Meaning
              len == Blocking!Prepared.len
  <2>0. StandsFor(Blocking!Prepared, Meaning)
    BY <1>2, PreparedStands
  <2>1. t \in Seq(Tokens) /\ (len = {} \/ len = {Len(t)}) /\ Len(t) \in Nat
    BY <2>0, LenProperties DEF StandsFor
  <2>2. wire \in Seq(Tokens) /\ wire \o bchunk = wire /\ wire \o <<>> = wire
    <3>1. wire \in Seq(Tokens)
      BY <1>2 DEF WriterTypeOK
    <3>. QED
      BY <1>1, <3>1, ConcatEmptySeq
  <2>3. ASSUME Blocking!Chunked PROVE BodyIsThere'
    <3>1. Blocking!Unchunked(wire) = {t}
      BY <1>2, <1>7, <2>2, <2>3, Zenon DEF WritingInv
    <3>2. len = {}
      BY <2>3 DEF Blocking!Chunked
    <3>3. total = U32Max
      BY <1>2, <3>2 DEF Blocking!TotalLengthOf
    <3>4. Blocking!Received' = {t'}
      BY <1>1, <1>3, <2>3, <3>1, Zenon DEF Blocking!Received
    <3>. QED
      BY <1>1, <1>3, <3>2, <3>3, <3>4 DEF BodyIsThere
  <2>4. ASSUME ~Blocking!Chunked PROVE BodyIsThere'
    <3>1. len = {Len(t)}
      BY <1>2, <2>1, <2>4 DEF Blocking!Chunked
    <3>2. wire = t
      BY <1>2, <1>7, <2>2, <2>4, ContentsNone, Zenon DEF WritingInv
    <3>3. total \in {Len(t), U32Max}
      <4>1. total = Blocking!Min({Len(t)} \cup {U32Max})
        BY <1>2, <3>1 DEF Blocking!TotalLengthOf
      <4>2. {Len(t)} \cup {U32Max} = {Len(t), U32Max}
        OBVIOUS
      <4>3. Len(t) \in Int /\ U32Max \in Int
        BY <2>1, ExchangesAssumption
      <4>4. Blocking!Min({Len(t), U32Max}) = IF Len(t) <= U32Max THEN Len(t) ELSE U32Max
        BY <4>3, MinOfTwo
      <4>. QED
        BY <4>1, <4>2, <4>4
    <3>4. Blocking!Received' = {t'}
      BY <1>1, <1>3, <2>4, <3>2, Zenon DEF Blocking!Received
    <3>. QED
      BY <1>1, <1>3, <3>1, <3>2, <3>3, <3>4 DEF BodyIsThere
  <2>5. BodyIsThere'
    BY <2>3, <2>4
  <2>6. bpc' = "receive"
    BY <1>1, <1>7
  <2>. QED
    BY <1>5, <2>5, <2>6 DEF WriterInv, Afterwards
<1>. QED
  BY <1>6, <1>7

\* Of the data of a part, n tokens are offered to the write loop.
LEMMA Offered ==
  ASSUME NEW b \in Seq(Tokens), NEW n \in 1..Len(b), Blocking!Offer(b, n)
  PROVE  /\ bbuffer' \in Seq(Tokens) /\ bchunk' \in Seq(Tokens)
         /\ bchunk' = IF Blocking!Chunked THEN Chunk(SubSeq(b, 1, n)) ELSE SubSeq(b, 1, n)
<1>1. SubSeq(b, 1, n) \in Seq(Tokens)
  <2>1. \A i \in 1..n : b[i] \in Tokens
    <3>1. \A i \in 1..Len(b) : b[i] \in Tokens
      BY ElementOfSeq
    <3>. QED
      BY <3>1, LenProperties
  <2>2. 1 \in Int /\ n \in Int
    OBVIOUS
  <2>. QED
    BY <2>1, <2>2, SubSeqProperties
<1>2. CASE Blocking!Chunked
  <2>1. /\ bbuffer' = Blocking!Decorated(b, n)
        /\ bchunk' = SubSeq(Blocking!Decorated(b, n), 1, n + 3)
    BY <1>2 DEF Blocking!Offer
  <2>2. /\ Blocking!Decorated(b, n) \in Seq(Tokens)
        /\ SubSeq(Blocking!Decorated(b, n), 1, n + 3) = Chunk(SubSeq(b, 1, n))
    BY DecoratedIsChunk
  <2>3. Chunk(SubSeq(b, 1, n)) \in Seq(Tokens)
    BY <1>1, ChunkType
  <2>. QED
    BY <1>2, <2>1, <2>2, <2>3, Zenon
<1>3. CASE ~Blocking!Chunked
  <2>1. bbuffer' = b /\ bchunk' = SubSeq(b, 1, n)
    BY <1>3 DEF Blocking!Offer
  <2>. QED
    BY <1>1, <1>3, <2>1, Zenon
<1>. QED
  BY <1>2, <1>3

\* What is taken of a part and what is left of it.
LEMMA CutInTwo ==
  ASSUME NEW b \in Seq(Tokens), NEW n \in 1..Len(b)
  PROVE  /\ SubSeq(b, 1, n) \in Seq(Tokens) /\ SubSeq(b, n + 1, Len(b)) \in Seq(Tokens)
         /\ SubSeq(b, 1, n) \o SubSeq(b, n + 1, Len(b)) = b
         /\ Len(SubSeq(b, 1, n)) = n /\ SubSeq(b, 1, n) # <<>>
<1>. DEFINE L == Len(b)
            s == SubSeq(b, 1, n)
<1>1. L \in Nat /\ \A i \in 1..L : b[i] \in Tokens
  BY LenProperties, ElementOfSeq
<1>2. \A i \in 1..n : b[i] \in Tokens
  BY <1>1
<1>3. \A i \in (n + 1)..L : b[i] \in Tokens
  BY <1>1
<1>4. n \in Int /\ n + 1 \in Int /\ L \in Int /\ 1 \in Int /\ n >= 1
  BY <1>1
<1>5. /\ s \in Seq(Tokens) /\ SubSeq(b, n + 1, L) \in Seq(Tokens)
      /\ Len(s) = IF 1 <= n THEN n - 1 + 1 ELSE 0
  BY <1>2, <1>3, <1>4, SubSeqProperties
<1>6. 1 \in 1..(L + 1) /\ n \in (1 - 1)..L /\ L \in n..L
  BY <1>1
<1>7. s \o SubSeq(b, n + 1, L) = SubSeq(b, 1, L)
  BY <1>6, ConcatAdjacentSubSeq
<1>8. SubSeq(b, 1, L) = b
  BY SubSeqFull
<1>. HIDE DEF s
<1>9. Len(s) = n /\ s # <<>>
  <2>1. Len(s) = n /\ n # 0
    BY <1>4, <1>5
  <2>2. Len(<<>>) = 0
    BY EmptySeq
  <2>. QED
    BY <2>1, <2>2
<1>. QED
  BY <1>5, <1>7, <1>8, <1>9 DEF s

\* The chunk of a part, with the buffer's old contents behind it or without.
LEMMA OfferedOfPart ==
  ASSUME NEW part1 \in SyncParts, NEW n \in 1..Len(part1.data), bbuffer \in Seq(Tokens),
         IF part1.stream
           THEN Blocking!Offer(SubSeq(part1.data, 1, n)
                  \o SubSeq(Blocking!Resized(bbuffer), n + 1, ChunkBufferSize), n)
           ELSE Blocking!Offer(part1.data, n)
  PROVE  /\ bbuffer' \in Seq(Tokens) /\ bchunk' \in Seq(Tokens)
         /\ bchunk' = IF Blocking!Chunked THEN Chunk(SubSeq(part1.data, 1, n))
                      ELSE SubSeq(part1.data, 1, n)
<1>. DEFINE b == part1.data
            s == SubSeq(b, 1, n)
            old == Blocking!Resized(bbuffer)
            x == SubSeq(old, n + 1, ChunkBufferSize)
            u == s \o x
<1>1. b \in Seq(Tokens)
  BY DEF SyncParts
<1>. HIDE DEF b
<1>2. s \in Seq(Tokens) /\ Len(s) = n
  BY <1>1, CutInTwo DEF b
<1>3. CASE part1.stream
  <2>1. old \in Seq(Tokens) /\ Len(old) = ChunkBufferSize
    BY ResizedType
  <2>2. n \in Nat /\ n >= 1 /\ ChunkBufferSize \in Nat
    BY <1>1, LenProperties, ExchangesAssumption DEF b
  <2>. HIDE DEF old, s
  <2>3. x \in Seq(Tokens)
    <3>1. \A i \in (n + 1)..ChunkBufferSize : old[i] \in Tokens
      <4>1. \A i \in 1..Len(old) : old[i] \in Tokens
        BY <2>1, ElementOfSeq
      <4>. QED
        BY <2>1, <2>2, <4>1
    <3>2. n + 1 \in Int /\ ChunkBufferSize \in Int
      BY <2>2
    <3>. QED
      BY <3>1, <3>2, SubSeqProperties
  <2>. HIDE DEF x
  <2>4. u \in Seq(Tokens) /\ Len(u) = Len(s) + Len(x) /\ Len(x) \in Nat
    BY <1>2, <2>3, ConcatProperties, LenProperties
  <2>5. SubSeq(u, 1, n) = s
    <3>1. 1 \in 1..Len(s) /\ n \in 1..Len(s)
      BY <1>2, <2>2
    <3>2. SubSeq(s \o x, 1, n) = SubSeq(s, 1, n)
      BY <1>2, <2>3, <3>1, SubSeqOfConcat1
    <3>3. SubSeq(s, 1, n) = s
      BY <1>2, SubSeqFull
    <3>. QED
      BY <3>2, <3>3
  <2>6. n \in 1..Len(u)
    <3>. HIDE DEF u
    <3>. QED
      BY <1>2, <2>2, <2>4
  <2>7. Blocking!Offer(u, n)
    BY <1>3 DEF u, s, x, old, b
  <2>. HIDE DEF u
  <2>8. /\ bbuffer' \in Seq(Tokens) /\ bchunk' \in Seq(Tokens)
        /\ bchunk' = IF Blocking!Chunked THEN Chunk(SubSeq(u, 1, n)) ELSE SubSeq(u, 1, n)
    BY <2>4, <2>6, <2>7, Offered
  <2>. QED
    BY <2>5, <2>8, Zenon DEF s, b
<1>4. CASE ~part1.stream
  <2>1. Blocking!Offer(b, n) /\ n \in 1..Len(b)
    BY <1>4 DEF b
  <2>. QED
    BY <1>1, <2>1, Offered DEF b
<1>. QED
  BY <1>3, <1>4

\* A part is taken, or the end of the body is.
LEMMA TakeStep ==
  ASSUME WriterInv, Blocking!TakeBuffer PROVE WriterInv'
<1>. DEFINE rest == Blocking!Remaining
            u == wire \o bchunk
<1>1. /\ bpc = "take" /\ bpc' = "write" /\ UNCHANGED <<breq, total, wire>>
  BY DEF Blocking!TakeBuffer
<1>2. /\ WriterTypeOK /\ WritingInv /\ bchunk = <<>> /\ ~finished
      /\ Blocking!Prepared.kind = "stream"
      /\ total = Blocking!TotalLengthOf(Blocking!Prepared.len)
  BY <1>1 DEF WriterInv
<1>3. /\ Blocking!Prepared' = Blocking!Prepared /\ Meaning' = Meaning
      /\ Blocking!Chunked' <=> Blocking!Chunked
  BY <1>1, SameRequest
<1>4. /\ rest \in Seq(SyncParts) /\ Blocking!Contents(rest) = Blocking!Contents(bparts)
      /\ rest # <<>> => Head(rest).data # <<>>
  BY <1>2, RemainingParts DEF WriterTypeOK
<1>5. wire \in Seq(Tokens) /\ u = wire
  <2>1. wire \in Seq(Tokens)
    BY <1>2 DEF WriterTypeOK
  <2>. QED
    BY <1>2, <2>1, ConcatEmptySeq
<1>6. SUFFICES /\ WriterTypeOK' /\ WritingInv' /\ (finished' => bparts' = <<>>)
  BY <1>1, <1>2, <1>3 DEF WriterInv, Afterwards
<1>7. CASE rest = <<>>
  <2>1. /\ finished' = TRUE /\ bparts' = <<>> /\ UNCHANGED bbuffer
        /\ bchunk' = IF Blocking!Chunked THEN Blocking!LastChunk ELSE <<>>
    BY <1>7 DEF Blocking!TakeBuffer, Blocking!If
  <2>2. <<>> \in Seq(Tokens) /\ <<>> \in Seq(SyncParts)
    BY EmptySeq
  <2>3. bchunk' \in Seq(Tokens)
    BY <2>1, <2>2, LastChunkIsRead, Zenon
  <2>4. WriterTypeOK'
    BY <1>1, <1>2, <2>1, <2>2, <2>3 DEF WriterTypeOK
  <2>5. Blocking!Contents(bparts) = <<>>
    BY <1>4, <1>7, ContentsNone
  <2>6. ASSUME Blocking!Chunked PROVE WritingInv'
    <3>1. PICK sent \in Seq(Tokens) :
            sent \o Blocking!Contents(bparts) = Meaning /\ HasRead(wire \o bchunk, sent)
      BY <1>2, <2>6, Zenon DEF WritingInv
    <3>2. sent = Meaning /\ HasRead(wire, sent)
      <4>1. sent \o <<>> = sent
        BY ConcatEmptySeq
      <4>. QED
        BY <1>5, <2>5, <3>1, <4>1, Zenon
    <3>3. Blocking!Unchunked(wire \o Blocking!LastChunk) = {sent}
      BY <1>5, <3>2, HasReadAll
    <3>4. Blocking!Unchunked(wire' \o bchunk') = {Meaning'}
      BY <1>1, <1>3, <2>1, <2>6, <3>2, <3>3, Zenon
    <3>. QED
      BY <1>3, <2>1, <2>6, <3>4, Zenon DEF WritingInv
  <2>7. ASSUME ~Blocking!Chunked PROVE WritingInv'
    <3>1. (wire \o bchunk) \o Blocking!Contents(bparts) = Meaning
      BY <1>2, <2>7, Zenon DEF WritingInv
    <3>2. bchunk' = bchunk /\ Blocking!Contents(bparts') = Blocking!Contents(bparts)
      BY <1>2, <2>1, <2>5, <2>7, ContentsNone, Zenon
    <3>3. (wire' \o bchunk') \o Blocking!Contents(bparts') = Meaning'
      BY <1>1, <1>3, <3>1, <3>2, Zenon
    <3>. QED
      BY <1>3, <2>7, <3>3, Zenon DEF WritingInv
  <2>. QED
    BY <2>1, <2>4, <2>6, <2>7
<1>8. CASE rest # <<>>
  <2>. DEFINE p == Head(rest)
              d == p.data
              after(n) == [rest EXCEPT ![1].data = SubSeq(@, n + 1, Len(@))]
  <2>1. p \in SyncParts /\ d \in Seq(Tokens) /\ d # <<>> /\ Tail(rest) \in Seq(SyncParts)
    <3>1. p \in SyncParts /\ Tail(rest) \in Seq(SyncParts) /\ d # <<>>
      <4>. HIDE DEF rest
      <4>. QED
        BY <1>4, <1>8, HeadTailProperties
    <3>. QED
      BY <3>1 DEF SyncParts
  <2>2. Len(d) \in Nat /\ Len(d) >= 1
    <3>. HIDE DEF d
    <3>. QED
      BY <2>1, LenProperties, EmptySeq
  <2>3. PICK n \in IF p.stream
                     THEN 1..Blocking!Min({Blocking!MaxChunkSize, Len(d)})
                     ELSE {Len(d)} :
          /\ bparts' = after(n) /\ UNCHANGED finished
          /\ IF p.stream
               THEN Blocking!Offer(SubSeq(d, 1, n)
                      \o SubSeq(Blocking!Resized(bbuffer), n + 1, ChunkBufferSize), n)
               ELSE Blocking!Offer(d, n)
    BY <1>8, Zenon DEF Blocking!TakeBuffer
  <2>4. n \in 1..Len(d)
    <3>1. Blocking!MaxChunkSize \in Int /\ Len(d) \in Int
      BY <2>2, ExchangesAssumption DEF Blocking!MaxChunkSize, Blocking!Decoration
    <3>2. Blocking!Min({Blocking!MaxChunkSize, Len(d)})
            = IF Blocking!MaxChunkSize <= Len(d) THEN Blocking!MaxChunkSize ELSE Len(d)
      BY <3>1, MinOfTwo
    <3>. HIDE DEF d, p
    <3>. QED
      BY <2>2, <2>3, <3>1, <3>2
  <2>. DEFINE t == SubSeq(d, 1, n)
              left1 == SubSeq(d, n + 1, Len(d))
              others == Blocking!Contents(Tail(rest))
  <2>5. /\ bbuffer' \in Seq(Tokens) /\ bchunk' \in Seq(Tokens)
        /\ bchunk' = IF Blocking!Chunked THEN Chunk(t) ELSE t
    <3>1. bbuffer \in Seq(Tokens)
      BY <1>2 DEF WriterTypeOK
    <3>. QED
      BY <2>1, <2>3, <2>4, <3>1, OfferedOfPart
  <2>6. /\ t \in Seq(Tokens) /\ left1 \in Seq(Tokens) /\ t \o left1 = d /\ t # <<>>
    BY <2>1, <2>4, CutInTwo
  <2>7. bparts' \in Seq(SyncParts) /\ Blocking!Contents(bparts') = left1 \o others
    <3>. DEFINE q == [p EXCEPT !.data = left1]
                all == after(n)
    <3>1. q \in SyncParts /\ q.data = left1
      BY <2>1, <2>6 DEF SyncParts
    <3>2. rest # <<>> /\ Len(rest) \in Nat /\ Len(rest) >= 1 /\ p = rest[1]
          /\ \A i \in 1..Len(rest) : rest[i] \in SyncParts
      <4>. HIDE DEF rest
      <4>. QED
        BY <1>4, <1>8, LenProperties, ElementOfSeq, EmptySeq
    <3>3. all = [rest EXCEPT ![1] = q]
      BY <3>2
    <3>. HIDE DEF q, rest
    <3>4. /\ all \in Seq(SyncParts) /\ all # <<>> /\ Len(all) = Len(rest)
          /\ all[1] = q /\ \A i \in 2..Len(rest) : all[i] = rest[i]
      <4>1. 1 \in 1..Len(rest)
        BY <3>2
      <4>2. /\ [rest EXCEPT ![1] = q] \in Seq(SyncParts)
            /\ Len([rest EXCEPT ![1] = q]) = Len(rest)
            /\ \A j \in 1..Len(rest) :
                 [rest EXCEPT ![1] = q][j] = IF j = 1 THEN q ELSE rest[j]
        BY <1>4, <3>1, <4>1, ExceptSeq
      <4>3. /\ all \in Seq(SyncParts) /\ Len(all) = Len(rest)
            /\ \A j \in 1..Len(rest) : all[j] = IF j = 1 THEN q ELSE rest[j]
        BY <3>3, <4>2, Zenon
      <4>. HIDE DEF all
      <4>. QED
        BY <3>2, <4>3
    <3>. HIDE DEF all
    <3>5. Head(all) = q /\ Tail(all) = Tail(rest)
      <4>1. /\ Head(all) = q /\ Tail(all) \in Seq(SyncParts) /\ Len(Tail(all)) = Len(rest) - 1
            /\ \A i \in 1..(Len(rest) - 1) : Tail(all)[i] = all[i + 1]
        BY <3>2, <3>4, HeadTailProperties
      <4>2. /\ Tail(rest) \in Seq(SyncParts) /\ Len(Tail(rest)) = Len(rest) - 1
            /\ \A i \in 1..(Len(rest) - 1) : Tail(rest)[i] = rest[i + 1]
        BY <1>4, <3>2, HeadTailProperties
      <4>3. \A i \in 1..(Len(rest) - 1) : Tail(all)[i] = Tail(rest)[i]
        BY <3>2, <3>4, <4>1, <4>2
      <4>. QED
        BY <4>1, <4>2, <4>3, SeqEqual
    <3>6. Blocking!Contents(all) = Head(all).data \o Blocking!Contents(Tail(all))
      BY <3>4, ContentsHead
    <3>. QED
      BY <2>3, <3>1, <3>4, <3>5, <3>6, Zenon DEF all
  <2>8. Blocking!Contents(bparts) = t \o (left1 \o others) /\ others \in Seq(Tokens)
    <3>1. Blocking!Contents(rest) = d \o others
      BY <1>4, <1>8, ContentsHead
    <3>2. others \in Seq(Tokens)
      BY <2>1, ContentsType
    <3>. HIDE DEF others, left1, t
    <3>3. (t \o left1) \o others = t \o (left1 \o others)
      BY ONLY <2>6, <3>2, Associates
    <3>. QED
      BY <1>4, <2>6, <3>1, <3>2, <3>3, Zenon
  <2>. HIDE DEF t, left1, others, d, p, rest, after
  <2>9. WriterTypeOK'
    BY <1>1, <1>2, <2>3, <2>5, <2>7 DEF WriterTypeOK
  <2>10. left1 \o others \in Seq(Tokens)
    BY ONLY <2>6, <2>8, ConcatProperties
  <2>11. ASSUME Blocking!Chunked PROVE WritingInv'
    <3>1. PICK sent \in Seq(Tokens) :
            sent \o Blocking!Contents(bparts) = Meaning /\ HasRead(wire \o bchunk, sent)
      BY <1>2, <2>11, Zenon DEF WritingInv
    <3>2. HasRead(wire \o Chunk(t), sent \o t)
      <4>1. HasRead(wire, sent)
        BY <1>5, <3>1, Zenon
      <4>. QED
        BY <1>5, <2>6, <4>1, HasReadChunk
    <3>3. (sent \o t) \o (left1 \o others) = sent \o (t \o (left1 \o others))
      <4>1. sent \in Seq(Tokens)
        OBVIOUS
      <4>. QED
        BY ONLY <2>6, <2>10, <4>1, Associates
    <3>4. sent \o t \in Seq(Tokens)
      <4>1. sent \in Seq(Tokens)
        OBVIOUS
      <4>. QED
        BY ONLY <2>6, <4>1, ConcatProperties
    <3>5. (sent \o t) \o Blocking!Contents(bparts') = Meaning'
      BY <1>3, <2>7, <2>8, <3>1, <3>3, Zenon
    <3>6. HasRead(wire' \o bchunk', sent \o t)
      BY <1>1, <2>5, <2>11, <3>2, Zenon
    <3>7. \E more \in Seq(Tokens) :
            /\ more \o Blocking!Contents(bparts') = Meaning'
            /\ HasRead(wire' \o bchunk', more)
      BY <3>4, <3>5, <3>6
    <3>. QED
      BY <1>2, <1>3, <2>3, <2>11, <3>7, Zenon DEF WritingInv
  <2>12. ASSUME ~Blocking!Chunked PROVE WritingInv'
    <3>1. wire \o (t \o (left1 \o others)) = Meaning
      BY <1>2, <1>5, <2>8, <2>12, Zenon DEF WritingInv
    <3>2. (wire \o t) \o (left1 \o others) = wire \o (t \o (left1 \o others))
      BY ONLY <1>5, <2>6, <2>10, Associates
    <3>3. (wire' \o bchunk') \o Blocking!Contents(bparts') = Meaning'
      BY <1>1, <1>3, <2>5, <2>7, <2>12, <3>1, <3>2, Zenon
    <3>. QED
      BY <1>3, <2>12, <3>3, Zenon DEF WritingInv
  <2>13. ~finished'
    BY <1>2, <2>3
  <2>. QED
    BY <2>9, <2>11, <2>12, <2>13
<1>. QED
  BY <1>7, <1>8

LEMMA WriterNext ==
  ASSUME BodiesFit, WriterInv, [Blocking!Next]_(Blocking!vars) PROVE WriterInv'
<1>1. CASE Blocking!Send
  BY <1>1, SendStep
<1>2. CASE Blocking!TakeBuffer
  BY <1>2, TakeStep
<1>3. CASE Blocking!WriteData
  BY <1>3, WriteStep
<1>4. CASE Blocking!Advance
  BY <1>4, AdvanceStep
<1>5. CASE \/ Blocking!Configure \/ Blocking!CreateRequest \/ Blocking!Fail
           \/ Blocking!Read \/ UNCHANGED Blocking!vars
  <2>1. UNCHANGED <<breq, wire, bchunk, bbuffer, bparts, finished, total>>
    BY <1>5 DEF Blocking!Configure, Blocking!CreateRequest, Blocking!Fail, Blocking!Read,
                Blocking!vars, Blocking!writerVars
  <2>2. bpc' = bpc \/ bpc' = "failed" \/ (bpc = "session" /\ bpc' = "create")
    BY <1>5 DEF Blocking!Configure, Blocking!CreateRequest, Blocking!Fail, Blocking!Read,
                Blocking!vars
  <2>. QED
    BY <2>1, <2>2, WriterRests
<1>6. CASE \/ Blocking!Receive \/ Blocking!StartBytes \/ Blocking!ReadMore
           \/ Blocking!ReadAll \/ Blocking!QueryHeader
  <2>1. UNCHANGED <<breq, wire, bchunk, bbuffer, bparts, finished, total>>
    BY <1>6 DEF Blocking!Receive, Blocking!StartBytes, Blocking!ReadMore, Blocking!ReadAll,
                Blocking!QueryHeader, Blocking!writerVars
  <2>2. bpc' = bpc \/ (bpc \in Afterwards /\ bpc' \in Afterwards)
    BY <1>6 DEF Blocking!Receive, Blocking!StartBytes, Blocking!ReadMore, Blocking!ReadAll,
                Blocking!QueryHeader, Afterwards
  <2>. QED
    BY <2>1, <2>2, WriterRests
<1>. QED
  BY <1>1, <1>2, <1>3, <1>4, <1>5, <1>6 DEF Blocking!Next

\* What the server takes apart is what the caller meant, exactly as long as announced, for
\* every body, every size of the reads and every short write.  RequestHandle::send cuts a
\* length to 32 bits and has its caller ensure that it fits; prepare_body does for bytes,
\* and nothing does for a form: hence BodiesFit.
THEOREM WinHttpServerReadsTheBody ==
  ASSUME BodiesFit PROVE ExchangesSpec => []ServerReadsTheBody
<1>1. ExchangesInit => WriterInv
  BY WriterInit DEF ExchangesInit
<1>2. WriterInv /\ [ExchangesNext]_ExchangesVars => WriterInv'
  BY WriterNext, BlockingStep
<1>3. WriterInv => ServerReadsTheBody
  BY DEF WriterInv, Afterwards, BodyIsThere, Meaning, ServerReadsTheBody,
         Blocking!ServerReadsTheBody
<1>. QED
  BY <1>1, <1>2, <1>3, PTL DEF ExchangesSpec

=============================================================================
