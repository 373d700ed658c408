---------------------------- MODULE UploadsProofs ----------------------------
(***************************************************************************)
(* Proofs about request bodies: curl's asynchronous uploads implement a    *)
(* ByteStream for every stream of a request, and so do the bodies of       *)
(* reqwest, WinRT and NSURLSession.  Each part has an inductive invariant, *)
(* for streams, bodies and buffers of any number and size.                 *)
(***************************************************************************)
EXTENDS Uploads, SequenceLemmas

-----------------------------------------------------------------------------
(* curl's upload: bytes of a stream.                                       *)

\* BytesAt(p, n) is a sequence of n bytes.
LEMMA BytesAtIsSeq ==
  ASSUME NEW p \in Nat, NEW n \in Nat
  PROVE  /\ BytesAt(p, n) \in Seq(Int)
         /\ Len(BytesAt(p, n)) = n
         /\ \A k \in 1..n : BytesAt(p, n)[k] = p + k - 1
  BY DEF BytesAt

\* What follows the first bytes of a stream are its next bytes.
LEMMA BytesAtConcat ==
  ASSUME NEW p \in Nat, NEW n \in Nat, NEW m \in Nat
  PROVE  BytesAt(p, n) \o BytesAt(p + n, m) = BytesAt(p, n + m)
  BY DEF BytesAt

\* A part of a stream's bytes is the bytes of that part.
LEMMA BytesAtSub ==
  ASSUME NEW p \in Nat, NEW n \in Nat, NEW i \in 1..n + 1, NEW j \in 0..n, i <= j + 1
  PROVE  SubSeq(BytesAt(p, n), i, j) = BytesAt(p + i - 1, j + 1 - i)
  BY DEF BytesAt

\* No bytes.
LEMMA BytesAtNone ==
  ASSUME NEW p \in Nat
  PROVE  BytesAt(p, 0) = << >>
  BY DEF BytesAt

LEMMA MinOfTwo ==
  ASSUME NEW a \in Nat, NEW b \in Nat
  PROVE  /\ Min({a, b}) \in {a, b}
         /\ Min({a, b}) <= a /\ Min({a, b}) <= b
<1>1. \E x \in {a, b} : \A y \in {a, b} : x <= y
  BY a <= b \/ b <= a
<1>. QED
  BY <1>1 DEF Min

-----------------------------------------------------------------------------
(* curl's upload: the inductive invariant.                                 *)

Requests == {Ready, Fail, Eof} \cup {Read(n) : n \in Nat \ {0}} \cup {Seek(0)}

\* How a stream's request r, its buffer b, the position p of the caller's stream
\* and curl's share x of it fit.  While no callback waits, the buffer holds the bytes
\* between curl's and the stream's position; the bytes of a buffer that is being read
\* into say nothing.
Fits(r, b, p, x) ==
  /\ r \in Requests /\ b \in Seq(Int) /\ p \in 0..Size
  /\ Len(x) \in 0..Size /\ x = BytesAt(0, Len(x))
  /\ r \in {Ready, Eof} => b = BytesAt(Len(x), Len(b)) /\ p = Len(x) + Len(b)
  /\ r = Eof => p = Size
  /\ r.kind = "Read" => p = Len(x)
  /\ r.kind = "Seek" => x = << >> /\ b = << >>

Functions ==
  /\ req \in [Streams -> Requests] /\ buf \in [Streams -> Seq(Int)]
  /\ pos \in [Streams -> 0..Size] /\ sent \in [Streams -> Seq(Int)]
  /\ transfer \in {"sending", "sent", "failed", "removed"}

StreamsFit == \A s \in Streams : Fits(req[s], buf[s], pos[s], sent[s])

SentWhole == transfer = "sent" => \A s \in Streams : Len(sent[s]) = Size

Inv == Functions /\ StreamsFit /\ SentWhole /\ FailEndsTheFuture

-----------------------------------------------------------------------------
(* curl's upload: what the steps do to one stream.                         *)

\* Curl has the bytes before m, and the buffer those from m to p.
LEMMA FitsPlain ==
  ASSUME NEW r \in {Ready, Eof}, NEW p \in 0..Size, NEW m \in 0..p, r = Eof => p = Size
  PROVE  Fits(r, BytesAt(m, p - m), p, BytesAt(0, m))
<1>1. PICK x : x = BytesAt(0, m)
  OBVIOUS
<1>2. PICK b : b = BytesAt(m, p - m)
  OBVIOUS
<1>3. m \in 0..Size /\ m \in Nat /\ p - m \in Nat /\ p = m + (p - m)
  BY UploadAssumption
<1>4. Len(x) = m
  BY <1>1, <1>3, BytesAtIsSeq, 0 \in Nat
<1>5. Len(b) = p - m /\ b \in Seq(Int)
  BY <1>2, <1>3, BytesAtIsSeq
<1>6. r \in Requests /\ r.kind \notin {"Read", "Seek"}
  BY DEF Requests, Ready, Eof
<1>7. Fits(r, b, p, x)
  BY <1>1, <1>2, <1>3, <1>4, <1>5, <1>6 DEF Fits
<1>. QED
  BY <1>1, <1>2, <1>7

\* curl takes the first bytes of the buffer.
LEMMA FitsTake ==
  ASSUME NEW r \in {Ready, Eof}, NEW b, NEW p, NEW x, Fits(r, b, p, x),
         NEW k \in 1..Len(b)
  PROVE  /\ Fits(r, SubSeq(b, k + 1, Len(b)), p, x \o SubSeq(b, 1, k))
         /\ x \o SubSeq(b, 1, k) = BytesAt(0, Len(x) + k)
         /\ Len(x) + k \in 0..Size
<1>1. /\ Len(b) \in Nat /\ Len(x) \in Nat /\ p = Len(x) + Len(b) /\ p \in 0..Size
      /\ b = BytesAt(Len(x), Len(b)) /\ x = BytesAt(0, Len(x))
  BY LenProperties DEF Fits
<1>2. SubSeq(b, 1, k) = BytesAt(Len(x), k)
  <2>1. SubSeq(BytesAt(Len(x), Len(b)), 1, k) = BytesAt(Len(x) + 1 - 1, k + 1 - 1)
    BY <1>1, BytesAtSub, 1 \in 1..Len(b) + 1, k \in 0..Len(b), 1 <= k + 1
  <2>2. Len(x) + 1 - 1 = Len(x) /\ k + 1 - 1 = k
    BY <1>1
  <2>. QED
    BY <1>1, <2>1, <2>2
<1>3. SubSeq(b, k + 1, Len(b)) = BytesAt(Len(x) + k, Len(b) - k)
  <2>1. SubSeq(BytesAt(Len(x), Len(b)), k + 1, Len(b))
          = BytesAt(Len(x) + (k + 1) - 1, Len(b) + 1 - (k + 1))
    BY <1>1, BytesAtSub, k + 1 \in 1..Len(b) + 1, Len(b) \in 0..Len(b), k + 1 <= Len(b) + 1
  <2>2. Len(x) + (k + 1) - 1 = Len(x) + k /\ Len(b) + 1 - (k + 1) = Len(b) - k
    BY <1>1
  <2>. QED
    BY <1>1, <2>1, <2>2
<1>4. x \o SubSeq(b, 1, k) = BytesAt(0, Len(x) + k)
  <2>1. BytesAt(0, Len(x)) \o BytesAt(0 + Len(x), k) = BytesAt(0, Len(x) + k)
    BY <1>1, BytesAtConcat, 0 \in Nat, k \in Nat
  <2>2. 0 + Len(x) = Len(x)
    BY <1>1
  <2>. QED
    BY <1>1, <1>2, <2>1, <2>2
<1>5. Fits(r, BytesAt(Len(x) + k, p - (Len(x) + k)), p, BytesAt(0, Len(x) + k))
  <2>1. Len(x) + k \in 0..p /\ (r = Eof => p = Size)
    BY <1>1 DEF Fits
  <2>. QED
    BY <1>1, <2>1, FitsPlain
<1>6. p - (Len(x) + k) = Len(b) - k /\ Len(x) + k \in 0..Size
  BY <1>1, UploadAssumption
<1>7. Fits(r, BytesAt(Len(x) + k, Len(b) - k), p, BytesAt(0, Len(x) + k))
  BY <1>5, <1>6, Zenon
<1>8. Fits(r, SubSeq(b, k + 1, Len(b)), p, x \o SubSeq(b, 1, k))
  BY <1>3, <1>4, <1>7, Zenon
<1>. QED
  BY <1>4, <1>6, <1>8

\* curl finds an empty buffer and leaves a request in the state.
LEMMA FitsAsk ==
  ASSUME NEW b, NEW p, NEW x, Fits(Ready, b, p, x), Len(b) = 0, NEW n \in Nat \ {0}
  PROVE  Fits(Read(n), b, p, x)
<1>1. p = Len(x) /\ b \in Seq(Int) /\ p \in 0..Size /\ Len(x) \in 0..Size
      /\ x = BytesAt(0, Len(x))
  BY DEF Fits
<1>2. Read(n) \in Requests /\ Read(n).kind = "Read" /\ Read(n) \notin {Ready, Eof}
  BY DEF Requests, Read, Ready, Eof
<1>. QED
  BY <1>1, <1>2 DEF Fits

\* What a poll may leave of a stream: the same, a failure, a padded buffer, the next
\* bytes, or the start of the stream.
LEMMA PollOutcomes ==
  ASSUME NEW s \in Streams, NEW o \in PollOne(s)
  PROVE  \/ o = Keep(s)
         \/ req[s].kind = "Read" /\ o \in ReadOutcomes(s)
         \/ req[s].kind = "Seek" /\ o \in SeekOutcomes(s)
<1>1. CASE req[s].kind = "Read"
  <2>1. PollOne(s) = ReadOutcomes(s)
    BY <1>1, Zenon DEF PollOne
  <2>. QED
    BY <1>1, <2>1
<1>2. CASE req[s].kind = "Seek"
  <2>1. req[s].kind # "Read"
    BY <1>2
  <2>2. PollOne(s) = SeekOutcomes(s)
    BY <1>2, <2>1, Zenon DEF PollOne
  <2>. QED
    BY <1>2, <2>2
<1>3. CASE req[s].kind # "Read" /\ req[s].kind # "Seek"
  <2>1. PollOne(s) = {Keep(s)}
    BY <1>3, Zenon DEF PollOne
  <2>. QED
    BY <2>1
<1>. QED
  BY <1>1, <1>2, <1>3

\* A failed stream's buffer and position no longer matter.
LEMMA FitsFail ==
  ASSUME NEW r, NEW b, NEW p, NEW x, Fits(r, b, p, x), NEW c \in Seq(Int)
  PROVE  Fits(Fail, c, p, x)
<1>1. /\ Fail \in Requests /\ Fail \notin {Ready, Eof}
      /\ Fail.kind \notin {"Read", "Seek"}
  BY DEF Requests, Fail, Ready, Eof
<1>. QED
  BY <1>1 DEF Fits

LEMMA FitsPoll ==
  ASSUME NEW s \in Streams, NEW o \in PollOne(s),
         Size \in Nat, Fits(req[s], buf[s], pos[s], sent[s])
  PROVE  Fits(o.req, o.buf, o.pos, sent[s])
<1>. DEFINE r == req[s] b == buf[s] p == pos[s] x == sent[s]
<1>f. /\ r \in Requests /\ b \in Seq(Int) /\ p \in 0..Size
      /\ Len(x) \in 0..Size /\ x = BytesAt(0, Len(x))
      /\ r.kind = "Read" => p = Len(x)
      /\ r.kind = "Seek" => x = << >> /\ b = << >>
  BY DEF Fits
<1>1. CASE o = Keep(s)
  BY <1>1 DEF Keep, Outcome
<1>2. CASE r.kind = "Read" /\ o \in ReadOutcomes(s)
  <2>1. r.n \in Nat \ {0} /\ r = Read(r.n)
    BY <1>2, <1>f DEF Requests, Read, Ready, Fail, Eof, Seek
  <2>2. Padded(s) \in Seq(Int)
    <3>1. Len(b) \in Nat /\ \A k \in 1..Len(b) : b[k] \in Int
      BY <1>f, ElementOfSeq, LenProperties
    <3>2. Padded(s) \in [1..r.n -> Int]
      BY <2>1, <3>1 DEF Padded, Junk
    <3>. QED
      BY <2>1, <3>2, IsASeq
  <2>3. CASE o = Outcome(r, Padded(s), p, TRUE)
    <3>1. r \notin {Ready, Eof} /\ r # Eof /\ r.kind # "Seek"
      BY <1>2 DEF Ready, Eof
    <3>. QED
      BY <1>2, <1>f, <2>2, <2>3, <3>1 DEF Fits, Outcome
  <2>4. CASE o = Outcome(Fail, Padded(s), p, FALSE)
    BY <2>2, <2>4, FitsFail DEF Outcome
  <2>5. ASSUME NEW n \in Nat, n <= Size - p, n = 0 => p = Size,
               o = Outcome(Served(s, n), BytesAt(p, n), p + n, FALSE)
        PROVE  Fits(o.req, o.buf, o.pos, x)
    <3>1. /\ p \in 0..p + n /\ p + n \in 0..Size /\ (p + n) - p = n
          /\ p = Len(x) /\ (n = 0 => p + n = Size)
      BY <1>2, <1>f, <2>5
    <3>2. /\ Served(s, n) \in {Ready, Eof}
          /\ Served(s, n) = Eof => n = 0
      BY DEF Served, Ready, Eof
    <3>3. Fits(Served(s, n), BytesAt(p, (p + n) - p), p + n, BytesAt(0, p))
      BY <3>1, <3>2, FitsPlain
    <3>. QED
      BY <1>f, <2>5, <3>1, <3>3 DEF Outcome
  <2>6. PICK most : most = Min({r.n, Size - p})
    OBVIOUS
  <2>7. most \in {r.n, Size - p} /\ most <= Size - p
    BY <1>f, <2>1, <2>6, MinOfTwo, Size - p \in Nat
  <2>8. ASSUME NEW n \in IF most = 0 THEN {0} ELSE 1..most
        PROVE  n \in Nat /\ n <= Size - p /\ (n = 0 => p = Size)
    BY <1>f, <2>1, <2>7
  <2>. QED
    BY <1>2, <2>3, <2>4, <2>5, <2>6, <2>8 DEF ReadOutcomes
<1>3. CASE r.kind = "Seek" /\ o \in SeekOutcomes(s)
  <2>1. r = Seek(0)
    BY <1>3, <1>f DEF Requests, Read, Ready, Fail, Eof, Seek
  <2>2. CASE o = Outcome(r, b, p, TRUE)
    BY <2>2 DEF Outcome
  <2>3. CASE o = Outcome(Fail, b, p, FALSE)
    BY <1>f, <2>3, FitsFail DEF Outcome
  <2>4. CASE o = Outcome(Ready, b, r.n, FALSE)
    <3>1. o.req = Ready /\ o.buf = << >> /\ o.pos = 0 /\ x = << >> /\ r.n = 0
      BY <1>3, <1>f, <2>1, <2>4 DEF Outcome, Seek
    <3>2. /\ BytesAt(0, 0) = << >> /\ Len(<< >>) = 0 /\ << >> \in Seq(Int)
      BY BytesAtNone
    <3>3. Ready \in Requests /\ Ready # Eof /\ Ready.kind \notin {"Read", "Seek"}
      BY DEF Requests, Ready, Eof
    <3>. QED
      BY <3>1, <3>2, <3>3 DEF Fits
  <2>. QED
    BY <1>3, <2>2, <2>3, <2>4 DEF SeekOutcomes
<1>. QED
  BY <1>1, <1>2, <1>3, PollOutcomes

-----------------------------------------------------------------------------
(* curl's upload: the invariant is inductive.                              *)

LEMMA InvInit == Init => Inv
<1>. SUFFICES ASSUME Init PROVE Inv
  OBVIOUS
<1>1. 0 \in 0..Size /\ Size \in Nat
  BY UploadAssumption
<1>2. Ready \in Requests /\ Ready # Eof /\ Ready # Fail
  BY DEF Requests, Ready, Eof, Fail
<1>3. Functions
  BY <1>1, <1>2 DEF Init, Functions
<1>4. StreamsFit
  <2>. SUFFICES ASSUME NEW s \in Streams PROVE Fits(req[s], buf[s], pos[s], sent[s])
    BY DEF StreamsFit
  <2>1. Fits(Ready, BytesAt(0, 0 - 0), 0, BytesAt(0, 0))
    BY <1>1, <1>2, FitsPlain
  <2>2. BytesAt(0, 0 - 0) = << >> /\ BytesAt(0, 0) = << >>
    BY BytesAtNone
  <2>3. req[s] = Ready /\ buf[s] = << >> /\ pos[s] = 0 /\ sent[s] = << >>
    BY DEF Init
  <2>. QED
    BY <2>1, <2>2, <2>3, Zenon
<1>5. SentWhole
  BY DEF Init, SentWhole
<1>6. FailEndsTheFuture
  BY <1>2 DEF Init, FailEndsTheFuture
<1>. QED
  BY <1>3, <1>4, <1>5, <1>6 DEF Inv

\* A step that leaves the streams, the transfer and the future alone.
LEMMA InvFrame ==
  ASSUME Inv, UNCHANGED <<req, buf, pos, sent>>,
         transfer' = transfer \/ transfer' \in {"failed", "removed"},
         fut' = fut \/ fut' # "running"
  PROVE  Inv'
  BY DEF Inv, Functions, StreamsFit, SentWhole, FailEndsTheFuture

LEMMA InvReadCallback ==
  ASSUME Inv, NEW n \in 1..MaxRead, ReadCallback(n)
  PROVE  Inv'
<1>. DEFINE s == Current
            len == Min({n, Len(buf[s])})
<1>1. CASE \/ req[s] = Fail /\ transfer' = "failed" /\ UNCHANGED <<req, buf, paused, sent>>
           \/ req[s].kind \in {"Read", "Seek"} /\ UNCHANGED <<req, buf, asleep, sent, transfer>>
           \/ req[s] = Eof /\ transfer' = "failed" /\ UNCHANGED <<req, buf, paused, sent>>
  BY <1>1, InvFrame DEF ReadCallback
<1>2. CASE req[s] = Ready /\ len = 0 /\ req' = [req EXCEPT ![s] = Read(n)]
           /\ UNCHANGED <<buf, sent, transfer>>
  <2>1. UNCHANGED <<pos, fut>>
    BY DEF ReadCallback
  <2>2. CASE s \notin Streams
    <3>1. req' = req
      BY <1>2, <2>2 DEF Inv, Functions
    <3>. QED
      BY <1>2, <2>1, <3>1, InvFrame
  <2>3. CASE s \in Streams
    <3>1. Len(buf[s]) \in Nat /\ n \in Nat \ {0}
      BY <2>3, UploadAssumption, LenProperties DEF Inv, Functions
    <3>2. Len(buf[s]) = 0
      BY <1>2, <3>1, MinOfTwo
    <3>3. Fits(Read(n), buf[s], pos[s], sent[s])
      BY <1>2, <2>3, <3>1, <3>2, FitsAsk DEF Inv, StreamsFit
    <3>4. Read(n) \in Requests /\ Read(n) # Fail
      BY <3>1 DEF Requests, Read, Fail
    <3>5. Functions'
      BY <1>2, <2>1, <3>4 DEF Inv, Functions
    <3>6. StreamsFit'
      BY <1>2, <2>1, <2>3, <3>3 DEF Inv, Functions, StreamsFit
    <3>7. SentWhole'
      BY <1>2 DEF Inv, SentWhole
    <3>8. FailEndsTheFuture'
      BY <1>2, <2>1, <3>4 DEF Inv, Functions, FailEndsTheFuture
    <3>. QED
      BY <3>5, <3>6, <3>7, <3>8 DEF Inv
  <2>. QED
    BY <2>2, <2>3
<1>3. CASE req[s] \in {Ready, Eof} /\ len > 0 /\ Take(s, len) /\ UNCHANGED <<req, transfer>>
  <2>1. UNCHANGED <<pos, fut>>
    BY DEF ReadCallback
  <2>2. CASE s \notin Streams
    <3>1. sent' = sent /\ buf' = buf
      BY <1>3, <2>2 DEF Inv, Functions, Take
    <3>. QED
      BY <1>3, <2>1, <3>1, InvFrame
  <2>3. CASE s \in Streams
    <3>1. Len(buf[s]) \in Nat /\ n \in Nat
      BY <2>3, UploadAssumption, LenProperties DEF Inv, Functions
    <3>2. len \in 1..Len(buf[s])
      BY <1>3, <3>1, MinOfTwo
    <3>3. Fits(req[s], SubSeq(buf[s], len + 1, Len(buf[s])), pos[s],
               sent[s] \o SubSeq(buf[s], 1, len))
      <4>1. Fits(req[s], buf[s], pos[s], sent[s])
        BY <2>3 DEF Inv, StreamsFit
      <4>. QED
        BY <1>3, <3>2, <4>1, FitsTake
    <3>4. /\ sent'[s] = sent[s] \o SubSeq(buf[s], 1, len)
          /\ buf'[s] = SubSeq(buf[s], len + 1, Len(buf[s]))
          /\ \A t \in Streams \ {s} : sent'[t] = sent[t] /\ buf'[t] = buf[t]
      BY <1>3, <2>3 DEF Inv, Functions, Take
    <3>5. StreamsFit'
      BY <1>3, <2>1, <3>3, <3>4 DEF Inv, StreamsFit
    <3>6. Functions'
      <4>1. buf' \in [Streams -> Seq(Int)]
        BY <1>3, <3>5 DEF Inv, Functions, Take, StreamsFit, Fits
      <4>2. sent[s] \in Seq(Int) /\ SubSeq(buf[s], 1, len) \in Seq(Int)
        <5>1. buf[s] \in Seq(Int) /\ sent[s] \in Seq(Int)
          BY <2>3 DEF Inv, Functions
        <5>2. \A i \in 1..len : buf[s][i] \in Int
          BY <3>1, <3>2, <5>1, ElementOfSeq
        <5>3. 1 \in Int /\ len \in Int
          BY <3>1, <3>2
        <5>. HIDE DEF len
        <5>4. SubSeq(buf[s], 1, len) \in Seq(Int)
          BY <5>2, <5>3, SubSeqProperties
        <5>. QED
          BY <5>1, <5>4
      <4>3. sent' \in [Streams -> Seq(Int)]
        BY <1>3, <4>2, ConcatProperties DEF Inv, Functions, Take
      <4>. QED
        BY <1>3, <2>1, <4>1, <4>3 DEF Inv, Functions
    <3>7. transfer # "sent"
      BY DEF ReadCallback, Sending
    <3>. QED
      BY <1>3, <2>1, <3>5, <3>6, <3>7 DEF Inv, SentWhole, FailEndsTheFuture
  <2>. QED
    BY <2>2, <2>3
<1>. QED
  BY <1>1, <1>2, <1>3 DEF ReadCallback

\* A restart finds no byte in a buffer, and the streams that curl has not begun
\* have given none.
LEMMA InvRewind ==
  ASSUME Inv, ~RewindAnywhere, Rewind
  PROVE  Inv'
<1>. DEFINE begun == {s \in Streams : ~Untouched(s)}
<1>1. CASE transfer' = "failed" /\ UNCHANGED <<req, sent>>
  BY <1>1, InvFrame DEF Rewind
<1>2. CASE /\ req' = [s \in Streams |-> IF s \in begun THEN Seek(0) ELSE req[s]]
           /\ sent' = [s \in Streams |-> << >>]
           /\ UNCHANGED transfer
  <2>1. UNCHANGED <<buf, pos, fut>> /\ transfer = "sending"
    BY DEF Rewind
  <2>2. Seek(0) \in Requests /\ Seek(0) # Fail /\ << >> \in Seq(Int)
    BY DEF Requests, Seek, Fail
  <2>3. Functions'
    BY <1>2, <2>1, <2>2 DEF Inv, Functions
  <2>4. ASSUME NEW s \in Streams
        PROVE  Fits(req'[s], buf'[s], pos'[s], sent'[s])
    <3>1. Fits(req[s], buf[s], pos[s], sent[s])
      BY DEF Inv, StreamsFit
    <3>2. CASE s \notin begun
      <4>1. req'[s] = req[s] /\ buf'[s] = buf[s] /\ pos'[s] = pos[s] /\ sent'[s] = sent[s]
        BY <1>2, <2>1, <3>2 DEF Untouched
      <4>. QED
        BY <3>1, <4>1, Zenon
    <3>3. CASE s \in begun
      <4>1. req'[s] = Seek(0) /\ buf'[s] = << >> /\ pos'[s] = pos[s] /\ sent'[s] = << >>
        BY <1>2, <2>1, <3>3 DEF Rewind, CleanAt
      <4>2. /\ Seek(0) \notin {Ready, Eof} /\ Seek(0).kind # "Read"
        BY DEF Seek, Ready, Eof
      <4>3. Len(<< >>) \in 0..Size /\ << >> = BytesAt(0, Len(<< >>))
        BY UploadAssumption, BytesAtNone
      <4>4. pos[s] \in 0..Size
        BY <3>1 DEF Fits
      <4>5. Fits(Seek(0), << >>, pos[s], << >>)
        BY <2>2, <4>2, <4>3, <4>4 DEF Fits
      <4>. QED
        BY <4>1, <4>5, Zenon
    <3>. QED
      BY <3>2, <3>3
  <2>5. SentWhole' /\ FailEndsTheFuture'
    BY <1>2, <2>1, <2>2 DEF Inv, SentWhole, FailEndsTheFuture
  <2>. QED
    BY <2>3, <2>4, <2>5 DEF Inv, StreamsFit
<1>. QED
  BY <1>1, <1>2 DEF Rewind

\* curl is done with a stream only when it has all of it.
LEMMA DoneIsWhole ==
  ASSUME Inv, NEW s \in Streams, Done(s)
  PROVE  Len(sent[s]) = Size
<1>1. Fits(req[s], buf[s], pos[s], sent[s])
  BY DEF Inv, StreamsFit
<1>2. CASE s \in Sized
  BY <1>1, <1>2, UploadAssumption DEF Done, Fits
<1>3. CASE s \notin Sized
  <2>1. req[s] = Eof /\ buf[s] = << >>
    BY <1>3 DEF Done
  <2>. QED
    BY <1>1, <2>1, UploadAssumption DEF Fits
<1>. QED
  BY <1>2, <1>3

LEMMA InvUploadDone ==
  ASSUME Inv, UploadDone
  PROVE  Inv'
<1>1. \A s \in Streams : Len(sent[s]) = Size
  BY DoneIsWhole DEF UploadDone
<1>2. UNCHANGED <<req, buf, pos, sent, fut>> /\ transfer' = "sent"
  BY DEF UploadDone, streamVars
<1>. QED
  BY <1>1, <1>2 DEF Inv, Functions, StreamsFit, SentWhole, FailEndsTheFuture

LEMMA InvExecute ==
  ASSUME Inv, Execute
  PROVE  Inv'
<1>1. PICK out \in PollResults : Polled(out)
  BY DEF Execute
<1>2. UNCHANGED <<sent, transfer>> /\ fut = "running"
  BY DEF Execute, curlVars
<1>. DEFINE failed == {s \in Streams : req[s] # Fail /\ out[s].req = Fail}
            upto == IF failed = {} THEN Streams ELSE 1..Min(failed)
            new == [s \in Streams |-> IF s \in upto THEN out[s] ELSE Keep(s)]
<1>3. /\ req' = [s \in Streams |-> new[s].req]
      /\ buf' = [s \in Streams |-> new[s].buf]
      /\ pos' = [s \in Streams |-> new[s].pos]
      /\ fut' = IF failed = {} THEN "running" ELSE "failed"
  BY <1>1 DEF Polled, Settle
<1>4. ASSUME NEW s \in Streams
      PROVE  Fits(new[s].req, new[s].buf, new[s].pos, sent[s])
  <2>1. Fits(req[s], buf[s], pos[s], sent[s]) /\ Size \in Nat
    BY UploadAssumption DEF Inv, StreamsFit
  <2>2. out[s] \in PollOne(s)
    BY DEF PollResults
  <2>3. CASE s \in upto
    <3>1. new[s] = out[s]
      BY <2>3
    <3>. QED
      BY <2>1, <2>2, <3>1, FitsPoll
  <2>4. CASE s \notin upto
    <3>1. new[s] = Keep(s)
      BY <2>4
    <3>. QED
      BY <2>1, <3>1 DEF Keep, Outcome
  <2>. QED
    BY <2>3, <2>4
<1>. HIDE DEF new
<1>5. StreamsFit'
  BY <1>2, <1>3, <1>4 DEF StreamsFit
<1>6. Functions'
  BY <1>2, <1>3, <1>4 DEF Inv, Functions, Fits
<1>7. FailEndsTheFuture'
  <2>. SUFFICES ASSUME NEW s \in Streams, req'[s] = Fail, failed = {} PROVE FALSE
    BY <1>3 DEF FailEndsTheFuture
  <2>1. req[s] # Fail
    BY <1>2 DEF Inv, FailEndsTheFuture
  <2>2. new[s] = out[s] \/ new[s] = Keep(s)
    BY DEF new
  <2>3. new[s].req # Fail
    BY <2>1, <2>2 DEF Keep, Outcome
  <2>. QED
    BY <1>3, <2>3
<1>. QED
  BY <1>2, <1>5, <1>6, <1>7 DEF Inv, SentWhole

\* Every step keeps the invariant.
LEMMA InvStep ==
  ASSUME Inv, ~RewindAnywhere, [Next]_vars
  PROVE  Inv'
<1>1. ASSUME NEW n \in 1..MaxRead, ReadCallback(n) PROVE Inv'
  BY <1>1, InvReadCallback
<1>2. CASE UploadDone
  BY <1>2, InvUploadDone
<1>3. CASE UnpauseSend
  BY <1>3, InvFrame DEF UnpauseSend, streamVars
<1>4. CASE Rewind
  BY <1>4, InvRewind
<1>5. CASE Respond
  BY <1>5, InvFrame DEF Respond, streamVars, curlVars
<1>6. CASE DropTransfer
  BY <1>6, InvFrame DEF DropTransfer, streamVars
<1>7. CASE Execute
  BY <1>7, InvExecute
<1>8. CASE Resolve
  BY <1>8, InvFrame DEF Resolve, curlVars
<1>9. ASSUME NEW s \in Streams, StreamReady(s) PROVE Inv'
  BY <1>9, InvFrame DEF StreamReady, curlVars
<1>10. CASE UNCHANGED vars
  BY <1>10, InvFrame DEF vars, streamVars, curlVars
<1>. QED
  BY <1>1, <1>2, <1>3, <1>4, <1>5, <1>6, <1>7, <1>8, <1>9, <1>10 DEF Next, LoopThread

\* Streams, buffers and curl's share fit at all times, as long as curl restarts an
\* upload only between reads (SharedStreamState::seek keeps the buffer).
THEOREM InvariantHolds == ASSUME ~RewindAnywhere PROVE Spec => []Inv
<1>1. Init => Inv
  BY InvInit
<1>2. Inv /\ [Next]_vars => Inv'
  BY InvStep
<1>. QED
  BY <1>1, <1>2, PTL DEF Spec

\* poll_execute_one never meets a stream that has failed: its unreachable!() is.
THEOREM FailedStreamsAreLeft ==
  ASSUME ~RewindAnywhere PROVE Spec => []FailEndsTheFuture
<1>1. Inv => FailEndsTheFuture
  BY DEF Inv
<1>. QED
  BY <1>1, InvariantHolds, PTL

-----------------------------------------------------------------------------
(* curl's upload: the steps of one stream are steps of a ByteStream.       *)

LEMMA TransferStates ==
  /\ transfer = "sending" => TransferState = "open"
  /\ transfer = "sent" => TransferState = "ended"
  /\ transfer \in {"failed", "removed"} => TransferState = "failed"
<1>1. transfer = "sending" => transfer # "sent" /\ transfer \notin {"failed", "removed"}
  OBVIOUS
<1>2. transfer \in {"failed", "removed"} => transfer # "sent"
  OBVIOUS
<1>. QED
  BY <1>1, <1>2, Zenon DEF TransferState

LEMMA TransferStatesNext ==
  /\ transfer' = "sending" => TransferState' = "open"
  /\ transfer' = "sent" => TransferState' = "ended"
  /\ transfer' \in {"failed", "removed"} => TransferState' = "failed"
<1>1. transfer' = "sending" => transfer' # "sent" /\ transfer' \notin {"failed", "removed"}
  OBVIOUS
<1>2. transfer' \in {"failed", "removed"} => transfer' # "sent"
  OBVIOUS
<1>. QED
  BY <1>1, <1>2, Zenon DEF TransferState

CurlStreamStep(s) == [Transfer(s)!Next]_<<sent[s], TransferState>>

\* Nothing curl has of a stream changes.
LEMMA StutterStep ==
  ASSUME NEW s, UNCHANGED <<sent, transfer>>
  PROVE  CurlStreamStep(s)
  BY DEF CurlStreamStep, TransferState

\* The transfer fails, or is removed after it was sent.
LEMMA CurlFailStep ==
  ASSUME NEW s, transfer \in {"sending", "sent"}, transfer' \in {"failed", "removed"},
         UNCHANGED sent
  PROVE  CurlStreamStep(s)
<1>1. TransferState \in {"open", "ended"} /\ TransferState' = "failed"
  BY TransferStates, TransferStatesNext
<1>. QED
  BY <1>1 DEF CurlStreamStep, Transfer!Next, Transfer!Fail, Transfer!Abandon

\* More of the stream is sent.
LEMMA DeliverStep ==
  ASSUME NEW s, transfer = "sending", UNCHANGED transfer,
         NEW k \in 1..Size, Len(sent[s]) \in Nat, Len(sent[s]) < k,
         sent'[s] = BytesAt(0, k)
  PROVE  CurlStreamStep(s)
<1>1. TransferState = "open" /\ TransferState' = "open"
  BY TransferStates, TransferStatesNext
<1>2. Size \in Nat /\ k \in Nat /\ Len(BytesAt(0, Size)) = Size
  BY UploadAssumption, BytesAtIsSeq
<1>3. SubSeq(BytesAt(0, Size), 1, k) = BytesAt(0 + 1 - 1, k + 1 - 1)
  BY <1>2, BytesAtSub, 0 \in Nat, 1 \in 1..Size + 1, k \in 0..Size, 1 <= k + 1
<1>4. 0 + 1 - 1 = 0 /\ k + 1 - 1 = k
  BY <1>2
<1>5. sent'[s] = SubSeq(BytesAt(0, Size), 1, k)
  BY <1>3, <1>4
<1>6. k \in Len(sent[s]) + 1..Len(BytesAt(0, Size))
  BY <1>2
<1>7. Transfer(s)!Deliver
  BY <1>1, <1>5, <1>6 DEF Transfer!Deliver
<1>. QED
  BY <1>7 DEF CurlStreamStep, Transfer!Next

LEMMA ReadCallbackRefines ==
  ASSUME Inv, NEW n \in 1..MaxRead, ReadCallback(n), NEW s \in Streams
  PROVE  CurlStreamStep(s)
<1>. DEFINE c == Current
            len == Min({n, Len(buf[c])})
<1>1. CASE transfer' = "failed" /\ UNCHANGED sent
  BY <1>1, CurlFailStep DEF ReadCallback, Sending
<1>2. CASE UNCHANGED <<sent, transfer>>
  BY <1>2, StutterStep
<1>3. CASE req[c] \in {Ready, Eof} /\ len > 0 /\ Take(c, len) /\ UNCHANGED transfer
  <2>1. CASE c # s
    <3>1. sent'[s] = sent[s]
      BY <1>3, <2>1 DEF Inv, Functions, Take
    <3>. QED
      BY <1>3, <3>1 DEF CurlStreamStep, TransferState
  <2>2. CASE c = s
    <3>1. /\ c \in Streams /\ Fits(req[c], buf[c], pos[c], sent[c])
          /\ Len(buf[c]) \in Nat /\ n \in Nat
      BY <2>2, UploadAssumption, LenProperties DEF Inv, Functions, StreamsFit
    <3>2. len \in 1..Len(buf[c])
      BY <1>3, <3>1, MinOfTwo
    <3>3. /\ sent[c] \o SubSeq(buf[c], 1, len) = BytesAt(0, Len(sent[c]) + len)
          /\ Len(sent[c]) + len \in 0..Size
      <4>1. req[c] \in {Ready, Eof}
        BY <1>3
      <4>. HIDE DEF c, len
      <4>2. PICK r, b, p, x : r = req[c] /\ b = buf[c] /\ p = pos[c] /\ x = sent[c]
        OBVIOUS
      <4>3. PICK k : k = len
        OBVIOUS
      <4>4. r \in {Ready, Eof} /\ Fits(r, b, p, x) /\ k \in 1..Len(b)
        BY <3>1, <3>2, <4>1, <4>2, <4>3
      <4>5. x \o SubSeq(b, 1, k) = BytesAt(0, Len(x) + k) /\ Len(x) + k \in 0..Size
        BY <4>4, FitsTake
      <4>. QED
        BY <4>2, <4>3, <4>5
    <3>4. sent'[c] = sent[c] \o SubSeq(buf[c], 1, len)
      BY <1>3, <3>1 DEF Inv, Functions, Take
    <3>5. /\ Len(sent[c]) \in Nat /\ Len(sent[c]) < Len(sent[c]) + len
          /\ Len(sent[c]) + len \in 1..Size
      BY <3>1, <3>2, <3>3, UploadAssumption DEF Fits
    <3>6. PICK k \in 1..Size : k = Len(sent[c]) + len
      BY <3>5
    <3>7. Len(sent[s]) \in Nat /\ Len(sent[s]) < k /\ sent'[s] = BytesAt(0, k)
      <4>1. sent'[c] = BytesAt(0, k) /\ Len(sent[c]) \in Nat /\ Len(sent[c]) < k
        BY <3>3, <3>4, <3>5, <3>6
      <4>. QED
        BY <2>2, <4>1, Zenon
    <3>8. transfer = "sending"
      BY DEF ReadCallback, Sending
    <3>. QED
      BY <1>3, <3>7, <3>8, DeliverStep
  <2>. QED
    BY <2>1, <2>2
<1>. QED
  BY <1>1, <1>2, <1>3 DEF ReadCallback

LEMMA RewindRefines ==
  ASSUME Inv, Rewind, NEW s \in Streams
  PROVE  CurlStreamStep(s)
<1>. DEFINE begun == {t \in Streams : ~Untouched(t)}
<1>1. CASE transfer' = "failed" /\ UNCHANGED sent
  BY <1>1, CurlFailStep DEF Rewind
<1>2. CASE /\ begun \subseteq Sized
           /\ sent' = [t \in Streams |-> << >>]
           /\ UNCHANGED transfer
  <2>1. CASE s \in begun
    <3>1. TransferState' = "open"
      BY <1>2, TransferStatesNext DEF Rewind
    <3>2. s \in Sized /\ sent'[s] = << >>
      BY <1>2, <2>1
    <3>. QED
      BY <3>1, <3>2 DEF CurlStreamStep, Transfer!Next, Transfer!Rewind
  <2>2. CASE s \notin begun
    <3>1. sent'[s] = sent[s]
      BY <1>2, <2>2 DEF Untouched
    <3>. QED
      BY <1>2, <3>1 DEF CurlStreamStep, TransferState
  <2>. QED
    BY <2>1, <2>2
<1>. QED
  BY <1>1, <1>2 DEF Rewind

LEMMA UploadDoneRefines ==
  ASSUME Inv, UploadDone, NEW s \in Streams
  PROVE  CurlStreamStep(s)
<1>1. TransferState = "open" /\ TransferState' = "ended"
  BY TransferStates, TransferStatesNext DEF UploadDone
<1>2. sent'[s] = BytesAt(0, Size)
  <2>1. Len(sent[s]) = Size
    BY DoneIsWhole DEF UploadDone
  <2>2. sent[s] = BytesAt(0, Len(sent[s]))
    BY DEF Inv, StreamsFit, Fits
  <2>3. sent' = sent
    BY DEF UploadDone
  <2>. QED
    BY <2>1, <2>2, <2>3, Zenon
<1>. QED
  BY <1>1, <1>2 DEF CurlStreamStep, Transfer!Next, Transfer!End

LEMMA StepRefines ==
  ASSUME Inv, [Next]_vars, NEW s \in Streams
  PROVE  CurlStreamStep(s)
<1>1. ASSUME NEW n \in 1..MaxRead, ReadCallback(n) PROVE CurlStreamStep(s)
  BY <1>1, ReadCallbackRefines
<1>2. CASE UploadDone
  BY <1>2, UploadDoneRefines
<1>3. CASE UnpauseSend
  BY <1>3, StutterStep DEF UnpauseSend
<1>4. CASE Rewind
  BY <1>4, RewindRefines
<1>5. CASE Respond
  BY <1>5, StutterStep DEF Respond, curlVars
<1>6. CASE DropTransfer
  BY <1>6, CurlFailStep DEF DropTransfer
<1>7. CASE Execute
  BY <1>7, StutterStep DEF Execute, curlVars
<1>8. CASE Resolve
  BY <1>8, StutterStep DEF Resolve, curlVars
<1>9. ASSUME NEW t \in Streams, StreamReady(t) PROVE CurlStreamStep(s)
  BY <1>9, StutterStep DEF StreamReady, curlVars
<1>10. CASE UNCHANGED vars
  BY <1>10, StutterStep DEF vars, curlVars
<1>. QED
  BY <1>1, <1>2, <1>3, <1>4, <1>5, <1>6, <1>7, <1>8, <1>9, <1>10 DEF Next, LoopThread

\* The callbacks, the shared state and the future together are a ByteStream for every
\* stream: curl has a beginning of it at all times, and the server the whole of it.
THEOREM UploadIsAByteStream == ASSUME ~RewindAnywhere PROVE Spec => BodyIsUploaded
<1>1. Init => \A s \in Streams : Transfer(s)!Init
  BY TransferStates DEF Init, Transfer!Init
<1>2. Inv /\ [Next]_vars =>
        [\A s \in Streams : [Transfer(s)!Next]_<<sent[s], TransferState>>]_vars
  BY StepRefines DEF CurlStreamStep
<1>. QED
  BY <1>1, <1>2, InvariantHolds, PTL DEF Spec, BodyIsUploaded

-----------------------------------------------------------------------------
(* The other backends' uploads, in the steps of Uploads.                   *)

LEMMA UploadsStep ==
  [UploadsNext]_UploadsVars =>
    /\ [Reqwest!Next]_(Reqwest!vars) /\ [Winrt!Next]_(Winrt!vars)
    /\ [WinrtBlocking!Next]_(WinrtBlocking!vars) /\ [Ns!Next]_(Ns!vars)
<1>1. UNCHANGED reqwestVars => UNCHANGED Reqwest!vars
  BY DEF reqwestVars, Reqwest!vars
<1>2. UNCHANGED winrtVars => UNCHANGED Winrt!vars
  BY DEF winrtVars, Winrt!vars
<1>3. UNCHANGED winrtBlockingVars => UNCHANGED WinrtBlocking!vars
  BY DEF winrtBlockingVars, WinrtBlocking!vars
<1>4. UNCHANGED nsVars => UNCHANGED Ns!vars
  BY DEF nsVars, Ns!vars
<1>. QED
  BY <1>1, <1>2, <1>3, <1>4 DEF UploadsNext, UploadsVars

-----------------------------------------------------------------------------
(* The bytes of a stream.                                                  *)

\* The n bytes of a stream from the one at p on, and the first n bytes.
From(p, n) == [i \in 1..n |-> p + i]
First(n) == From(0, n)

LEMMA FromIsSeq ==
  ASSUME NEW p \in Nat, NEW n \in Nat
  PROVE  From(p, n) \in Seq(Nat) /\ Len(From(p, n)) = n
  BY DEF From

LEMMA FirstIsSeq ==
  ASSUME NEW n \in Nat
  PROVE  First(n) \in Seq(Nat) /\ Len(First(n)) = n
  BY FromIsSeq DEF First

LEMMA FromConcat ==
  ASSUME NEW p \in Nat, NEW m \in Nat, NEW n \in Nat
  PROVE  From(p, m) \o From(p + m, n) = From(p, m + n)
  BY DEF From

LEMMA FirstConcat ==
  ASSUME NEW p \in Nat, NEW n \in Nat
  PROVE  First(p) \o From(p, n) = First(p + n)
  BY DEF First, From

LEMMA FirstSub ==
  ASSUME NEW p \in Nat, NEW n \in 0..p
  PROVE  SubSeq(First(p), 1, n) = First(n)
  BY DEF First, From

LEMMA FromNone == \A p \in Nat : From(p, 0) = << >>
  BY DEF From

LEMMA FirstNone == First(0) = << >>
  BY FromNone DEF First

-----------------------------------------------------------------------------
(* WinRT's blocking client.                                                *)

SyncTypeOK ==
  /\ open \in BOOLEAN /\ at \in 0..WinrtBytes
  /\ bstack \in {"open", "ended", "failed"}
  /\ read.state \in {"none", "spawned", "done", "error"}
  /\ read \in [state : {"none", "spawned", "done", "error"}, want : Nat,
               partial : BOOLEAN, from : Nat, n : Nat]

\* The stack has a beginning of the body, and all of it once it was told of the end.
SyncSentIsFirst ==
  /\ Len(bsent) \in 0..WinrtBytes /\ bsent = First(Len(bsent))
  /\ bstack = "ended" => Len(bsent) = WinrtBytes

\* The stream is where the stack is, or ahead of it by the read that it is to receive,
\* which is empty only at the end.  A failed read says nothing.
ReadFollows ==
  /\ bstack = "ended" => read.state = "none"
  /\ bstack = "open" =>
       /\ read.state \in {"none", "spawned"} => at = Len(bsent)
       /\ read.state = "spawned" => read.want # 0
       /\ read.state = "done" => /\ read.from = Len(bsent) /\ at = read.from + read.n
                                 /\ read.n = 0 => at = WinrtBytes

SyncInv == SyncTypeOK /\ SyncSentIsFirst /\ ReadFollows

-----------------------------------------------------------------------------

SyncStep == [WinrtBlocking!Transfer!Next]_<<bsent, bstack>>

LEMMA SyncInit == ASSUME WinrtBlocking!Init PROVE SyncInv /\ WinrtBlocking!Transfer!Init
<1>1. Len(<< >>) = 0 /\ First(Len(<< >>)) = << >>
  BY FirstNone
<1>. QED
  BY <1>1, UploadsAssumption
  DEF WinrtBlocking!Init, WinrtBlocking!NoRead, SyncInv, SyncTypeOK, SyncSentIsFirst,
      ReadFollows, WinrtBlocking!Transfer!Init

LEMMA SyncReadAsync ==
  ASSUME SyncInv, NEW want \in 1..Capacity, NEW partial \in BOOLEAN,
         WinrtBlocking!ReadAsync(want, partial)
  PROVE  SyncInv' /\ SyncStep
<1>1. want \in Nat /\ want # 0
  BY UploadsAssumption
<1>2. SyncTypeOK'
  BY <1>1 DEF SyncInv, SyncTypeOK, WinrtBlocking!ReadAsync
<1>3. SyncSentIsFirst' /\ SyncStep
  BY DEF SyncInv, SyncSentIsFirst, WinrtBlocking!ReadAsync, SyncStep
<1>4. ReadFollows'
  BY <1>1 DEF SyncInv, ReadFollows, WinrtBlocking!ReadAsync
<1>. QED
  BY <1>2, <1>3, <1>4 DEF SyncInv

LEMMA SyncRunRead ==
  ASSUME SyncInv, WinrtBlocking!RunRead
  PROVE  SyncInv' /\ SyncStep
<1>1. read.state = "spawned" /\ UNCHANGED <<open, bsent, bstack>>
  BY DEF WinrtBlocking!RunRead
<1>2. SyncSentIsFirst' /\ SyncStep
  BY <1>1 DEF SyncInv, SyncSentIsFirst, SyncStep
<1>3. CASE read' = [read EXCEPT !.state = "error"] /\ at' \in 0..WinrtBytes
  <2>1. SyncTypeOK'
    BY <1>1, <1>3 DEF SyncInv, SyncTypeOK
  <2>2. ReadFollows'
    BY <1>1, <1>3 DEF SyncInv, SyncTypeOK, ReadFollows
  <2>. QED
    BY <1>2, <2>1, <2>2 DEF SyncInv
<1>4. ASSUME NEW n \in 0..read.want, at + n <= WinrtBytes, at' = at + n,
             WinrtBlocking!Ends(n),
             read' = [read EXCEPT !.state = "done", !.from = at, !.n = n]
      PROVE  SyncInv'
  <2>1. n \in Nat /\ at \in Nat /\ at + n \in 0..WinrtBytes
    BY <1>4, UploadsAssumption DEF SyncInv, SyncTypeOK
  <2>2. SyncTypeOK'
    BY <1>1, <1>4, <2>1 DEF SyncInv, SyncTypeOK
  <2>3. /\ read'.state = "done" /\ read'.from = at /\ read'.n = n
    BY <1>4 DEF SyncInv, SyncTypeOK
  <2>4. ReadFollows'
    <3>1. bstack # "ended"
      BY <1>1 DEF SyncInv, ReadFollows
    <3>2. bstack = "open" /\ n = 0 => at + n = WinrtBytes
      BY <1>1, <1>4, <2>1 DEF SyncInv, ReadFollows, WinrtBlocking!Ends
    <3>. QED
      BY <1>1, <1>4, <2>3, <3>1, <3>2 DEF SyncInv, ReadFollows
  <2>. QED
    BY <1>2, <2>2, <2>4 DEF SyncInv
<1>5. CASE ~open
  BY <1>3, <1>5 DEF WinrtBlocking!RunRead, SyncInv, SyncTypeOK
<1>6. CASE open
  <2>1. PICK n \in 0..read.want :
          /\ at + n <= WinrtBytes /\ at' = at + n
          /\ \/ /\ WinrtBlocking!Ends(n)
                /\ read' = [read EXCEPT !.state = "done", !.from = at, !.n = n]
             \/ read' = [read EXCEPT !.state = "error"]
    BY <1>6 DEF WinrtBlocking!RunRead
  <2>2. at' \in 0..WinrtBytes
    <3>1. n \in Nat /\ at \in Nat /\ WinrtBytes \in Nat
      BY UploadsAssumption DEF SyncInv, SyncTypeOK
    <3>. QED
      BY <2>1, <3>1
  <2>3. CASE /\ WinrtBlocking!Ends(n)
             /\ read' = [read EXCEPT !.state = "done", !.from = at, !.n = n]
    BY <1>2, <1>4, <2>1, <2>3
  <2>4. CASE read' = [read EXCEPT !.state = "error"]
    BY <1>3, <2>2, <2>4
  <2>. QED
    BY <2>1, <2>3, <2>4
<1>. QED
  BY <1>5, <1>6

\* An empty read is the end, and finds the stack with every byte.
LEMMA SyncReceived ==
  ASSUME SyncInv, WinrtBlocking!Received
  PROVE  SyncInv' /\ SyncStep
<1>1. /\ read.state \in {"done", "error"} /\ read' = WinrtBlocking!NoRead
      /\ UNCHANGED <<open, at>>
  BY DEF WinrtBlocking!Received
<1>2. bstack # "ended"
  BY <1>1 DEF SyncInv, ReadFollows
<1>3. bstack' \in {"open", "ended", "failed"}
  BY DEF WinrtBlocking!Received
<1>4. SyncTypeOK'
  BY <1>1, <1>3 DEF SyncInv, SyncTypeOK, WinrtBlocking!NoRead
<1>5. CASE read.state = "error" \/ bstack = "failed"
  <2>1. bstack' = "failed" /\ bsent' = bsent
    BY <1>5 DEF WinrtBlocking!Received
  <2>2. SyncSentIsFirst' /\ ReadFollows'
    BY <2>1 DEF SyncInv, SyncSentIsFirst, ReadFollows
  <2>3. SyncStep
    BY <1>2, <2>1
    DEF SyncInv, SyncTypeOK, SyncStep, WinrtBlocking!Transfer!Next,
        WinrtBlocking!Transfer!Fail
  <2>. QED
    BY <1>4, <2>2, <2>3 DEF SyncInv
<1>6. CASE read.state = "done" /\ bstack = "open"
  <2>. DEFINE p == Len(bsent)
              n == read.n
  <2>1. /\ p \in Nat /\ n \in Nat /\ read.from = p /\ at = p + n
        /\ p + n \in 0..WinrtBytes /\ (n = 0 => p = WinrtBytes) /\ WinrtBytes \in Nat
    BY <1>6, UploadsAssumption DEF SyncInv, SyncTypeOK, SyncSentIsFirst, ReadFollows
  <2>2. bsent' = First(p + n)
    <3>1. bsent' = bsent \o [i \in 1..n |-> p + i]
      BY <1>6, <2>1 DEF WinrtBlocking!Received
    <3>2. bsent = First(p)
      BY DEF SyncInv, SyncSentIsFirst
    <3>. HIDE DEF p, n
    <3>3. First(p) \o [i \in 1..n |-> p + i] = First(p + n)
      BY <2>1, FirstConcat DEF From
    <3>4. bsent' = First(p) \o [i \in 1..n |-> p + i]
      BY <3>1, <3>2, Zenon
    <3>. QED
      BY <3>3, <3>4, Zenon
  <2>3. bstack' = IF n = 0 THEN "ended" ELSE "open"
    BY <1>6 DEF WinrtBlocking!Received
  <2>4. Len(bsent') = p + n
    BY <2>1, <2>2, FirstIsSeq
  <2>5. SyncSentIsFirst'
    <3>1. bsent' = First(Len(bsent'))
      BY <2>2, <2>4, Zenon
    <3>. QED
      BY <2>1, <2>3, <2>4, <3>1 DEF SyncSentIsFirst
  <2>6. ReadFollows'
    BY <1>1, <2>1, <2>3, <2>4 DEF ReadFollows, WinrtBlocking!NoRead
  <2>7. Len(WinrtBlocking!Body) = WinrtBytes /\ WinrtBlocking!Body = First(WinrtBytes)
    BY <2>1, FirstIsSeq DEF WinrtBlocking!Body, First, From
  <2>8. CASE n = 0
    <3>1. bsent' = WinrtBlocking!Body
      BY <2>1, <2>2, <2>7, <2>8
    <3>. QED
      BY <1>4, <1>6, <2>3, <2>5, <2>6, <2>8, <3>1
      DEF SyncInv, SyncStep, WinrtBlocking!Transfer!Next, WinrtBlocking!Transfer!End
  <2>9. CASE n # 0
    <3>1. p + n \in p + 1..WinrtBytes
      BY <2>1, <2>9
    <3>2. bsent' = SubSeq(WinrtBlocking!Body, 1, p + n)
      BY <2>1, <2>2, <2>7, FirstSub
    <3>3. WinrtBlocking!Transfer!Deliver
      BY <1>6, <2>3, <2>7, <2>9, <3>1, <3>2 DEF WinrtBlocking!Transfer!Deliver
    <3>. QED
      BY <1>4, <2>5, <2>6, <3>3 DEF SyncInv, SyncStep, WinrtBlocking!Transfer!Next
  <2>. QED
    BY <2>8, <2>9
<1>. QED
  BY <1>1, <1>2, <1>5, <1>6 DEF SyncInv, SyncTypeOK

LEMMA SyncSeek ==
  ASSUME SyncInv, WinrtBlocking!Seek
  PROVE  SyncInv' /\ SyncStep
<1>1. /\ SyncSized /\ bstack # "failed" /\ read.state = "none" /\ UNCHANGED <<open, read>>
  BY DEF WinrtBlocking!Seek
<1>2. CASE at' = 0 /\ bsent' = << >> /\ bstack' = "open"
  <2>1. Len(<< >>) = 0 /\ First(Len(<< >>)) = << >>
    BY FirstNone
  <2>2. SyncInv'
    BY <1>1, <1>2, <2>1, UploadsAssumption
    DEF SyncInv, SyncTypeOK, SyncSentIsFirst, ReadFollows
  <2>. QED
    BY <1>1, <1>2, <2>2
    DEF SyncStep, WinrtBlocking!Transfer!Next, WinrtBlocking!Transfer!Rewind
<1>3. CASE bstack' = "failed" /\ UNCHANGED <<at, bsent>>
  <2>1. SyncInv'
    BY <1>1, <1>3 DEF SyncInv, SyncTypeOK, SyncSentIsFirst, ReadFollows
  <2>. QED
    BY <1>1, <1>3, <2>1
    DEF SyncInv, SyncTypeOK, SyncStep, WinrtBlocking!Transfer!Next,
        WinrtBlocking!Transfer!Fail, WinrtBlocking!Transfer!Abandon
<1>. QED
  BY <1>2, <1>3 DEF WinrtBlocking!Seek

LEMMA SyncClose ==
  ASSUME SyncInv, WinrtBlocking!Close
  PROVE  SyncInv' /\ SyncStep
<1>1. open' = FALSE /\ bstack' = "failed" /\ UNCHANGED <<at, read, bsent>>
  BY DEF WinrtBlocking!Close
<1>2. SyncInv'
  BY <1>1 DEF SyncInv, SyncTypeOK, SyncSentIsFirst, ReadFollows
<1>. QED
  BY <1>1, <1>2
  DEF SyncInv, SyncTypeOK, SyncStep, WinrtBlocking!Transfer!Next,
      WinrtBlocking!Transfer!Fail, WinrtBlocking!Transfer!Abandon

LEMMA SyncNext ==
  ASSUME SyncInv, [WinrtBlocking!Next]_(WinrtBlocking!vars)
  PROVE  SyncInv' /\ SyncStep
<1>1. CASE UNCHANGED WinrtBlocking!vars
  BY <1>1
  DEF WinrtBlocking!vars, SyncInv, SyncTypeOK, SyncSentIsFirst, ReadFollows, SyncStep
<1>. QED
  BY <1>1, SyncReadAsync, SyncRunRead, SyncReceived, SyncSeek, SyncClose
  DEF WinrtBlocking!Next

-----------------------------------------------------------------------------
(* WinRT's asynchronous client.                                            *)

Entry == [open: BOOLEAN, rewind: BOOLEAN, pos: Nat, at: 0..WinrtBytes]
Tasks == [in: BOOLEAN, want: Nat, partial: BOOLEAN, buf: Seq(Nat),
          status: {"started", "done", "error"}, handler: {"none", "set", "taken"},
          invoked: Nat, pended: BOOLEAN]
Stacks == [pc: {"idle", "reading", "ended", "failed", "cancelled", "closed"},
           sent: Seq(Nat)]

WinrtTypeOK ==
  /\ stream \in [WinrtStreams -> Entry]
  /\ task \in [WinrtStreams -> Tasks]
  /\ wstack \in [WinrtStreams -> Stacks]

\* The stack has a beginning of the stream, and all of it once it was told of the end.
SentIsFirst(st) ==
  /\ Len(st.sent) \in 0..WinrtBytes /\ st.sent = First(Len(st.sent))
  /\ st.pc = "ended" => Len(st.sent) = WinrtBytes

\* A task of the collection is a read under way.  Its handler is invoked when it leaves
\* the collection or, for one that has left, when it is set.
TaskIsSettled(st, t) ==
  /\ t.in => /\ st.pc = "reading" /\ t.status = "started" /\ t.invoked = 0
             /\ t.handler # "taken"
  /\ t.handler = "none" => t.invoked = 0
  /\ t.invoked <= 1
  /\ st.pc = "reading" /\ t.handler # "none" /\ t.status # "started" => t.invoked = 1

\* The stream is where the stack is, or ahead of it by the bytes of the read under way,
\* unless it is to be rewound: then neither has any.  A read that is done without
\* a byte has met the end of the stream.
StreamFollows(st, t, in) ==
  /\ st.pc = "idle" =>
       IF in.rewind THEN st.sent = <<>> ELSE in.at = Len(st.sent)
  /\ st.pc = "reading" /\ t.status = "started" =>
       /\ t.want > 0
       /\ IF in.rewind THEN st.sent = <<>> /\ t.buf = <<>>
          ELSE /\ in.at = Len(st.sent) + Len(t.buf)
               /\ t.buf = From(Len(st.sent), Len(t.buf))
  /\ st.pc = "reading" /\ t.status = "done" =>
       /\ ~in.rewind /\ in.at = Len(st.sent) + Len(t.buf)
       /\ t.buf = From(Len(st.sent), Len(t.buf))
       /\ t.buf = <<>> => in.at = WinrtBytes

StreamInv(s) ==
  /\ SentIsFirst(wstack[s]) /\ TaskIsSettled(wstack[s], task[s])
  /\ StreamFollows(wstack[s], task[s], stream[s])

WinrtInv ==
  /\ WinrtTypeOK
  /\ \A s \in WinrtStreams : StreamInv(s)
  /\ todo \subseteq {s \in WinrtStreams : task[s].in \/ s \in stuck}

StreamStep(s) ==
  [Winrt!Transfer(s)!Next]_<<wstack[s].sent, Winrt!TransferState(s)>>

\* What a step may come to for one stream: the stack has what it had, or the step is one
\* of a ByteStream.
Kept(s) ==
  /\ wstack'[s].sent = wstack[s].sent
  /\ Winrt!TransferState(s)' = Winrt!TransferState(s)

LEMMA KeptStep == ASSUME NEW s \in WinrtStreams, Kept(s) PROVE StreamStep(s)
  BY DEF Kept, StreamStep

LEMMA WinrtTypes ==
  ASSUME WinrtTypeOK, NEW s \in WinrtStreams
  PROVE  /\ stream[s] \in Entry /\ task[s] \in Tasks /\ wstack[s] \in Stacks
         /\ stream[s].open \in BOOLEAN /\ stream[s].rewind \in BOOLEAN
         /\ stream[s].pos \in Nat /\ stream[s].at \in 0..WinrtBytes
         /\ task[s].in \in BOOLEAN /\ task[s].want \in Nat /\ task[s].partial \in BOOLEAN
         /\ task[s].buf \in Seq(Nat) /\ task[s].invoked \in Nat
         /\ task[s].status \in {"started", "done", "error"}
         /\ task[s].handler \in {"none", "set", "taken"}
         /\ task[s].pended \in BOOLEAN /\ wstack[s].sent \in Seq(Nat)
         /\ wstack[s].pc \in {"idle", "reading", "ended", "failed", "cancelled", "closed"}
<1>1. stream[s] \in Entry /\ task[s] \in Tasks /\ wstack[s] \in Stacks
  BY DEF WinrtTypeOK
<1>. QED
  BY <1>1 DEF Entry, Tasks, Stacks

\* The state of a transfer, by where the stack is.
LEMMA StateOf ==
  ASSUME NEW s \in WinrtStreams
  PROVE  /\ wstack[s].pc = "ended" => Winrt!TransferState(s) = "ended"
         /\ wstack[s].pc \in {"failed", "closed"} => Winrt!TransferState(s) = "failed"
         /\ wstack[s].pc \in {"idle", "reading", "cancelled"}
              => Winrt!TransferState(s) = "open"
<1>. DEFINE p == wstack[s].pc
<1>1. Winrt!TransferState(s) =
        CASE p = "ended" -> "ended" [] p \in {"failed", "closed"} -> "failed"
          [] OTHER -> "open"
  BY DEF Winrt!TransferState
<1>. HIDE DEF p
<1>2. /\ p = "ended" => Winrt!TransferState(s) = "ended"
      /\ p \in {"failed", "closed"} => Winrt!TransferState(s) = "failed"
      /\ p \in {"idle", "reading", "cancelled"} => Winrt!TransferState(s) = "open"
  <2>1. p = "ended" => p \notin {"failed", "closed"}
    OBVIOUS
  <2>2. p \in {"idle", "reading", "cancelled"} => p # "ended" /\ p \notin {"failed", "closed"}
    OBVIOUS
  <2>. QED
    BY <1>1, <2>1, <2>2, Zenon
<1>. QED
  BY <1>2 DEF p

LEMMA StateOfNext ==
  ASSUME NEW s \in WinrtStreams
  PROVE  /\ wstack'[s].pc = "ended" => Winrt!TransferState(s)' = "ended"
         /\ wstack'[s].pc \in {"failed", "closed"} => Winrt!TransferState(s)' = "failed"
         /\ wstack'[s].pc \in {"idle", "reading", "cancelled"}
              => Winrt!TransferState(s)' = "open"
<1>. DEFINE p == wstack'[s].pc
<1>1. Winrt!TransferState(s)' =
        CASE p = "ended" -> "ended" [] p \in {"failed", "closed"} -> "failed"
          [] OTHER -> "open"
  BY DEF Winrt!TransferState
<1>. HIDE DEF p
<1>2. /\ p = "ended" => Winrt!TransferState(s)' = "ended"
      /\ p \in {"failed", "closed"} => Winrt!TransferState(s)' = "failed"
      /\ p \in {"idle", "reading", "cancelled"} => Winrt!TransferState(s)' = "open"
  <2>1. p = "ended" => p \notin {"failed", "closed"}
    OBVIOUS
  <2>2. p \in {"idle", "reading", "cancelled"} => p # "ended" /\ p \notin {"failed", "closed"}
    OBVIOUS
  <2>. QED
    BY <1>1, <2>1, <2>2, Zenon
<1>. QED
  BY <1>2 DEF p

LEMMA WinrtInit ==
  ASSUME Winrt!Init
  PROVE  WinrtInv /\ \A s \in WinrtStreams : Winrt!Transfer(s)!Init
<1>1. Len(<< >>) = 0 /\ First(Len(<< >>)) = << >> /\ << >> \in Seq(Nat)
  BY FirstNone
<1>2. WinrtTypeOK
  BY <1>1, UploadsAssumption
  DEF Winrt!Init, Winrt!NoTask, WinrtTypeOK, Entry, Tasks, Stacks
<1>3. ASSUME NEW s \in WinrtStreams
      PROVE  StreamInv(s) /\ Winrt!Transfer(s)!Init
  <2>1. /\ stream[s] = [open |-> TRUE, rewind |-> FALSE, pos |-> 0, at |-> 0]
        /\ wstack[s] = [pc |-> "idle", sent |-> << >>] /\ task[s] = Winrt!NoTask
    BY DEF Winrt!Init
  <2>2. Winrt!TransferState(s) = "open"
    BY <2>1, StateOf
  <2>. QED
    BY <1>1, <2>1, <2>2, UploadsAssumption
    DEF StreamInv, SentIsFirst, TaskIsSettled, StreamFollows, Winrt!NoTask,
        Winrt!Transfer!Init
<1>4. todo = {}
  BY DEF Winrt!Init
<1>. QED
  BY <1>2, <1>3, <1>4 DEF WinrtInv

\* A step of one stream leaves the others as they are.
LEMMA OtherStreams ==
  ASSUME NEW u \in WinrtStreams, StreamInv(u),
         stream'[u] = stream[u], task'[u] = task[u], wstack'[u] = wstack[u]
  PROVE  StreamInv(u)' /\ StreamStep(u)
<1>1. Kept(u)
  BY DEF Kept, Winrt!TransferState
<1>. QED
  BY <1>1, KeptStep DEF StreamInv

\* What has to be shown of a step that changes one stream.
LEMMA OneStream ==
  ASSUME WinrtInv, NEW s \in WinrtStreams,
         NEW in \in Entry, NEW t \in Tasks, NEW st \in Stacks,
         stream' = [stream EXCEPT ![s] = in], task' = [task EXCEPT ![s] = t],
         wstack' = [wstack EXCEPT ![s] = st],
         SentIsFirst(st), TaskIsSettled(st, t), StreamFollows(st, t, in),
         todo' \subseteq todo, todo' = {} \/ stuck \subseteq stuck',
         s \in todo' => t.in \/ s \in stuck', StreamStep(s)
  PROVE  WinrtInv' /\ \A u \in WinrtStreams : StreamStep(u)
<1>1. WinrtTypeOK'
  BY DEF WinrtInv, WinrtTypeOK
<1>2. stream'[s] = in /\ task'[s] = t /\ wstack'[s] = st
  BY DEF WinrtInv, WinrtTypeOK
<1>3. ASSUME NEW u \in WinrtStreams, u # s
      PROVE  stream'[u] = stream[u] /\ task'[u] = task[u] /\ wstack'[u] = wstack[u]
  BY <1>3 DEF WinrtInv, WinrtTypeOK
<1>4. StreamInv(s)'
  BY <1>2 DEF StreamInv
<1>5. ASSUME NEW u \in WinrtStreams, u # s PROVE StreamInv(u)' /\ StreamStep(u)
  BY <1>3, <1>5, OtherStreams DEF WinrtInv
<1>6. todo' \subseteq {u \in WinrtStreams : task'[u].in \/ u \in stuck'}
  BY <1>2, <1>3 DEF WinrtInv
<1>. QED
  BY <1>1, <1>4, <1>5, <1>6 DEF WinrtInv

\* The stack gives a stream up.
LEMMA FailStep ==
  ASSUME WinrtTypeOK, NEW s \in WinrtStreams, wstack'[s].pc \in {"failed", "closed"},
         wstack'[s].sent = wstack[s].sent
  PROVE  StreamStep(s)
<1>1. Winrt!TransferState(s)' = "failed"
  BY StateOfNext
<1>2. Winrt!TransferState(s) \in {"open", "ended", "failed"}
  BY StateOf, WinrtTypes
<1>. QED
  BY <1>1, <1>2
  DEF StreamStep, Winrt!Transfer!Next, Winrt!Transfer!Fail, Winrt!Transfer!Abandon

LEMMA OpenStep ==
  ASSUME NEW s \in WinrtStreams, wstack[s].pc \in {"idle", "reading", "cancelled"},
         wstack'[s].pc \in {"idle", "reading", "cancelled"}, wstack'[s].sent = wstack[s].sent
  PROVE  StreamStep(s)
  BY StateOf, StateOfNext, KeptStep DEF Kept

LEMMA Unchanged ==
  ASSUME WinrtTypeOK, NEW s \in WinrtStreams
  PROVE  /\ stream = [stream EXCEPT ![s] = stream[s]]
         /\ task = [task EXCEPT ![s] = task[s]]
         /\ wstack = [wstack EXCEPT ![s] = wstack[s]]
  BY DEF WinrtTypeOK

LEMMA WinrtReadAsync ==
  ASSUME WinrtInv, NEW s \in WinrtStreams, Winrt!ReadAsync(s)
  PROVE  WinrtInv' /\ \A u \in WinrtStreams : StreamStep(u)
<1>1. /\ wstack[s].pc = "idle" /\ todo = {} /\ todo' = {} /\ stream' = stream
      /\ WinrtTypeOK /\ StreamInv(s)
  BY DEF Winrt!ReadAsync, WinrtInv
<1>2. /\ stream[s] \in Entry /\ task[s] \in Tasks /\ wstack[s] \in Stacks
      /\ wstack[s].sent \in Seq(Nat) /\ stream' = [stream EXCEPT ![s] = stream[s]]
      /\ task = [task EXCEPT ![s] = task[s]]
  BY <1>1, WinrtTypes, Unchanged
<1>3. ASSUME NEW want \in 1..Capacity, NEW partial \in BOOLEAN,
             task' = [task EXCEPT ![s] =
                        [Winrt!NoTask EXCEPT !.in = TRUE, !.want = want, !.partial = partial]],
             wstack' = [wstack EXCEPT ![s].pc = "reading"]
      PROVE  WinrtInv' /\ \A u \in WinrtStreams : StreamStep(u)
  <2>. DEFINE t == [Winrt!NoTask EXCEPT !.in = TRUE, !.want = want, !.partial = partial]
              st == [wstack[s] EXCEPT !.pc = "reading"]
  <2>1. want \in Nat /\ want > 0
    BY UploadsAssumption
  <2>2. /\ t.in = TRUE /\ t.want = want /\ t.buf = << >> /\ t.status = "started"
        /\ t.handler = "none" /\ t.invoked = 0
    BY DEF Winrt!NoTask
  <2>3. t \in Tasks
    <3>1. << >> \in Seq(Nat)
      BY EmptySeq
    <3>2. Winrt!NoTask \in Tasks
      BY <3>1 DEF Winrt!NoTask, Tasks
    <3>. QED
      BY <2>1, <3>2 DEF Tasks
  <2>4. st.pc = "reading" /\ st.sent = wstack[s].sent /\ st \in Stacks
    BY <1>2 DEF Stacks
  <2>5. task' = [task EXCEPT ![s] = t] /\ wstack' = [wstack EXCEPT ![s] = st]
    BY <1>3
  <2>6. wstack'[s] = st
    BY <1>1, <2>5 DEF WinrtTypeOK
  <2>. HIDE DEF t, st
  <2>7. SentIsFirst(st) /\ TaskIsSettled(st, t)
    BY <1>1, <2>2, <2>4 DEF StreamInv, SentIsFirst, TaskIsSettled
  <2>8. StreamFollows(st, t, stream[s])
    <3>1. Len(wstack[s].sent) \in Nat /\ Len(t.buf) = 0
      BY <1>2, <2>2
    <3>2. t.buf = From(Len(st.sent), Len(t.buf))
      BY <2>2, <2>4, <3>1, FromNone
    <3>3. /\ stream[s].rewind => wstack[s].sent = << >>
          /\ ~stream[s].rewind => stream[s].at = Len(wstack[s].sent)
      BY <1>1 DEF StreamInv, StreamFollows
    <3>4. Len(st.sent) + Len(t.buf) = Len(wstack[s].sent)
      BY <2>4, <3>1
    <3>. QED
      BY <2>1, <2>2, <2>4, <3>2, <3>3, <3>4 DEF StreamFollows
  <2>9. StreamStep(s)
    BY <1>1, <2>4, <2>6, OpenStep
  <2>. QED
    BY <1>1, <1>2, <2>2, <2>3, <2>4, <2>5, <2>7, <2>8, <2>9, OneStream
<1>4. ASSUME wstack' = [wstack EXCEPT ![s].pc = "failed"], task' = task
      PROVE  WinrtInv' /\ \A u \in WinrtStreams : StreamStep(u)
  <2>. DEFINE st == [wstack[s] EXCEPT !.pc = "failed"]
  <2>1. st.pc = "failed" /\ st.sent = wstack[s].sent /\ st \in Stacks
    BY <1>2 DEF Stacks
  <2>2. wstack' = [wstack EXCEPT ![s] = st] /\ wstack'[s] = st
    BY <1>1, <1>4 DEF WinrtTypeOK
  <2>. HIDE DEF st
  <2>3. SentIsFirst(st) /\ TaskIsSettled(st, task[s]) /\ StreamFollows(st, task[s], stream[s])
    BY <1>1, <2>1 DEF StreamInv, SentIsFirst, TaskIsSettled, StreamFollows
  <2>4. StreamStep(s)
    BY <1>1, <2>1, <2>2, FailStep
  <2>. QED
    BY <1>1, <1>2, <1>4, <2>1, <2>2, <2>3, <2>4, OneStream
<1>. QED
  BY <1>3, <1>4 DEF Winrt!ReadAsync

LEMMA WinrtSetCompleted ==
  ASSUME WinrtInv, NEW s \in WinrtStreams, Winrt!SetCompleted(s)
  PROVE  WinrtInv' /\ \A u \in WinrtStreams : StreamStep(u)
<1>1. /\ wstack[s].pc = "reading" /\ task[s].handler = "none" /\ todo' = todo
      /\ stream' = stream /\ wstack' = wstack /\ WinrtTypeOK /\ StreamInv(s)
  BY DEF Winrt!SetCompleted, Winrt!Reading, WinrtInv
<1>2. /\ stream[s] \in Entry /\ task[s] \in Tasks /\ wstack[s] \in Stacks
      /\ stream' = [stream EXCEPT ![s] = stream[s]]
      /\ wstack' = [wstack EXCEPT ![s] = wstack[s]]
  BY <1>1, WinrtTypes, Unchanged
<1>. DEFINE n == IF task[s].status = "started" THEN task[s].invoked ELSE task[s].invoked + 1
            t == [task[s] EXCEPT !.handler = "set", !.invoked = n]
<1>3. n \in Nat
  BY <1>1, WinrtTypes
<1>4. /\ t.handler = "set" /\ t.invoked = n /\ t.in = task[s].in /\ t.want = task[s].want
      /\ t.buf = task[s].buf /\ t.status = task[s].status /\ t \in Tasks
  BY <1>2, <1>3 DEF Tasks
<1>5. task' = [task EXCEPT ![s] = t]
  BY <1>1 DEF Winrt!SetCompleted, WinrtTypeOK
<1>. HIDE DEF t
<1>6. SentIsFirst(wstack[s]) /\ StreamFollows(wstack[s], t, stream[s])
  BY <1>1, <1>4 DEF StreamInv, StreamFollows
<1>7. TaskIsSettled(wstack[s], t)
  BY <1>1, <1>4 DEF StreamInv, TaskIsSettled
<1>8. StreamStep(s) /\ (s \in todo => t.in \/ s \in stuck') /\ stuck \subseteq stuck'
  BY <1>1, <1>4, OpenStep DEF WinrtInv, Winrt!SetCompleted, Winrt!HandlerBlocks
<1>. QED
  BY <1>1, <1>2, <1>4, <1>5, <1>6, <1>7, <1>8, OneStream

\* The stack takes the read to be over: its task leaves the collection.
LEMMA WinrtCancel ==
  ASSUME WinrtInv, NEW s \in WinrtStreams, Winrt!Cancel(s)
  PROVE  WinrtInv' /\ \A u \in WinrtStreams : StreamStep(u)
<1>1. /\ wstack[s].pc = "reading" /\ todo = {} /\ todo' = {}
      /\ stream' = stream /\ stuck' = stuck /\ WinrtTypeOK /\ StreamInv(s)
  BY DEF Winrt!Cancel, Winrt!Reading, WinrtInv
<1>2. /\ stream[s] \in Entry /\ task[s] \in Tasks /\ wstack[s] \in Stacks
      /\ stream' = [stream EXCEPT ![s] = stream[s]]
  BY <1>1, WinrtTypes, Unchanged
<1>. DEFINE t == [task[s] EXCEPT !.in = FALSE]
            st == [wstack[s] EXCEPT !.pc = "cancelled"]
<1>3. /\ t.in = FALSE /\ t.handler = task[s].handler /\ t.invoked = task[s].invoked
      /\ t \in Tasks /\ st.pc = "cancelled" /\ st.sent = wstack[s].sent /\ st \in Stacks
  BY <1>2 DEF Tasks, Stacks
<1>4. /\ task' = [task EXCEPT ![s] = t] /\ wstack' = [wstack EXCEPT ![s] = st]
      /\ wstack'[s] = st
  BY <1>1 DEF Winrt!Cancel, WinrtTypeOK
<1>. HIDE DEF t, st
<1>5. SentIsFirst(st) /\ TaskIsSettled(st, t) /\ StreamFollows(st, t, stream[s])
  BY <1>1, <1>3 DEF StreamInv, SentIsFirst, TaskIsSettled, StreamFollows
<1>6. StreamStep(s)
  BY <1>1, <1>3, <1>4, OpenStep
<1>. QED
  BY <1>1, <1>2, <1>3, <1>4, <1>5, <1>6, OneStream

LEMMA WinrtClose ==
  ASSUME WinrtInv, NEW s \in WinrtStreams, Winrt!Close(s)
  PROVE  WinrtInv' /\ \A u \in WinrtStreams : StreamStep(u)
<1>1. /\ wstack[s].pc = "reading" => todo = {}
      /\ todo' = todo /\ stuck' = stuck /\ WinrtTypeOK /\ StreamInv(s)
  BY DEF Winrt!Close, Winrt!Reading, WinrtInv
<1>2. stream[s] \in Entry /\ task[s] \in Tasks /\ wstack[s] \in Stacks
  BY <1>1, WinrtTypes
<1>. DEFINE t == [task[s] EXCEPT !.in = FALSE]
            st == [wstack[s] EXCEPT !.pc = "closed"]
            in == [stream[s] EXCEPT !.open = FALSE]
<1>3. /\ t.in = FALSE /\ t.handler = task[s].handler /\ t.invoked = task[s].invoked
      /\ t \in Tasks /\ st.pc = "closed" /\ st.sent = wstack[s].sent /\ st \in Stacks
      /\ in \in Entry
  BY <1>2 DEF Tasks, Stacks, Entry
<1>4. /\ task' = [task EXCEPT ![s] = t] /\ wstack' = [wstack EXCEPT ![s] = st]
      /\ wstack'[s] = st /\ stream' = [stream EXCEPT ![s] = in]
  BY <1>1 DEF Winrt!Close, WinrtTypeOK
<1>. HIDE DEF t, st, in
<1>5. SentIsFirst(st) /\ TaskIsSettled(st, t) /\ StreamFollows(st, t, in)
  BY <1>1, <1>3 DEF StreamInv, SentIsFirst, TaskIsSettled, StreamFollows
<1>6. StreamStep(s)
  BY <1>1, <1>3, <1>4, FailStep
<1>7. s \in todo => s \in stuck
  BY <1>1 DEF WinrtInv, StreamInv, TaskIsSettled
<1>. QED
  BY <1>1, <1>2, <1>3, <1>4, <1>5, <1>6, <1>7, OneStream

LEMMA WinrtSeek ==
  ASSUME WinrtInv, NEW s \in WinrtStreams, Winrt!Seek(s)
  PROVE  WinrtInv' /\ \A u \in WinrtStreams : StreamStep(u)
<1>1. /\ s \in WinrtSized /\ wstack[s].pc \in {"idle", "ended", "cancelled"}
      /\ todo' = todo /\ stuck' = stuck /\ task' = task /\ WinrtTypeOK /\ StreamInv(s)
  BY DEF Winrt!Seek, WinrtInv
<1>2. /\ stream[s] \in Entry /\ task[s] \in Tasks /\ wstack[s] \in Stacks
      /\ task' = [task EXCEPT ![s] = task[s]]
  BY <1>1, WinrtTypes, Unchanged
<1>. DEFINE st == [pc |-> "idle", sent |-> << >>]
            in == [stream[s] EXCEPT !.rewind = TRUE, !.pos = 0]
<1>3. /\ st.pc = "idle" /\ st.sent = << >> /\ st \in Stacks
      /\ in \in Entry /\ in.rewind = TRUE
  <2>1. << >> \in Seq(Nat)
    BY EmptySeq
  <2>2. st.pc = "idle" /\ st.sent = << >> /\ st \in Stacks
    BY <2>1 DEF Stacks
  <2>3. in \in Entry /\ in.rewind = TRUE
    BY <1>2 DEF Entry
  <2>. QED
    BY <2>2, <2>3
<1>4. /\ wstack' = [wstack EXCEPT ![s] = st] /\ wstack'[s] = st
      /\ stream' = [stream EXCEPT ![s] = in]
  BY <1>1 DEF Winrt!Seek, WinrtTypeOK
<1>. HIDE DEF st, in
<1>5. SentIsFirst(st)
  <2>1. Len(<< >>) = 0 /\ First(Len(<< >>)) = << >>
    BY FirstNone
  <2>. QED
    BY <1>3, <2>1, UploadsAssumption DEF SentIsFirst
<1>6. TaskIsSettled(st, task[s]) /\ StreamFollows(st, task[s], in)
  BY <1>1, <1>3 DEF StreamInv, TaskIsSettled, StreamFollows
<1>7. StreamStep(s)
  <2>1. Winrt!TransferState(s)' = "open"
    BY <1>3, <1>4, StateOfNext
  <2>. QED
    BY <1>1, <1>3, <1>4, <2>1 DEF StreamStep, Winrt!Transfer!Next, Winrt!Transfer!Rewind
<1>8. s \in todo => task[s].in \/ s \in stuck
  BY DEF WinrtInv
<1>. QED
  BY <1>1, <1>2, <1>3, <1>4, <1>5, <1>6, <1>7, <1>8, OneStream

\* The stack takes the results: the bytes of the read, or the end.
LEMMA WinrtGetResults ==
  ASSUME WinrtInv, NEW s \in WinrtStreams, Winrt!GetResults(s)
  PROVE  WinrtInv' /\ \A u \in WinrtStreams : StreamStep(u)
<1>1. /\ wstack[s].pc = "reading" /\ task[s].invoked > 0 /\ todo' = todo
      /\ s \notin stuck /\ stuck' = stuck /\ stream' = stream /\ WinrtTypeOK /\ StreamInv(s)
  BY DEF Winrt!GetResults, Winrt!Reading, WinrtInv
<1>2. /\ stream[s] \in Entry /\ task[s] \in Tasks /\ wstack[s] \in Stacks
      /\ stream' = [stream EXCEPT ![s] = stream[s]]
      /\ wstack[s].sent \in Seq(Nat) /\ task[s].buf \in Seq(Nat) /\ task[s].in \in BOOLEAN
      /\ stream[s].at \in 0..WinrtBytes
  BY <1>1, WinrtTypes, Unchanged
<1>. DEFINE t == [task[s] EXCEPT !.status = "started"]
<1>3. /\ t.in = task[s].in /\ t.handler = task[s].handler /\ t.invoked = task[s].invoked
      /\ t \in Tasks /\ t.status = "started"
  BY <1>2 DEF Tasks
<1>4. task' = [task EXCEPT ![s] = t]
  BY DEF Winrt!GetResults
<1>. HIDE DEF t
<1>5. task[s].in = FALSE /\ s \notin todo
  <2>1. ~task[s].in
    BY <1>1 DEF StreamInv, TaskIsSettled
  <2>. QED
    BY <1>1, <1>2, <2>1 DEF WinrtInv
<1>6. CASE task[s].status # "done"
  <2>. DEFINE st == [wstack[s] EXCEPT !.pc = "failed"]
  <2>1. st.pc = "failed" /\ st.sent = wstack[s].sent /\ st \in Stacks
    BY <1>2 DEF Stacks
  <2>2. wstack' = [wstack EXCEPT ![s] = st] /\ wstack'[s] = st
    BY <1>1, <1>6 DEF Winrt!GetResults, WinrtTypeOK
  <2>. HIDE DEF st
  <2>3. SentIsFirst(st) /\ TaskIsSettled(st, t) /\ StreamFollows(st, t, stream[s])
    BY <1>1, <1>3, <1>5, <2>1 DEF StreamInv, SentIsFirst, TaskIsSettled, StreamFollows
  <2>4. StreamStep(s)
    BY <1>1, <2>1, <2>2, FailStep
  <2>. QED
    BY <1>1, <1>2, <1>3, <1>4, <1>5, <2>1, <2>2, <2>3, <2>4, OneStream
<1>7. CASE task[s].status = "done"
  <2>. DEFINE p == Len(wstack[s].sent)
              n == Len(task[s].buf)
              pc1 == IF task[s].buf = << >> THEN "ended" ELSE "idle"
              st == [pc |-> pc1, sent |-> wstack[s].sent \o task[s].buf]
  <2>1. /\ p \in Nat /\ n \in Nat /\ wstack[s].sent = First(p) /\ task[s].buf = From(p, n)
        /\ stream[s].at = p + n /\ ~stream[s].rewind
        /\ task[s].buf = << >> => stream[s].at = WinrtBytes
    <3>1. p \in Nat /\ n \in Nat
      BY <1>2
    <3>2. wstack[s].sent = First(p)
      BY <1>1 DEF StreamInv, SentIsFirst
    <3>3. /\ task[s].buf = From(p, n) /\ stream[s].at = p + n /\ ~stream[s].rewind
          /\ task[s].buf = << >> => stream[s].at = WinrtBytes
      BY <1>1, <1>7 DEF StreamInv, StreamFollows
    <3>. QED
      BY <3>1, <3>2, <3>3
  <2>2. st.pc = pc1 /\ st.sent = wstack[s].sent \o task[s].buf
    OBVIOUS
  <2>3. st \in Stacks
    BY <1>2 DEF Stacks
  <2>4. wstack' = [wstack EXCEPT ![s] = st] /\ wstack'[s] = st
    BY <1>1, <1>7 DEF Winrt!GetResults, WinrtTypeOK
  <2>5. (n = 0 <=> task[s].buf = << >>) /\ pc1 = IF n = 0 THEN "ended" ELSE "idle"
    BY <1>2
  <2>. HIDE DEF p, n, pc1, st
  <2>6. st.sent = First(p + n) /\ Len(st.sent) = p + n /\ p + n \in Nat
    <3>1. First(p) \o From(p, n) = First(p + n)
      BY <2>1, FirstConcat
    <3>2. st.sent = First(p + n)
      BY <2>1, <2>2, <3>1, Zenon
    <3>3. p + n \in Nat
      BY <2>1
    <3>. QED
      BY <3>2, <3>3, FirstIsSeq
  <2>7. p + n \in 0..WinrtBytes /\ (n = 0 => p + n = WinrtBytes) /\ WinrtBytes \in Nat
    BY <1>2, <2>1, <2>5, UploadsAssumption
  <2>8. SentIsFirst(st)
    <3>1. st.sent = First(Len(st.sent))
      BY <2>6, Zenon
    <3>2. st.pc = "ended" => Len(st.sent) = WinrtBytes
      BY <2>2, <2>5, <2>6, <2>7
    <3>. QED
      BY <2>6, <2>7, <3>1, <3>2 DEF SentIsFirst
  <2>9. st.pc \in {"idle", "ended"}
    BY <2>2, <2>5
  <2>10. TaskIsSettled(st, t)
    BY <1>1, <1>3, <1>5, <2>9 DEF StreamInv, TaskIsSettled
  <2>11. StreamFollows(st, t, stream[s])
    BY <2>1, <2>6, <2>9 DEF StreamFollows
  <2>12. StreamStep(s)
    <3>. DEFINE whole == [i \in 1..WinrtBytes |-> i]
    <3>1. whole = First(WinrtBytes) /\ Len(whole) = WinrtBytes
      BY <2>7 DEF First, From
    <3>2. Winrt!TransferState(s) = "open"
      BY <1>1, StateOf
    <3>3. CASE n = 0
      <4>1. Winrt!TransferState(s)' = "ended"
        BY <2>2, <2>4, <2>5, <3>3, StateOfNext
      <4>2. wstack'[s].sent = whole
        BY <2>4, <2>6, <2>7, <3>1, <3>3
      <4>. QED
        BY <3>2, <4>1, <4>2
        DEF StreamStep, Winrt!Transfer!Next, Winrt!Transfer!End
    <3>4. CASE n # 0
      <4>1. Winrt!TransferState(s)' = "open"
        BY <2>2, <2>4, <2>5, <3>4, StateOfNext
      <4>2. p + n \in p + 1..Len(whole)
        BY <2>1, <2>7, <3>1, <3>4
      <4>3. wstack'[s].sent = SubSeq(whole, 1, p + n)
        <5>1. SubSeq(First(WinrtBytes), 1, p + n) = First(p + n)
          BY <2>7, FirstSub
        <5>. QED
          BY <2>4, <2>6, <3>1, <5>1
      <4>4. Len(wstack[s].sent) = p
        BY DEF p
      <4>. HIDE DEF whole
      <4>5. \E m \in Len(wstack[s].sent) + 1..Len(whole) :
              wstack'[s].sent = SubSeq(whole, 1, m)
        BY <4>2, <4>3, <4>4
      <4>. QED
        BY <3>2, <4>1, <4>5
        DEF StreamStep, Winrt!Transfer!Next, Winrt!Transfer!Deliver, whole
    <3>. QED
      BY <3>3, <3>4
  <2>. QED
    BY <1>1, <1>2, <1>3, <1>4, <1>5, <2>3, <2>4, <2>8, <2>10, <2>11, <2>12, OneStream
<1>. QED
  BY <1>6, <1>7

LEMMA FinishedTask ==
  ASSUME NEW t \in Tasks, NEW status \in {"done", "error"}
  PROVE  LET f == Winrt!Finished(t, status) IN
         /\ f \in Tasks /\ f.in = FALSE /\ f.status = status /\ f.buf = t.buf
         /\ t.handler = "set" => f.handler = "taken" /\ f.invoked = t.invoked + 1
         /\ t.handler # "set" => f.handler = t.handler /\ f.invoked = t.invoked
<1>. DEFINE i == IF t.handler = "set" THEN t.invoked + 1 ELSE t.invoked
            h == IF t.handler = "set" THEN "taken" ELSE t.handler
<1>1. i \in Nat /\ h \in {"none", "set", "taken"}
  BY DEF Tasks
<1>2. Winrt!Finished(t, status) =
        [t EXCEPT !.in = FALSE, !.status = status, !.invoked = i, !.handler = h]
  BY DEF Winrt!Finished
<1>. HIDE DEF i, h
<1>3. LET f == [t EXCEPT !.in = FALSE, !.status = status, !.invoked = i, !.handler = h] IN
      /\ f \in Tasks /\ f.in = FALSE /\ f.status = status /\ f.buf = t.buf
      /\ f.handler = h /\ f.invoked = i
  BY <1>1 DEF Tasks
<1>. QED
  BY <1>2, <1>3 DEF i, h

LEMMA WinrtPollStart ==
  ASSUME WinrtInv, Winrt!PollStart
  PROVE  WinrtInv' /\ \A u \in WinrtStreams : StreamStep(u)
<1>1. stream' = stream /\ task' = task /\ wstack' = wstack
  BY DEF Winrt!PollStart
<1>2. todo' = {s \in WinrtStreams : task[s].in}
  BY DEF Winrt!PollStart
<1>3. \A u \in WinrtStreams : StreamInv(u)' /\ StreamStep(u)
  BY <1>1, OtherStreams DEF WinrtInv
<1>. QED
  BY <1>1, <1>2, <1>3 DEF WinrtInv, WinrtTypeOK

LEMMA WinrtStreamReady ==
  ASSUME WinrtInv, NEW s \in WinrtStreams, Winrt!StreamReady(s)
  PROVE  WinrtInv' /\ \A u \in WinrtStreams : StreamStep(u)
<1>1. /\ stream' = stream /\ task' = task /\ wstack' = wstack /\ todo' = todo
      /\ stuck' = stuck
  BY DEF Winrt!StreamReady
<1>2. \A u \in WinrtStreams : StreamInv(u)' /\ StreamStep(u)
  BY <1>1, OtherStreams DEF WinrtInv
<1>. QED
  BY <1>1, <1>2 DEF WinrtInv, WinrtTypeOK

LEMMA WinrtDropFuture ==
  ASSUME WinrtInv, Winrt!DropFuture
  PROVE  WinrtInv' /\ \A u \in WinrtStreams : StreamStep(u)
<1>1. /\ stream' = stream /\ wstack' = wstack /\ todo' = {} /\ WinrtTypeOK
      /\ task' = [u \in WinrtStreams |-> [task[u] EXCEPT !.in = FALSE]]
  BY DEF Winrt!DropFuture, WinrtInv
<1>2. ASSUME NEW u \in WinrtStreams
      PROVE  task'[u] \in Tasks /\ StreamInv(u)' /\ StreamStep(u)
  <2>. DEFINE t == [task[u] EXCEPT !.in = FALSE]
  <2>1. task[u] \in Tasks
    BY <1>1, WinrtTypes
  <2>2. /\ t.in = FALSE /\ t.handler = task[u].handler /\ t.invoked = task[u].invoked
        /\ t.status = task[u].status /\ t.want = task[u].want /\ t.buf = task[u].buf
        /\ t \in Tasks
    BY <2>1 DEF Tasks
  <2>3. task'[u] = t
    BY <1>1
  <2>. HIDE DEF t
  <2>4. StreamInv(u)'
    <3>1. /\ SentIsFirst(wstack[u]) /\ TaskIsSettled(wstack[u], task[u])
          /\ StreamFollows(wstack[u], task[u], stream[u])
      BY DEF WinrtInv, StreamInv
    <3>2. TaskIsSettled(wstack[u], t)
      BY ONLY <2>2, <3>1 DEF TaskIsSettled
    <3>3. StreamFollows(wstack[u], t, stream[u])
      BY ONLY <2>2, <3>1 DEF StreamFollows
    <3>4. wstack'[u] = wstack[u] /\ task'[u] = t /\ stream'[u] = stream[u]
      BY <1>1, <2>3
    <3>. QED
      BY ONLY <3>1, <3>2, <3>3, <3>4 DEF StreamInv
  <2>5. Kept(u)
    BY <1>1 DEF Kept, Winrt!TransferState
  <2>. QED
    BY <2>2, <2>3, <2>4, <2>5, KeptStep
<1>3. WinrtTypeOK'
  BY <1>1, <1>2 DEF WinrtTypeOK
<1>. QED
  BY <1>1, <1>2, <1>3 DEF WinrtInv

\* A step of the future for one stream: the stack has what it had.
LEMMA TaskStep ==
  ASSUME WinrtInv, NEW s \in WinrtStreams, NEW in \in Entry, NEW t \in Tasks,
         s \in todo, wstack' = wstack,
         (todo' = todo \ {s} /\ stuck' = stuck) \/ (todo' = todo /\ stuck' = stuck \cup {s}),
         stream' = [stream EXCEPT ![s] = in], task' = [task EXCEPT ![s] = t],
         TaskIsSettled(wstack[s], t), StreamFollows(wstack[s], t, in)
  PROVE  WinrtInv' /\ \A u \in WinrtStreams : StreamStep(u)
<1>1. /\ wstack[s] \in Stacks /\ wstack' = [wstack EXCEPT ![s] = wstack[s]]
      /\ SentIsFirst(wstack[s])
  BY WinrtTypes, Unchanged DEF WinrtInv, StreamInv
<1>2. StreamStep(s)
  BY KeptStep DEF Kept, Winrt!TransferState
<1>3. todo' \subseteq todo /\ stuck \subseteq stuck' /\ (s \in todo' => s \in stuck')
  OBVIOUS
<1>. QED
  BY <1>1, <1>2, <1>3, OneStream

LEMMA WinrtPollTask ==
  ASSUME WinrtInv, NEW s \in WinrtStreams, Winrt!PollTask(s)
  PROVE  WinrtInv' /\ \A u \in WinrtStreams : StreamStep(u)
<1>1. /\ s \in todo /\ s \notin stuck /\ wstack' = wstack /\ WinrtTypeOK /\ StreamInv(s)
      /\ \/ todo' = todo \ {s} /\ stuck' = stuck
         \/ todo' = todo /\ stuck' = stuck \cup {s}
  BY DEF Winrt!PollTask, Winrt!HandlerBlocks, WinrtInv
<1>2. /\ stream[s] \in Entry /\ task[s] \in Tasks /\ wstack[s] \in Stacks
      /\ stream = [stream EXCEPT ![s] = stream[s]]
      /\ wstack[s].sent \in Seq(Nat) /\ task[s].buf \in Seq(Nat)
      /\ stream[s].at \in 0..WinrtBytes /\ stream[s].rewind \in BOOLEAN
      /\ task[s].want \in Nat /\ stream[s].pos \in Nat
  BY <1>1, WinrtTypes, Unchanged
<1>3. /\ task[s].in /\ wstack[s].pc = "reading" /\ task[s].status = "started"
      /\ task[s].invoked = 0 /\ task[s].handler # "taken" /\ task[s].want > 0
      /\ IF stream[s].rewind THEN wstack[s].sent = << >> /\ task[s].buf = << >>
         ELSE /\ stream[s].at = Len(wstack[s].sent) + Len(task[s].buf)
              /\ task[s].buf = From(Len(wstack[s].sent), Len(task[s].buf))
  <2>1. task[s].in
    BY <1>1 DEF WinrtInv, WinrtTypeOK
  <2>2. /\ wstack[s].pc = "reading" /\ task[s].status = "started"
        /\ task[s].invoked = 0 /\ task[s].handler # "taken"
    BY <1>1, <2>1 DEF StreamInv, TaskIsSettled
  <2>. QED
    BY <1>1, <2>1, <2>2 DEF StreamInv, StreamFollows
\* A task that leaves the collection is settled.
<1>4. ASSUME NEW t \in Tasks, t.handler = task[s].handler, t.invoked = task[s].invoked,
             NEW status \in {"done", "error"}
      PROVE  /\ Winrt!Finished(t, status) \in Tasks
             /\ Winrt!Finished(t, status).status = status
             /\ Winrt!Finished(t, status).buf = t.buf
             /\ TaskIsSettled(wstack[s], Winrt!Finished(t, status))
  <2>1. task[s].handler \in {"none", "set"}
    BY <1>2, <1>3 DEF Tasks
  <2>. DEFINE f == Winrt!Finished(t, status)
  <2>2. /\ f \in Tasks /\ f.in = FALSE /\ f.status = status /\ f.buf = t.buf
        /\ t.handler = "set" => f.handler = "taken" /\ f.invoked = t.invoked + 1
        /\ t.handler # "set" => f.handler = t.handler /\ f.invoked = t.invoked
    BY FinishedTask
  <2>. HIDE DEF f
  <2>3. TaskIsSettled(wstack[s], f)
    BY <1>3, <1>4, <2>1, <2>2 DEF TaskIsSettled
  <2>. QED
    BY <2>2, <2>3 DEF f
<1>5. ASSUME task' = [task EXCEPT ![s] = Winrt!Finished(task[s], "error")],
             NEW in \in Entry, stream' = [stream EXCEPT ![s] = in]
      PROVE  WinrtInv' /\ \A u \in WinrtStreams : StreamStep(u)
  <2>. DEFINE f == Winrt!Finished(task[s], "error")
  <2>1. f \in Tasks /\ f.status = "error" /\ TaskIsSettled(wstack[s], f)
    BY <1>2, <1>4
  <2>2. task' = [task EXCEPT ![s] = f]
    BY <1>5
  <2>. HIDE DEF f
  <2>3. StreamFollows(wstack[s], f, in)
    BY <1>3, <2>1 DEF StreamFollows
  <2>. QED
    BY <1>1, <1>5, <2>1, <2>2, <2>3, TaskStep
<1>6. CASE /\ task' = [task EXCEPT ![s].pended = TRUE]
           /\ UNCHANGED stream
  <2>. DEFINE t == [task[s] EXCEPT !.pended = TRUE]
  <2>1. /\ t.in = task[s].in /\ t.handler = task[s].handler /\ t.invoked = task[s].invoked
        /\ t.status = task[s].status /\ t.want = task[s].want /\ t.buf = task[s].buf
        /\ t \in Tasks
    BY <1>2 DEF Tasks
  <2>2. task' = [task EXCEPT ![s] = t]
    BY <1>1, <1>6 DEF WinrtTypeOK
  <2>. HIDE DEF t
  <2>3. TaskIsSettled(wstack[s], t) /\ StreamFollows(wstack[s], t, stream[s])
    BY <1>1, <2>1 DEF StreamInv, TaskIsSettled, StreamFollows
  <2>. QED
    BY <1>1, <1>2, <1>6, <2>1, <2>2, <2>3, TaskStep
<1>7. ASSUME NEW from \in 0..WinrtBytes,
             from = IF stream[s].rewind THEN 0 ELSE stream[s].at,
             NEW o \in Winrt!Outcomes(task[s], from), Winrt!Visited(s, from, o)
      PROVE  WinrtInv' /\ \A u \in WinrtStreams : StreamStep(u)
  <2>. DEFINE p == Len(wstack[s].sent)
              n == Len(task[s].buf)
              m == o.n
              pos1 == IF o.why = "error" THEN stream[s].pos ELSE stream[s].pos + m
              in == [stream[s] EXCEPT !.at = from + m, !.rewind = FALSE, !.pos = pos1]
              bytes == task[s].buf \o [i \in 1..m |-> from + i]
              pended == task[s].pended \/ o.why = "pending"
              t == [task[s] EXCEPT !.buf = bytes, !.pended = pended]
  <2>1. /\ m \in Nat /\ m <= WinrtBytes - from /\ m <= task[s].want - n
        /\ o.why \in {"full", "end", "pending", "short", "error"}
        /\ o.why = "full" => m = task[s].want - n
        /\ o.why = "end" => m = WinrtBytes - from
    BY <1>7 DEF Winrt!Outcomes
  <2>2. /\ p \in Nat /\ n \in Nat /\ from = p + n /\ task[s].buf = From(p, n)
        /\ WinrtBytes \in Nat
    <3>1. p \in Nat /\ n \in Nat /\ WinrtBytes \in Nat
      BY <1>2, UploadsAssumption
    <3>2. CASE stream[s].rewind
      <4>1. p = 0 /\ n = 0 /\ from = 0
        BY <1>3, <1>7, <3>2
      <4>2. From(0, 0) = << >>
        BY FromNone
      <4>. QED
        BY <1>3, <3>1, <3>2, <4>1, <4>2
    <3>3. CASE ~stream[s].rewind
      BY <1>3, <1>7, <3>1, <3>3
    <3>. QED
      BY <3>2, <3>3
  <2>3. pos1 \in Nat /\ from + m \in 0..WinrtBytes
    <3>. HIDE DEF p, n, m
    <3>1. from + m \in 0..WinrtBytes
      BY <2>1, <2>2
    <3>2. pos1 \in Nat
      BY <1>2, <2>1
    <3>. QED
      BY <3>1, <3>2
  <2>4. in \in Entry /\ in.rewind = FALSE /\ in.at = from + m
    <3>. HIDE DEF pos1, m
    <3>. QED
      BY <1>2, <2>3 DEF Entry
  <2>5. stream' = [stream EXCEPT ![s] = in]
    BY <1>7 DEF Winrt!Visited
  <2>6. bytes = From(p, n + m) /\ bytes \in Seq(Nat) /\ Len(bytes) = n + m
    <3>1. bytes = task[s].buf \o From(p + n, m)
      <4>1. from = p + n
        BY <2>2
      <4>. HIDE DEF p, n, m
      <4>. QED
        BY <4>1 DEF From
    <3>. HIDE DEF p, n, m, bytes
    <3>2. p \in Nat /\ n \in Nat /\ m \in Nat /\ n + m \in Nat
      BY <2>1, <2>2
    <3>3. From(p, n) \o From(p + n, m) = From(p, n + m)
      BY <3>2, FromConcat
    <3>4. bytes = From(p, n + m)
      BY <2>2, <3>1, <3>3, Zenon
    <3>5. From(p, n + m) \in Seq(Nat) /\ Len(From(p, n + m)) = n + m
      BY <3>2, FromIsSeq
    <3>. QED
      BY <3>4, <3>5, Zenon
  <2>7. /\ t \in Tasks /\ t.buf = bytes /\ t.handler = task[s].handler /\ t.in = task[s].in
        /\ t.invoked = task[s].invoked /\ t.status = "started" /\ t.want = task[s].want
    <3>1. pended \in BOOLEAN
      OBVIOUS
    <3>. HIDE DEF bytes, pended
    <3>. QED
      BY <1>2, <1>3, <2>6, <3>1 DEF Tasks
  <2>8. /\ o.why = "error" => task' = [task EXCEPT ![s] = Winrt!Finished(task[s], "error")]
        /\ o.why \in {"full", "end"} => task' = [task EXCEPT ![s] = Winrt!Finished(t, "done")]
        /\ o.why \in {"pending", "short"} => task' = [task EXCEPT ![s] = t]
    <3>. DEFINE v == CASE o.why = "error" -> Winrt!Finished(task[s], "error")
                       [] o.why \in {"full", "end"} -> Winrt!Finished(t, "done")
                       [] OTHER -> t
    <3>1. task' = [task EXCEPT ![s] = v]
      BY <1>7 DEF Winrt!Visited
    <3>. HIDE DEF t
    <3>2. /\ o.why = "error" => o.why \notin {"full", "end"}
          /\ o.why \in {"pending", "short"} => o.why # "error" /\ o.why \notin {"full", "end"}
      OBVIOUS
    <3>3. /\ o.why = "error" => v = Winrt!Finished(task[s], "error")
          /\ o.why \in {"full", "end"} => v = Winrt!Finished(t, "done")
          /\ o.why \in {"pending", "short"} => v = t
      BY <3>2, Zenon
    <3>. HIDE DEF v
    <3>. QED
      BY <3>1, <3>3
  <2>. HIDE DEF p, n, m, pos1, in, bytes, pended, t
  <2>9. CASE o.why = "error"
    BY <1>5, <2>4, <2>5, <2>8, <2>9
  <2>10. CASE o.why \in {"full", "end"}
    <3>. DEFINE f == Winrt!Finished(t, "done")
    <3>1. f \in Tasks /\ f.status = "done" /\ f.buf = bytes /\ TaskIsSettled(wstack[s], f)
      BY <1>4, <2>7
    <3>2. task' = [task EXCEPT ![s] = f]
      BY <2>8, <2>10
    <3>. HIDE DEF f
    <3>3. bytes = << >> => in.at = WinrtBytes
      <4>1. bytes = << >> => n + m = 0
        BY <2>6
      <4>2. o.why = "full" => n + m > 0
        BY <1>2, <1>3, <2>1, <2>2
      <4>. QED
        BY <2>1, <2>2, <2>4, <2>10, <4>1, <4>2
    <3>4. in.at = p + (n + m)
      BY <2>1, <2>2, <2>4
    <3>5. StreamFollows(wstack[s], f, in)
      <4>1. Len(wstack[s].sent) = p /\ Len(f.buf) = n + m
        BY <2>6, <3>1 DEF p
      <4>. QED
        BY <1>3, <2>4, <2>6, <3>1, <3>3, <3>4, <4>1 DEF StreamFollows
    <3>. QED
      BY <1>1, <2>4, <2>5, <3>1, <3>2, <3>5, TaskStep
  <2>11. CASE o.why \in {"pending", "short"}
    <3>1. task' = [task EXCEPT ![s] = t]
      BY <2>8, <2>11
    <3>2. TaskIsSettled(wstack[s], t)
      BY <1>1, <1>3, <2>7 DEF StreamInv, TaskIsSettled
    <3>3. in.at = p + (n + m)
      BY <2>1, <2>2, <2>4
    <3>4. StreamFollows(wstack[s], t, in)
      <4>1. Len(wstack[s].sent) = p /\ Len(t.buf) = n + m
        BY <2>6, <2>7 DEF p
      <4>. QED
        BY <1>3, <2>4, <2>6, <2>7, <3>3, <4>1 DEF StreamFollows
    <3>. QED
      BY <1>1, <2>4, <2>5, <2>7, <3>1, <3>2, <3>4, TaskStep
  <2>. QED
    BY <2>1, <2>9, <2>10, <2>11
<1>8. CASE /\ ~stream[s].open \/ stream[s].rewind
           /\ task' = [task EXCEPT ![s] = Winrt!Finished(@, "error")] /\ UNCHANGED stream
  <2>1. task' = [task EXCEPT ![s] = Winrt!Finished(task[s], "error")]
    BY <1>1, <1>8 DEF WinrtTypeOK
  <2>2. stream' = [stream EXCEPT ![s] = stream[s]]
    BY <1>2, <1>8
  <2>. QED
    BY <1>2, <1>5, <2>1, <2>2
<1>9. ASSUME NEW o \in Winrt!Outcomes(task[s], IF stream[s].rewind THEN 0 ELSE stream[s].at),
             Winrt!Visited(s, IF stream[s].rewind THEN 0 ELSE stream[s].at, o)
      PROVE  WinrtInv' /\ \A u \in WinrtStreams : StreamStep(u)
  <2>. DEFINE from == IF stream[s].rewind THEN 0 ELSE stream[s].at
  <2>1. from \in 0..WinrtBytes
    BY <1>2, UploadsAssumption
  <2>. QED
    BY <1>7, <1>9, <2>1
<1>. QED
  BY <1>6, <1>8, <1>9 DEF Winrt!PollTask

LEMMA WinrtNext ==
  ASSUME WinrtInv, [Winrt!Next]_(Winrt!vars)
  PROVE  WinrtInv' /\ \A u \in WinrtStreams : StreamStep(u)
<1>1. CASE UNCHANGED Winrt!vars
  <2>1. /\ stream' = stream /\ task' = task /\ wstack' = wstack /\ todo' = todo
        /\ stuck' = stuck
    BY <1>1 DEF Winrt!vars
  <2>2. \A u \in WinrtStreams : StreamInv(u)' /\ StreamStep(u)
    BY <2>1, OtherStreams DEF WinrtInv
  <2>. QED
    BY <2>1, <2>2 DEF WinrtInv, WinrtTypeOK
<1>. QED
  BY <1>1, WinrtReadAsync, WinrtSetCompleted, WinrtGetResults, WinrtCancel, WinrtSeek,
     WinrtClose, WinrtPollStart, WinrtPollTask, WinrtDropFuture, WinrtStreamReady
  DEF Winrt!Next, Winrt!Poll, Winrt!Answer

\* A read is answered once, whether its handler is registered before or after the
\* future completes it, for any streams, rewinds, cancelled reads and dropped futures.
THEOREM WinrtAnswersOnce == UploadsSpec => []InvokedOnce
<1>1. UploadsInit => WinrtInv
  BY WinrtInit DEF UploadsInit
<1>2. WinrtInv /\ [UploadsNext]_UploadsVars => WinrtInv'
  BY WinrtNext, UploadsStep
<1>3. WinrtInv => InvokedOnce
  <2>. SUFFICES ASSUME WinrtInv, NEW s \in WinrtStreams
                PROVE  /\ task[s].invoked <= 1
                       /\ task[s].invoked = 1 => ~task[s].in
                       /\ /\ Winrt!Reading(s) /\ task[s].handler # "none"
                          /\ task[s].status # "started"
                          => task[s].invoked = 1
    BY DEF InvokedOnce, Winrt!InvokedOnce
  <2>. QED
    BY DEF WinrtInv, StreamInv, TaskIsSettled, Winrt!Reading
<1>. QED
  BY <1>1, <1>2, <1>3, PTL DEF UploadsSpec

\* The stacks of both clients have a beginning of each stream at all times, whatever
\* short, pending, partial, cancelled and failed reads, rewinds and closes fall together,
\* and are told of its end with the last byte.
THEOREM WinrtUploadsAreByteStreams == UploadsSpec => WinrtBodiesAreUploaded
<1>1. UploadsInit =>
        /\ WinrtInv /\ \A s \in WinrtStreams : Winrt!Transfer(s)!Init
        /\ SyncInv /\ WinrtBlocking!Transfer!Init
  BY WinrtInit, SyncInit DEF UploadsInit
<1>2. WinrtInv /\ [UploadsNext]_UploadsVars => WinrtInv'
  BY WinrtNext, UploadsStep
<1>3. WinrtInv /\ [UploadsNext]_UploadsVars
        => [\A s \in WinrtStreams :
              [Winrt!Transfer(s)!Next]_<<wstack[s].sent, Winrt!TransferState(s)>>
           ]_(Winrt!vars)
  BY WinrtNext, UploadsStep DEF StreamStep
<1>4. SyncInv /\ [UploadsNext]_UploadsVars
        => SyncInv' /\ [WinrtBlocking!Transfer!Next]_<<bsent, bstack>>
  BY SyncNext, UploadsStep DEF SyncStep
<1>. QED
  BY <1>1, <1>2, <1>3, <1>4, PTL
  DEF UploadsSpec, WinrtBodiesAreUploaded, Winrt!BodyIsUploaded,
      WinrtBlocking!BodyIsUploaded, WinrtBlocking!Transfer!Spec

-----------------------------------------------------------------------------
(* reqwest's clients.                                                      *)

Items == [kind: {"data", "error"}, bytes: Seq(Nat)]
Contents == [sized: BOOLEAN, len: Nat]

ReqwestTypeOK ==
  /\ content \in ReqwestBodies /\ mode \in {"inside", "outside", "blocking"}
  /\ left \in Seq(Nat) /\ rsent \in Seq(Nat)
  /\ future \in {"running", "gone"}
  /\ rtask \in {"wait", "check", "parked", "read", "done"}
  /\ chan \in {<<>>} \cup {<<item>> : item \in Items}
  /\ reading \in [kind: {"Ready", "Reading", "Read", "ReadError", "Invalid"}, buf: Seq(Nat)]
  /\ body \in {"new", "opening", "open", "ended", "failed"}

\* The bytes on their way to hyper, in the channel or with the thread.
Flight ==
  IF mode = "blocking" THEN reading.buf ELSE IF chan = <<>> THEN <<>> ELSE chan[1].bytes

\* hyper has sent a beginning of the body, and all of what it takes for whole while
\* the request future runs.
ReqwestSentIsFirst ==
  /\ Len(rsent) \in 0..content.len /\ rsent = First(Len(rsent))
  /\ body = "ended" /\ future = "running" => Len(rsent) = content.len

\* Until the body is over, the bytes sent, on their way and left are those of the body.
BytesAreKept ==
  body \in {"new", "opening", "open"} =>
    /\ Flight = From(Len(rsent), Len(Flight))
    /\ left = From(Len(rsent) + Len(Flight), Len(left))
    /\ Len(rsent) + Len(Flight) + Len(left) = content.len

\* Where an empty buffer stands for the end, nothing is left.
EndsAreWhole ==
  /\ mode = "blocking" =>
       /\ chan = <<>> /\ future = "running" /\ body # "opening"
       /\ reading.kind # "Read" => reading.buf = <<>>
       /\ reading.kind = "Read" /\ reading.buf = <<>> /\ body \in {"new", "open"}
            => left = <<>>
       /\ reading.kind = "Invalid" => body = "failed"
  /\ mode # "blocking" =>
       /\ chan # <<>> /\ chan[1].kind = "data" /\ chan[1].bytes = <<>>
          /\ body \in {"new", "opening", "open"} => left = <<>>
       /\ chan # <<>> /\ chan[1].kind = "error" => chan[1].bytes = <<>>
       /\ future = "running" /\ rtask = "done" =>
            \/ body \in {"ended", "failed"}
            \/ chan # <<>> /\ chan[1].bytes = <<>>

ReqwestInv == ReqwestTypeOK /\ ReqwestSentIsFirst /\ BytesAreKept /\ EndsAreWhole

\* The bytes of a stream, cut.
LEMMA FromSub ==
  ASSUME NEW p \in Nat, NEW l \in Nat, NEW n \in 0..l
  PROVE  /\ SubSeq(From(p, l), 1, n) = From(p, n)
         /\ SubSeq(From(p, l), n + 1, l) = From(p + n, l - n)
<1>1. SubSeq(From(p, l), 1, n) = From(p, n)
  BY DEF From
<1>2. SubSeq(From(p, l), n + 1, l) = From(p + n, l - n)
  <2>1. Len(SubSeq(From(p, l), n + 1, l)) = l - n
    BY DEF From
  <2>. QED
    BY <2>1 DEF From
<1>. QED
  BY <1>1, <1>2

Whole == Reqwest!Whole(content)

LEMMA WholeIs ==
  ASSUME ReqwestTypeOK
  PROVE  /\ content.len \in Nat /\ content.sized \in BOOLEAN
         /\ Whole = First(content.len) /\ Len(Whole) = content.len
<1>1. content.len \in Nat /\ content.sized \in BOOLEAN
  BY UploadsAssumption DEF ReqwestTypeOK
<1>2. Whole = First(content.len)
  BY <1>1 DEF Whole, Reqwest!Whole, First, From
<1>. QED
  BY <1>1, <1>2, FirstIsSeq

LEMMA ReqwestState ==
  ASSUME ReqwestTypeOK
  PROVE  /\ body \in {"new", "opening", "open"} => Reqwest!TransferState = "open"
         /\ body = "ended" /\ (rsent = Whole \/ future = "running")
              => Reqwest!TransferState = "ended"
         /\ body = "ended" /\ ~(rsent = Whole \/ future = "running")
              => Reqwest!TransferState = "failed"
         /\ body = "failed" => Reqwest!TransferState = "failed"
<1>. DEFINE e == IF rsent = Whole \/ future = "running" THEN "ended" ELSE "failed"
<1>1. Reqwest!TransferState =
        CASE body \in {"new", "opening", "open"} -> "open" [] body = "ended" -> e
          [] body = "failed" -> "failed" [] OTHER -> body
  BY DEF Reqwest!TransferState, Whole
<1>2. /\ body \in {"new", "opening", "open"} => body # "ended" /\ body # "failed"
      /\ body = "ended" => body \notin {"new", "opening", "open"} /\ body # "failed"
      /\ body = "failed" => body \notin {"new", "opening", "open"} /\ body # "ended"
  OBVIOUS
<1>. HIDE DEF e
<1>3. /\ body \in {"new", "opening", "open"} => Reqwest!TransferState = "open"
      /\ body = "ended" => Reqwest!TransferState = e
      /\ body = "failed" => Reqwest!TransferState = "failed"
  BY <1>1, <1>2, Zenon
<1>. QED
  BY <1>3 DEF e

LEMMA ReqwestStateNext ==
  ASSUME ReqwestTypeOK', content' = content
  PROVE  /\ body' \in {"new", "opening", "open"} => Reqwest!TransferState' = "open"
         /\ body' = "ended" /\ (rsent' = Whole \/ future' = "running")
              => Reqwest!TransferState' = "ended"
         /\ body' = "ended" /\ ~(rsent' = Whole \/ future' = "running")
              => Reqwest!TransferState' = "failed"
         /\ body' = "failed" => Reqwest!TransferState' = "failed"
<1>. DEFINE e == IF rsent' = Whole \/ future' = "running" THEN "ended" ELSE "failed"
<1>1. Reqwest!TransferState' =
        CASE body' \in {"new", "opening", "open"} -> "open" [] body' = "ended" -> e
          [] body' = "failed" -> "failed" [] OTHER -> body'
  BY DEF Reqwest!TransferState, Whole
<1>2. /\ body' \in {"new", "opening", "open"} => body' # "ended" /\ body' # "failed"
      /\ body' = "ended" => body' \notin {"new", "opening", "open"} /\ body' # "failed"
      /\ body' = "failed" => body' \notin {"new", "opening", "open"} /\ body' # "ended"
  OBVIOUS
<1>. HIDE DEF e
<1>3. /\ body' \in {"new", "opening", "open"} => Reqwest!TransferState' = "open"
      /\ body' = "ended" => Reqwest!TransferState' = e
      /\ body' = "failed" => Reqwest!TransferState' = "failed"
  BY <1>1, <1>2, Zenon
<1>. QED
  BY <1>3 DEF e

\* A step of the ByteStream of the body that is sent.
ReqwestStep ==
  \A b \in ReqwestBodies :
    content = b => [Reqwest!Transfer(b)!Next]_<<rsent, Reqwest!TransferState>>

LEMMA KeepStep ==
  ASSUME rsent' = rsent, Reqwest!TransferState' = Reqwest!TransferState
  PROVE  ReqwestStep
  BY DEF ReqwestStep

LEMMA BodyFails ==
  ASSUME Reqwest!TransferState \in {"open", "ended", "failed"},
         Reqwest!TransferState' = "failed", rsent' = rsent
  PROVE  ReqwestStep
  BY
  DEF ReqwestStep, Reqwest!Transfer!Next, Reqwest!Transfer!Fail, Reqwest!Transfer!Abandon

LEMMA BodyEnds ==
  ASSUME ReqwestTypeOK, Reqwest!TransferState = "open", Reqwest!TransferState' = "ended",
         rsent' = Whole
  PROVE  ReqwestStep
  BY DEF ReqwestStep, Reqwest!Transfer!Next, Reqwest!Transfer!End, Whole

LEMMA BodyGoesOn ==
  ASSUME ReqwestTypeOK, Reqwest!TransferState = "open", Reqwest!TransferState' = "open",
         NEW n \in Len(rsent) + 1..Len(Whole), rsent' = SubSeq(Whole, 1, n)
  PROVE  ReqwestStep
  BY DEF ReqwestStep, Reqwest!Transfer!Next, Reqwest!Transfer!Deliver, Whole

LEMMA ReqwestInit ==
  ASSUME Reqwest!Init
  PROVE  ReqwestInv /\ rsent = << >> /\ Reqwest!TransferState = "open"
<1>1. /\ mode \in {"inside", "outside", "blocking"} /\ content \in ReqwestBodies
      /\ left = Reqwest!Whole(content) /\ future = "running" /\ rtask = "wait"
      /\ chan = << >> /\ reading = [kind |-> "Ready", buf |-> << >>]
      /\ body = "new" /\ rsent = << >>
  BY DEF Reqwest!Init
<1>2. content.len \in Nat /\ << >> \in Seq(Nat) /\ Len(<< >>) = 0
  BY <1>1, UploadsAssumption, EmptySeq
<1>3. left = From(0, content.len) /\ left \in Seq(Nat) /\ Len(left) = content.len
  <2>1. left = From(0, content.len)
    BY <1>1 DEF Reqwest!Whole, From
  <2>. QED
    BY <1>2, <2>1, FromIsSeq
<1>4. ReqwestTypeOK
  <2>1. reading \in [kind: {"Ready", "Reading", "Read", "ReadError", "Invalid"}, buf: Seq(Nat)]
    BY <1>1, <1>2
  <2>. QED
    BY <1>1, <1>2, <1>3, <2>1 DEF ReqwestTypeOK
<1>5. ReqwestSentIsFirst
  BY <1>1, <1>2, FirstNone DEF ReqwestSentIsFirst
<1>6. Flight = << >>
  BY <1>1 DEF Flight
<1>7. BytesAreKept
  <2>1. From(0, 0) = << >>
    BY FromNone
  <2>. QED
    BY <1>1, <1>2, <1>3, <1>6, <2>1 DEF BytesAreKept
<1>8. EndsAreWhole
  BY <1>1 DEF EndsAreWhole
<1>. QED
  BY <1>1, <1>4, <1>5, <1>7, <1>8, ReqwestState DEF ReqwestInv

\* hyper takes a buffer: the next bytes of the body or, when it is empty, the end.
LEMMA FrameStep ==
  ASSUME ReqwestInv, body \in {"new", "open"}, NEW bytes \in Seq(Nat),
         bytes = From(Len(rsent), Len(bytes)), Len(rsent) + Len(bytes) <= content.len,
         bytes = << >> /\ future = "running" => Len(rsent) = content.len,
         Reqwest!Frame(bytes), content' = content, future' = future
  PROVE  /\ rsent' \in Seq(Nat) /\ Len(rsent') = Len(rsent) + Len(bytes)
         /\ body' \in {"open", "ended", "failed"} /\ ReqwestSentIsFirst'
         /\ body' = "open" => bytes # << >>
         /\ ReqwestTypeOK' => ReqwestStep
<1>. DEFINE p == Len(rsent)
            n == Len(bytes)
<1>1. /\ p \in Nat /\ n \in Nat /\ content.len \in Nat /\ content.sized \in BOOLEAN
      /\ rsent = First(p) /\ p + n \in 0..content.len /\ bytes = From(p, n)
      /\ Whole = First(content.len) /\ Len(Whole) = content.len /\ rsent \in Seq(Nat)
  <2>1. p \in Nat /\ n \in Nat /\ rsent \in Seq(Nat)
    BY DEF ReqwestInv, ReqwestTypeOK
  <2>2. /\ content.len \in Nat /\ content.sized \in BOOLEAN
        /\ Whole = First(content.len) /\ Len(Whole) = content.len
    BY WholeIs DEF ReqwestInv
  <2>3. rsent = First(p)
    BY DEF ReqwestInv, ReqwestSentIsFirst
  <2>. QED
    BY <2>1, <2>2, <2>3
<1>2. rsent' = rsent \o bytes
  BY DEF Reqwest!Frame
<1>3. n = 0 <=> bytes = << >>
  OBVIOUS
<1>. HIDE DEF p, n
<1>4. rsent' = First(p + n) /\ Len(rsent') = p + n /\ rsent' \in Seq(Nat) /\ p + n \in Nat
  <2>1. First(p) \o From(p, n) = First(p + n)
    BY <1>1, FirstConcat
  <2>2. rsent' = First(p + n)
    BY <1>1, <1>2, <2>1, Zenon
  <2>3. p + n \in Nat
    BY <1>1
  <2>. QED
    BY <2>2, <2>3, FirstIsSeq
<1>5. Len(rsent \o bytes) = p + n
  BY <1>2, <1>4
<1>6. /\ content.sized /\ p + n >= content.len => body' = "ended"
      /\ ~(content.sized /\ p + n >= content.len) /\ n # 0 => body' = "open"
      /\ ~(content.sized /\ p + n >= content.len) /\ n = 0
           => body' \in {"ended", "failed"}
  BY <1>3, <1>5 DEF Reqwest!Frame, Reqwest!AllThere
<1>7. body' \in {"open", "ended", "failed"}
  BY <1>6
<1>8. body' = "ended" /\ (n # 0 \/ future = "running") => p + n = content.len
  <2>1. CASE content.sized /\ p + n >= content.len
    <3>1. p + n >= content.len
      BY <2>1
    <3>. QED
      BY <1>1, <3>1
  <2>2. CASE ~(content.sized /\ p + n >= content.len)
    <3>1. p = Len(rsent)
      BY DEF p
    <3>. QED
      BY <1>1, <1>3, <1>6, <2>2, <3>1
  <2>. QED
    BY <2>1, <2>2
<1>9. ReqwestSentIsFirst'
  <2>1. rsent' = First(Len(rsent'))
    BY <1>4, Zenon
  <2>. QED
    BY <1>1, <1>4, <1>8, <2>1 DEF ReqwestSentIsFirst
<1>10. ASSUME ReqwestTypeOK' PROVE ReqwestStep
  <2>1. Reqwest!TransferState = "open" /\ ReqwestTypeOK
    BY ReqwestState DEF ReqwestInv
  <2>2. CASE body' = "ended" /\ p + n = content.len
    <3>1. rsent' = Whole
      BY <1>1, <1>4, <2>2
    <3>. QED
      BY <1>10, <2>1, <2>2, <3>1, ReqwestStateNext, BodyEnds
  <2>3. CASE body' = "failed" \/ (body' = "ended" /\ p + n # content.len)
    <3>1. n = 0 /\ (body' = "ended" => future = "gone")
      BY <1>6, <1>8, <2>1, <2>3 DEF ReqwestTypeOK
    <3>2. rsent' = rsent
      BY <1>1, <1>4, <3>1
    <3>3. body' = "ended" => rsent' # Whole
      BY <1>1, <1>4, <2>3
    <3>4. Reqwest!TransferState' = "failed"
      BY <1>10, <2>3, <3>1, <3>3, ReqwestStateNext
    <3>. QED
      BY <2>1, <3>2, <3>4, BodyFails
  <2>4. CASE body' = "open"
    <3>1. n # 0
      BY <1>6, <2>4
    <3>2. p + n \in p + 1..Len(Whole)
      BY <1>1, <3>1
    <3>3. rsent' = SubSeq(Whole, 1, p + n)
      <4>1. SubSeq(First(content.len), 1, p + n) = First(p + n)
        BY <1>1, FirstSub
      <4>. QED
        BY <1>1, <1>4, <4>1
    <3>4. Reqwest!TransferState' = "open"
      BY <1>10, <2>4, ReqwestStateNext
    <3>5. p + n \in Len(rsent) + 1..Len(Whole)
      BY <3>2 DEF p
    <3>. QED
      BY <2>1, <3>3, <3>4, <3>5, BodyGoesOn
  <2>. QED
    BY <1>7, <2>2, <2>3, <2>4
<1>11. p + n = Len(rsent) + Len(bytes)
  BY DEF p, n
<1>12. body' = "open" => bytes # << >>
  BY <1>3, <1>6
<1>. QED
  BY <1>4, <1>7, <1>9, <1>10, <1>11, <1>12

\* A step that neither takes nor gives a byte.
LEMMA QuietSteps ==
  ASSUME ReqwestInv,
         Reqwest!Register \/ Reqwest!Check \/ Reqwest!Woken \/ Reqwest!SetOpen
           \/ Reqwest!WakeTask
  PROVE  ReqwestInv' /\ ReqwestStep
<1>1. /\ UNCHANGED <<mode, content, left, future, chan, reading, rsent>>
      /\ \/ body' = body
         \/ body \in {"new", "opening", "open"} /\ body' \in {"opening", "open"}
  BY
  DEF Reqwest!Register, Reqwest!Check, Reqwest!Woken, Reqwest!SetOpen, Reqwest!WakeTask,
         Reqwest!conf
<1>2. rtask' = rtask \/ rtask' \in {"wait", "check", "parked", "read"}
  BY DEF Reqwest!Register, Reqwest!Check, Reqwest!Woken, Reqwest!SetOpen, Reqwest!WakeTask
<1>3. mode = "blocking" => body' = body
  BY
  DEF Reqwest!Register, Reqwest!Check, Reqwest!Woken, Reqwest!SetOpen, Reqwest!WakeTask,
         Reqwest!Driven, Reqwest!Async, ReqwestInv, EndsAreWhole, ReqwestTypeOK
<1>4. ReqwestTypeOK'
  BY <1>1, <1>2 DEF ReqwestInv, ReqwestTypeOK
<1>5. Flight' = Flight
  BY <1>1 DEF Flight
<1>6. ReqwestSentIsFirst' /\ BytesAreKept'
  BY <1>1, <1>5 DEF ReqwestInv, ReqwestSentIsFirst, BytesAreKept
<1>7. EndsAreWhole'
  BY <1>1, <1>2, <1>3 DEF ReqwestInv, EndsAreWhole
<1>8. ReqwestTypeOK /\ Reqwest!TransferState' = Reqwest!TransferState
  BY <1>1, <1>4, ReqwestState, ReqwestStateNext DEF ReqwestInv, ReqwestTypeOK
<1>. QED
  BY <1>1, <1>4, <1>6, <1>7, <1>8, KeepStep DEF ReqwestInv

LEMMA EmptyStep ==
  ASSUME ReqwestInv, Reqwest!Empty
  PROVE  ReqwestInv' /\ ReqwestStep
<1>1. /\ body = "new" /\ body' = "ended" /\ content.sized /\ Len(rsent) >= content.len
      /\ UNCHANGED <<mode, content, left, future, rtask, chan, reading, rsent>>
  BY DEF Reqwest!Empty, Reqwest!AllThere, Reqwest!conf
<1>2. /\ ReqwestTypeOK /\ Len(rsent) \in 0..content.len /\ rsent = First(Len(rsent))
      /\ content.len \in Nat /\ Whole = First(content.len)
  BY WholeIs DEF ReqwestInv, ReqwestSentIsFirst
<1>3. Len(rsent) = content.len
  <2>1. Len(rsent) >= content.len
    BY <1>1
  <2>. QED
    BY <1>2, <2>1
<1>4. rsent' = Whole
  BY <1>1, <1>2, <1>3
<1>5. ReqwestTypeOK'
  BY <1>1, <1>2 DEF ReqwestTypeOK
<1>6. ReqwestSentIsFirst' /\ BytesAreKept' /\ EndsAreWhole'
  BY <1>1, <1>3 DEF ReqwestInv, ReqwestSentIsFirst, BytesAreKept, EndsAreWhole
<1>7. Reqwest!TransferState = "open" /\ Reqwest!TransferState' = "ended"
  BY <1>1, <1>2, <1>4, <1>5, ReqwestState, ReqwestStateNext
<1>. QED
  BY <1>2, <1>4, <1>5, <1>6, <1>7, BodyEnds DEF ReqwestInv

LEMMA DisconnectStep ==
  ASSUME ReqwestInv, Reqwest!Disconnect
  PROVE  ReqwestInv' /\ ReqwestStep
<1>1. /\ body \in {"new", "open"} /\ body' = "failed"
      /\ UNCHANGED <<mode, content, left, future, rtask, chan, reading, rsent>>
  BY DEF Reqwest!Disconnect, Reqwest!conf
<1>2. ReqwestTypeOK /\ ReqwestTypeOK'
  BY <1>1 DEF ReqwestInv, ReqwestTypeOK
<1>3. ReqwestSentIsFirst' /\ BytesAreKept' /\ EndsAreWhole'
  BY <1>1 DEF ReqwestInv, ReqwestSentIsFirst, BytesAreKept, EndsAreWhole
<1>4. Reqwest!TransferState = "open" /\ Reqwest!TransferState' = "failed"
  BY <1>1, <1>2, ReqwestState, ReqwestStateNext
<1>. QED
  BY <1>1, <1>2, <1>3, <1>4, BodyFails DEF ReqwestInv

LEMMA LeaveStep ==
  ASSUME ReqwestInv, Reqwest!Leave
  PROVE  ReqwestInv' /\ ReqwestStep
<1>1. /\ mode # "blocking" /\ future = "running" /\ future' = "gone" /\ rtask' = "done"
      /\ body' = body \/ (body # "ended" /\ body' = "failed")
      /\ UNCHANGED <<mode, content, left, chan, reading, rsent>>
  BY DEF Reqwest!Leave, Reqwest!Driven, Reqwest!Async, Reqwest!conf
<1>2. ReqwestTypeOK
  BY DEF ReqwestInv
<1>3. ReqwestTypeOK'
  BY <1>1, <1>2 DEF ReqwestTypeOK
<1>4. ReqwestSentIsFirst' /\ EndsAreWhole'
  BY <1>1 DEF ReqwestInv, ReqwestSentIsFirst, EndsAreWhole
<1>5. BytesAreKept'
  <2>1. Flight' = Flight
    BY <1>1 DEF Flight
  <2>. QED
    BY <1>1, <2>1 DEF ReqwestInv, BytesAreKept
<1>6. CASE body' = body
  <2>1. body = "ended" => rsent = Whole
    <3>1. body = "ended" => Len(rsent) = content.len /\ rsent = First(Len(rsent))
      BY <1>1 DEF ReqwestInv, ReqwestSentIsFirst
    <3>. QED
      BY <1>2, <3>1, WholeIs
  <2>2. body \in {"new", "opening", "open", "ended", "failed"} /\ rsent' = rsent
    BY <1>1, <1>2 DEF ReqwestTypeOK
  <2>3. Reqwest!TransferState' = Reqwest!TransferState
    BY <1>1, <1>2, <1>3, <1>6, <2>1, <2>2, ReqwestState, ReqwestStateNext
  <2>. QED
    BY <1>3, <1>4, <1>5, <2>2, <2>3, KeepStep DEF ReqwestInv
<1>7. CASE body # "ended" /\ body' = "failed"
  <2>1. Reqwest!TransferState \in {"open", "ended", "failed"}
    BY <1>2, ReqwestState DEF ReqwestTypeOK
  <2>2. Reqwest!TransferState' = "failed"
    BY <1>1, <1>3, <1>7, ReqwestStateNext
  <2>. QED
    BY <1>1, <1>3, <1>4, <1>5, <2>1, <2>2, BodyFails DEF ReqwestInv
<1>. QED
  BY <1>1, <1>6, <1>7

\* A read of the caller's stream: its bytes, its end or its failure go into the channel,
\* or nowhere when hyper has done with the body.
LEMMA ReadAndSendStep ==
  ASSUME ReqwestInv, Reqwest!ReadAndSend
  PROVE  ReqwestInv' /\ ReqwestStep
<1>1. /\ mode # "blocking" /\ future = "running"
      /\ UNCHANGED <<mode, content, future, reading, body, rsent>>
  BY DEF Reqwest!ReadAndSend, Reqwest!Driven, Reqwest!Async, Reqwest!conf
<1>2. ReqwestTypeOK /\ left \in Seq(Nat) /\ Len(left) \in Nat /\ rsent \in Seq(Nat)
      /\ Len(rsent) \in Nat
  BY DEF ReqwestInv, ReqwestTypeOK
<1>3. ReqwestSentIsFirst'
  BY <1>1 DEF ReqwestInv, ReqwestSentIsFirst
<1>4. ASSUME ReqwestTypeOK' PROVE ReqwestStep
  <2>1. Reqwest!TransferState' = Reqwest!TransferState
    BY <1>1, <1>2, <1>4, ReqwestState, ReqwestStateNext DEF ReqwestTypeOK
  <2>. QED
    BY <1>1, <2>1, KeepStep
<1>5. CASE body \in {"ended", "failed"}
  <2>1. rtask' = "done" /\ chan' = chan
    BY <1>5 DEF Reqwest!ReadAndSend, Reqwest!Send
  <2>2. left' \in Seq(Nat)
    <3>1. \A n \in 1..MaxRead : SubSeq(left, n + 1, Len(left)) \in Seq(Nat)
      BY <1>2, UploadAssumption
    <3>. QED
      BY <1>2, <3>1 DEF Reqwest!ReadAndSend
  <2>3. ReqwestTypeOK'
    BY <1>1, <1>2, <2>1, <2>2 DEF ReqwestTypeOK
  <2>4. BytesAreKept' /\ EndsAreWhole'
    BY <1>1, <1>5, <2>1 DEF ReqwestInv, BytesAreKept, EndsAreWhole
  <2>. QED
    BY <1>3, <1>4, <2>3, <2>4 DEF ReqwestInv
<1>6. CASE body \notin {"ended", "failed"}
  <2>1. PICK item, next :
          /\ chan = << >> /\ chan' = <<item>> /\ rtask' = next
          /\ \/ \E n \in 1..MaxRead :
                  /\ n <= Len(left) /\ item = Reqwest!Data(SubSeq(left, 1, n))
                  /\ next = "read" /\ left' = SubSeq(left, n + 1, Len(left))
             \/ left = << >> /\ item = Reqwest!Data(<< >>) /\ next = "done" /\ left' = left
             \/ item = Reqwest!Error /\ next = "done" /\ left' = left
    BY <1>6 DEF Reqwest!ReadAndSend, Reqwest!Send
  <2>2. /\ body \in {"new", "opening", "open"}
        /\ left = From(Len(rsent), Len(left)) /\ Len(rsent) + Len(left) = content.len
    <3>1. body \in {"new", "opening", "open"}
      BY <1>2, <1>6 DEF ReqwestTypeOK
    <3>2. Flight = << >>
      BY <1>1, <2>1 DEF Flight
    <3>3. Len(rsent) + Len(<< >>) = Len(rsent)
      BY <1>2
    <3>. QED
      BY <3>1, <3>2, <3>3 DEF ReqwestInv, BytesAreKept
  <2>3. Flight' = item.bytes
    <3>1. chan' # << >> /\ chan'[1] = item /\ mode' # "blocking"
      BY <1>1, <2>1
    <3>. QED
      BY <3>1 DEF Flight
  <2>4. CASE left' = left /\ item.bytes = << >> /\ item \in Items /\ next = "done"
             /\ (item.kind = "data" => left = << >>)
    <3>1. chan' # << >> /\ chan'[1] = item /\ chan' \in {<<i>> : i \in Items}
      BY <2>1, <2>4
    <3>2. ReqwestTypeOK'
      BY <1>1, <1>2, <2>1, <2>4, <3>1 DEF ReqwestTypeOK
    <3>3. BytesAreKept'
      <4>1. Len(rsent) + Len(<< >>) = Len(rsent) /\ From(Len(rsent), Len(<< >>)) = << >>
        BY <1>2, FromNone
      <4>. QED
        BY <1>1, <2>2, <2>3, <2>4, <4>1 DEF BytesAreKept
    <3>4. EndsAreWhole'
      BY <1>1, <2>4, <3>1 DEF EndsAreWhole
    <3>. QED
      BY <1>3, <1>4, <3>2, <3>3, <3>4 DEF ReqwestInv
  <2>5. CASE left = << >> /\ item = Reqwest!Data(<< >>) /\ next = "done" /\ left' = left
    <3>1. item.bytes = << >> /\ item \in Items
      BY <2>5, EmptySeq DEF Reqwest!Data, Items
    <3>. QED
      BY <2>4, <2>5, <3>1
  <2>6. CASE item = Reqwest!Error /\ next = "done" /\ left' = left
    <3>1. item.bytes = << >> /\ item \in Items /\ item.kind = "error"
      BY <2>6, EmptySeq DEF Reqwest!Error, Items
    <3>. QED
      BY <2>4, <2>6, <3>1
  <2>7. ASSUME NEW n \in 1..MaxRead, n <= Len(left),
               item = Reqwest!Data(SubSeq(left, 1, n)), next = "read",
               left' = SubSeq(left, n + 1, Len(left))
        PROVE  ReqwestInv' /\ ReqwestStep
    <3>. DEFINE p == Len(rsent)
                l == Len(left)
    <3>1. n \in 1..l /\ n \in Nat /\ p \in Nat /\ l \in Nat /\ left = From(p, l)
      BY <1>2, <2>2, <2>7, UploadAssumption
    <3>2. item.kind = "data" /\ item.bytes = SubSeq(left, 1, n)
      BY <2>7 DEF Reqwest!Data
    <3>3. left' = SubSeq(left, n + 1, l)
      BY <2>7
    <3>. HIDE DEF p, l
    <3>4. item.bytes = From(p, n) /\ left' = From(p + n, l - n)
      <4>0. n \in 0..l /\ p \in Nat /\ l \in Nat
        BY <3>1
      <4>1. /\ SubSeq(From(p, l), 1, n) = From(p, n)
            /\ SubSeq(From(p, l), n + 1, l) = From(p + n, l - n)
        BY <4>0, FromSub, Zenon
      <4>. QED
        BY <3>1, <3>2, <3>3, <4>1, Zenon
    <3>5. /\ item.bytes \in Seq(Nat) /\ Len(item.bytes) = n /\ item.bytes # << >>
          /\ left' \in Seq(Nat) /\ Len(left') = l - n
      <4>1. p + n \in Nat /\ l - n \in Nat /\ n # 0
        BY <3>1
      <4>2. Len(From(p, n)) = n /\ From(p, n) \in Seq(Nat)
        BY <3>1, FromIsSeq
      <4>3. Len(From(p + n, l - n)) = l - n /\ From(p + n, l - n) \in Seq(Nat)
        BY <4>1, FromIsSeq
      <4>4. From(p, n) # << >>
        BY <4>1, <4>2
      <4>. QED
        BY <3>4, <4>2, <4>3, <4>4, Zenon
    <3>6. item \in Items /\ chan' # << >> /\ chan'[1] = item /\ chan' \in {<<i>> : i \in Items}
      <4>1. item \in Items
        BY <2>7, <3>2, <3>5 DEF Reqwest!Data, Items
      <4>. QED
        BY <2>1, <4>1
    <3>7. ReqwestTypeOK'
      BY <1>1, <1>2, <2>1, <2>7, <3>5, <3>6 DEF ReqwestTypeOK
    <3>8. BytesAreKept'
      <4>1. Len(rsent') = p /\ p + n + (l - n) = content.len
        BY <1>1, <2>2, <3>1 DEF p, l
      <4>2. Len(Flight') = n /\ Flight' = From(p, n)
        BY <2>3, <3>4, <3>5
      <4>. QED
        BY <1>1, <3>4, <3>5, <4>1, <4>2 DEF BytesAreKept
    <3>9. EndsAreWhole'
      BY <1>1, <2>1, <2>7, <3>2, <3>5, <3>6 DEF EndsAreWhole
    <3>. QED
      BY <1>3, <1>4, <3>7, <3>8, <3>9 DEF ReqwestInv
  <2>. QED
    BY <2>1, <2>5, <2>6, <2>7
<1>. QED
  BY <1>5, <1>6

\* hyper polls the body of the asynchronous client: a buffer, an error, or a channel
\* whose sender was dropped.
LEMMA PollFrameStep ==
  ASSUME ReqwestInv, Reqwest!PollFrame
  PROVE  ReqwestInv' /\ ReqwestStep
<1>1. /\ mode # "blocking" /\ body = "open"
      /\ UNCHANGED <<mode, content, left, future, rtask, reading>>
  BY DEF Reqwest!PollFrame, Reqwest!Async, Reqwest!conf
<1>2. /\ ReqwestTypeOK /\ left \in Seq(Nat) /\ Len(left) \in Nat /\ rsent \in Seq(Nat)
      /\ Len(rsent) \in Nat
  BY DEF ReqwestInv, ReqwestTypeOK
<1>3. /\ Flight = From(Len(rsent), Len(Flight))
      /\ left = From(Len(rsent) + Len(Flight), Len(left))
      /\ Len(rsent) + Len(Flight) + Len(left) = content.len
  BY <1>1 DEF ReqwestInv, BytesAreKept
<1>4. CASE chan # << >> /\ chan[1].kind = "data" /\ Reqwest!Frame(chan[1].bytes)
           /\ chan' = << >>
  <2>. DEFINE bytes == chan[1].bytes
  <2>1. Flight = bytes
    BY <1>1, <1>4 DEF Flight
  <2>2. bytes \in Seq(Nat) /\ Len(bytes) \in Nat
    <3>1. PICK item \in Items : chan = <<item>>
      BY <1>2, <1>4 DEF ReqwestTypeOK
    <3>2. item.bytes \in Seq(Nat)
      BY DEF Items
    <3>. QED
      BY <3>1, <3>2
  <2>3. bytes = << >> => Len(left) = 0 /\ Len(bytes) = 0
    BY <1>1, <1>4 DEF ReqwestInv, EndsAreWhole
  <2>4. Reqwest!Frame(bytes)
    BY <1>4
  <2>. HIDE DEF bytes
  <2>5. /\ bytes = From(Len(rsent), Len(bytes)) /\ Len(rsent) + Len(bytes) <= content.len
        /\ bytes = << >> => Len(rsent) = content.len
    BY <1>2, <1>3, <2>1, <2>2, <2>3
  <2>6. /\ rsent' \in Seq(Nat) /\ Len(rsent') = Len(rsent) + Len(bytes)
        /\ body' \in {"open", "ended", "failed"} /\ ReqwestSentIsFirst'
        /\ body' = "open" => bytes # << >>
        /\ ReqwestTypeOK' => ReqwestStep
    BY <1>1, <2>2, <2>4, <2>5, FrameStep
  <2>7. ReqwestTypeOK'
    BY <1>1, <1>2, <1>4, <2>6 DEF ReqwestTypeOK
  <2>8. BytesAreKept'
    <3>1. Flight' = << >> /\ Len(<< >>) = 0
      BY <1>1, <1>4 DEF Flight
    <3>2. From(Len(rsent'), Len(<< >>)) = << >> /\ Len(rsent') + Len(<< >>) = Len(rsent')
      BY <1>2, <2>2, <2>6, <3>1, FromNone
    <3>3. left' = From(Len(rsent'), Len(left'))
      BY <1>1, <1>3, <2>1, <2>6
    <3>4. Len(rsent') + Len(left') = content.len /\ content' = content
      BY <1>1, <1>3, <2>1, <2>6
    <3>. QED
      BY <3>1, <3>2, <3>3, <3>4 DEF BytesAreKept
  <2>9. EndsAreWhole'
    <3>1. future = "running" /\ rtask = "done" => bytes = << >>
      BY <1>1, <1>4 DEF ReqwestInv, EndsAreWhole, bytes
    <3>. QED
      BY <1>1, <1>4, <2>6, <3>1 DEF EndsAreWhole
  <2>. QED
    BY <2>6, <2>7, <2>8, <2>9 DEF ReqwestInv
<1>5. CASE body' = "failed" /\ chan' = << >> /\ rsent' = rsent
  <2>1. ReqwestTypeOK'
    BY <1>1, <1>2, <1>5 DEF ReqwestTypeOK
  <2>2. ReqwestSentIsFirst' /\ BytesAreKept' /\ EndsAreWhole'
    BY <1>1, <1>5 DEF ReqwestInv, ReqwestSentIsFirst, BytesAreKept, EndsAreWhole
  <2>3. Reqwest!TransferState = "open" /\ Reqwest!TransferState' = "failed"
    BY <1>1, <1>2, <1>5, <2>1, ReqwestState, ReqwestStateNext
  <2>. QED
    BY <1>5, <2>1, <2>2, <2>3, BodyFails DEF ReqwestInv
<1>6. CASE chan = << >> /\ rtask = "done" /\ Reqwest!Frame(<< >>) /\ chan' = chan
  <2>1. future # "running"
    BY <1>1, <1>6 DEF ReqwestInv, EndsAreWhole
  <2>2. << >> \in Seq(Nat) /\ Len(<< >>) = 0 /\ From(Len(rsent), Len(<< >>)) = << >>
    BY <1>2, EmptySeq, FromNone
  <2>3. Len(rsent) + Len(<< >>) <= content.len
    <3>1. Len(rsent) \in 0..content.len
      BY DEF ReqwestInv, ReqwestSentIsFirst
    <3>. QED
      BY <1>2, <3>1
  <2>4. /\ rsent' \in Seq(Nat) /\ body' \in {"ended", "failed"} /\ ReqwestSentIsFirst'
        /\ ReqwestTypeOK' => ReqwestStep
    BY <1>1, <1>6, <2>1, <2>2, <2>3, FrameStep
  <2>5. ReqwestTypeOK'
    BY <1>1, <1>2, <1>6, <2>4 DEF ReqwestTypeOK
  <2>6. BytesAreKept' /\ EndsAreWhole'
    BY <1>1, <1>6, <2>1, <2>4 DEF BytesAreKept, EndsAreWhole
  <2>. QED
    BY <2>4, <2>5, <2>6 DEF ReqwestInv
<1>. QED
  BY <1>4, <1>5, <1>6 DEF Reqwest!PollFrame

\* hyper polls the body of the blocking client.
LEMMA PollBlockingStep ==
  ASSUME ReqwestInv, Reqwest!PollBlocking
  PROVE  ReqwestInv' /\ ReqwestStep
<1>1. /\ mode = "blocking" /\ body \in {"new", "open"}
      /\ UNCHANGED <<mode, content, left, future, rtask, chan>>
  BY DEF Reqwest!PollBlocking, Reqwest!conf
<1>2. /\ ReqwestTypeOK /\ left \in Seq(Nat) /\ Len(left) \in Nat /\ rsent \in Seq(Nat)
      /\ Len(rsent) \in Nat /\ reading.buf \in Seq(Nat) /\ Len(reading.buf) \in Nat
  BY DEF ReqwestInv, ReqwestTypeOK
<1>3. Flight = reading.buf
  BY <1>1 DEF Flight
<1>4. /\ reading.buf = From(Len(rsent), Len(reading.buf))
      /\ left = From(Len(rsent) + Len(reading.buf), Len(left))
      /\ Len(rsent) + Len(reading.buf) + Len(left) = content.len
  BY <1>1, <1>3 DEF ReqwestInv, BytesAreKept
<1>5. /\ chan = << >> /\ future = "running"
      /\ reading.kind # "Read" => reading.buf = << >>
      /\ reading.kind = "Read" /\ reading.buf = << >> => left = << >>
      /\ reading.kind # "Invalid"
  BY <1>1 DEF ReqwestInv, EndsAreWhole
<1>6. CASE /\ body' \in {body, "open"} /\ rsent' = rsent
           /\ reading' = reading \/ (reading.kind = "Ready" /\ Reqwest!Put("Reading", << >>))
  <2>1. reading'.buf = reading.buf /\ reading'.kind \in {reading.kind, "Reading"}
        /\ (reading'.kind = reading.kind \/ reading.buf = << >>)
    BY <1>5, <1>6 DEF Reqwest!Put
  <2>2. ReqwestTypeOK'
    <3>1. reading' \in [kind: {"Ready", "Reading", "Read", "ReadError", "Invalid"},
                        buf: Seq(Nat)]
      <4>1. CASE reading' = reading
        BY <1>2, <4>1 DEF ReqwestTypeOK
      <4>2. CASE reading' = [kind |-> "Reading", buf |-> << >>]
        <5>1. << >> \in Seq(Nat)
          BY EmptySeq
        <5>. QED
          BY <4>2, <5>1
      <4>. QED
        BY <1>6, <4>1, <4>2 DEF Reqwest!Put
    <3>. QED
      BY <1>1, <1>2, <1>6, <3>1 DEF ReqwestTypeOK
  <2>3. ReqwestSentIsFirst'
    BY <1>1, <1>6 DEF ReqwestInv, ReqwestSentIsFirst
  <2>4. Flight' = reading.buf
    BY <1>1, <2>1 DEF Flight
  <2>5. BytesAreKept'
    BY <1>1, <1>4, <1>6, <2>4 DEF BytesAreKept
  <2>6. EndsAreWhole'
    BY <1>1, <1>5, <1>6, <2>1 DEF EndsAreWhole
  <2>7. Reqwest!TransferState = "open" /\ Reqwest!TransferState' = "open"
    BY <1>1, <1>2, <1>6, <2>2, ReqwestState, ReqwestStateNext
  <2>. QED
    BY <1>6, <2>2, <2>3, <2>5, <2>6, <2>7, KeepStep DEF ReqwestInv
<1>7. CASE /\ reading.kind = "Read" /\ Reqwest!Put("Ready", << >>)
           /\ Reqwest!Frame(reading.buf)
  <2>. DEFINE bytes == reading.buf
  <2>1. /\ bytes \in Seq(Nat) /\ Len(bytes) \in Nat /\ Reqwest!Frame(bytes)
        /\ bytes = << >> => Len(left) = 0 /\ Len(bytes) = 0
    BY <1>2, <1>5, <1>7
  <2>2. /\ bytes = From(Len(rsent), Len(bytes)) /\ Len(rsent) + Len(bytes) <= content.len
        /\ bytes = << >> => Len(rsent) = content.len
    BY <1>2, <1>4, <2>1
  <2>3. /\ left = From(Len(rsent) + Len(bytes), Len(left))
        /\ Len(rsent) + Len(bytes) + Len(left) = content.len
    BY <1>4
  <2>4. reading' = [kind |-> "Ready", buf |-> << >>]
    BY <1>7 DEF Reqwest!Put
  <2>. HIDE DEF bytes
  <2>5. /\ rsent' \in Seq(Nat) /\ Len(rsent') = Len(rsent) + Len(bytes)
        /\ body' \in {"open", "ended", "failed"} /\ ReqwestSentIsFirst'
        /\ ReqwestTypeOK' => ReqwestStep
    BY <1>1, <2>1, <2>2, FrameStep
  <2>6. ReqwestTypeOK'
    <3>1. reading' \in [kind: {"Ready", "Reading", "Read", "ReadError", "Invalid"},
                        buf: Seq(Nat)]
      BY <2>4, EmptySeq
    <3>. QED
      BY <1>1, <1>2, <2>5, <3>1 DEF ReqwestTypeOK
  <2>7. BytesAreKept'
    <3>1. Flight' = << >> /\ Len(<< >>) = 0
      BY <1>1, <2>4 DEF Flight
    <3>2. From(Len(rsent'), Len(<< >>)) = << >> /\ Len(rsent') + Len(<< >>) = Len(rsent')
      BY <1>2, <2>1, <2>5, <3>1, FromNone
    <3>3. left' = From(Len(rsent'), Len(left'))
      BY <1>1, <2>3, <2>5
    <3>4. Len(rsent') + Len(left') = content.len /\ content' = content
      BY <1>1, <2>3, <2>5
    <3>. QED
      BY <3>1, <3>2, <3>3, <3>4 DEF BytesAreKept
  <2>8. EndsAreWhole'
    BY <1>1, <1>5, <2>4, <2>5 DEF EndsAreWhole
  <2>. QED
    BY <2>5, <2>6, <2>7, <2>8 DEF ReqwestInv
<1>8. CASE Reqwest!Put("Invalid", << >>) /\ body' = "failed" /\ rsent' = rsent
  <2>1. reading' = [kind |-> "Invalid", buf |-> << >>]
    BY <1>8 DEF Reqwest!Put
  <2>2. ReqwestTypeOK'
    <3>1. reading' \in [kind: {"Ready", "Reading", "Read", "ReadError", "Invalid"},
                        buf: Seq(Nat)]
      BY <2>1, EmptySeq
    <3>. QED
      BY <1>1, <1>2, <1>8, <3>1 DEF ReqwestTypeOK
  <2>3. ReqwestSentIsFirst' /\ BytesAreKept' /\ EndsAreWhole'
    BY <1>1, <1>5, <1>8, <2>1
    DEF ReqwestInv, ReqwestSentIsFirst, BytesAreKept, EndsAreWhole
  <2>4. Reqwest!TransferState = "open" /\ Reqwest!TransferState' = "failed"
    BY <1>1, <1>2, <1>8, <2>2, ReqwestState, ReqwestStateNext
  <2>. QED
    BY <1>8, <2>2, <2>3, <2>4, BodyFails DEF ReqwestInv
<1>. QED
  BY <1>5, <1>6, <1>7, <1>8 DEF Reqwest!PollBlocking, Reqwest!PollPending

\* The thread of a read gives its bytes, its end or its failure back.
LEMMA ThreadReadStep ==
  ASSUME ReqwestInv, Reqwest!ThreadRead
  PROVE  ReqwestInv' /\ ReqwestStep
<1>1. /\ mode = "blocking" /\ reading.kind = "Reading"
      /\ UNCHANGED <<mode, content, future, rtask, chan, body, rsent>>
  BY DEF Reqwest!ThreadRead, Reqwest!conf
<1>2. /\ ReqwestTypeOK /\ left \in Seq(Nat) /\ Len(left) \in Nat /\ rsent \in Seq(Nat)
      /\ Len(rsent) \in Nat
  BY DEF ReqwestInv, ReqwestTypeOK
<1>3. reading.buf = << >> /\ chan = << >> /\ future = "running" /\ body # "opening"
  BY <1>1 DEF ReqwestInv, EndsAreWhole
<1>4. ReqwestSentIsFirst'
  BY <1>1 DEF ReqwestInv, ReqwestSentIsFirst
<1>5. ASSUME ReqwestTypeOK' PROVE ReqwestStep
  <2>1. Reqwest!TransferState' = Reqwest!TransferState
    BY <1>1, <1>2, <1>5, ReqwestState, ReqwestStateNext DEF ReqwestTypeOK
  <2>. QED
    BY <1>1, <2>1, KeepStep
<1>6. Flight' = reading'.buf
  BY <1>1 DEF Flight
<1>7. body \in {"new", "opening", "open"} =>
        left = From(Len(rsent), Len(left)) /\ Len(rsent) + Len(left) = content.len
  <2>1. Flight = << >>
    BY <1>1, <1>3 DEF Flight
  <2>2. Len(rsent) + Len(<< >>) = Len(rsent)
    BY <1>2
  <2>. QED
    BY <2>1, <2>2 DEF ReqwestInv, BytesAreKept
<1>8. ASSUME NEW kind \in {"Read", "ReadError"}, reading' = [kind |-> kind, buf |-> << >>],
             left' = left, kind = "Read" => left = << >>
      PROVE  ReqwestInv' /\ ReqwestStep
  <2>1. reading' \in [kind: {"Ready", "Reading", "Read", "ReadError", "Invalid"}, buf: Seq(Nat)]
    <3>1. << >> \in Seq(Nat)
      BY EmptySeq
    <3>. QED
      BY <1>8, <3>1
  <2>2. ReqwestTypeOK'
    BY <1>1, <1>2, <1>8, <2>1 DEF ReqwestTypeOK
  <2>3. BytesAreKept'
    <3>1. /\ Len(rsent) + Len(<< >>) = Len(rsent) /\ Len(<< >>) = 0
          /\ From(Len(rsent), 0) = << >>
      BY <1>2, FromNone
    <3>2. Flight' = << >>
      BY <1>6, <1>8
    <3>. QED
      BY <1>1, <1>7, <1>8, <3>1, <3>2 DEF BytesAreKept
  <2>4. EndsAreWhole'
    BY <1>1, <1>3, <1>8 DEF EndsAreWhole
  <2>. QED
    BY <1>4, <1>5, <2>2, <2>3, <2>4 DEF ReqwestInv
<1>9. ASSUME NEW n \in 1..MaxRead, n <= Len(left),
             reading' = [kind |-> "Read", buf |-> SubSeq(left, 1, n)],
             left' = SubSeq(left, n + 1, Len(left))
      PROVE  ReqwestInv' /\ ReqwestStep
  <2>. DEFINE p == Len(rsent)
              l == Len(left)
              bytes == SubSeq(left, 1, n)
  <2>1. n \in 1..l /\ n \in 0..l /\ n \in Nat /\ p \in Nat /\ l \in Nat
    BY <1>2, <1>9, UploadAssumption
  <2>2. bytes \in Seq(Nat) /\ Len(bytes) = n /\ left' \in Seq(Nat) /\ Len(left') = l - n
    BY <1>2, <1>9, <2>1
  <2>3. body \in {"new", "opening", "open"} => left = From(p, l) /\ p + l = content.len
    BY <1>7
  <2>4. /\ bytes = SubSeq(left, 1, n) /\ left' = SubSeq(left, n + 1, l) /\ p = Len(rsent)
        /\ reading' = [kind |-> "Read", buf |-> bytes]
    BY <1>9
  <2>. HIDE DEF p, l, bytes
  <2>5. ReqwestTypeOK'
    BY <1>1, <1>2, <2>2, <2>4 DEF ReqwestTypeOK
  <2>6. BytesAreKept'
    <3>. SUFFICES ASSUME body \in {"new", "opening", "open"}
                  PROVE  /\ bytes = From(p, n) /\ left' = From(p + n, l - n)
                         /\ p + n + (l - n) = content.len
      <4>1. Flight' = bytes /\ Len(Flight') = n /\ Len(rsent') = p
        BY <1>1, <1>6, <2>2, <2>4
      <4>. QED
        BY <1>1, <2>2, <4>1 DEF BytesAreKept
    <3>1. /\ SubSeq(From(p, l), 1, n) = From(p, n)
          /\ SubSeq(From(p, l), n + 1, l) = From(p + n, l - n)
      BY <2>1, FromSub, Zenon
    <3>2. p + n + (l - n) = content.len
      BY <2>1, <2>3
    <3>. QED
      BY <2>3, <2>4, <3>1, <3>2, Zenon
  <2>7. EndsAreWhole'
    <3>1. bytes # << >>
      BY <2>1, <2>2
    <3>. QED
      BY <1>1, <1>3, <2>4, <3>1 DEF EndsAreWhole
  <2>. QED
    BY <1>4, <1>5, <2>5, <2>6, <2>7 DEF ReqwestInv
<1>. QED
  BY <1>8, <1>9 DEF Reqwest!ThreadRead, Reqwest!Put

LEMMA ReqwestNext ==
  ReqwestInv /\ [Reqwest!Next]_(Reqwest!vars) => ReqwestInv' /\ ReqwestStep
<1>1. ASSUME ReqwestInv, UNCHANGED Reqwest!vars PROVE ReqwestInv' /\ ReqwestStep
  <2>1. UNCHANGED <<mode, content, left, future, rtask, chan, reading, body, rsent>>
    BY <1>1 DEF Reqwest!vars
  <2>2. ReqwestTypeOK /\ ReqwestTypeOK'
    BY <1>1, <2>1 DEF ReqwestInv, ReqwestTypeOK
  <2>3. Flight' = Flight
    BY <2>1 DEF Flight
  <2>4. ReqwestSentIsFirst' /\ BytesAreKept' /\ EndsAreWhole'
    BY <1>1, <2>1, <2>3 DEF ReqwestInv, ReqwestSentIsFirst, BytesAreKept, EndsAreWhole
  <2>5. Reqwest!TransferState' = Reqwest!TransferState
    BY <2>1, <2>2, ReqwestState, ReqwestStateNext DEF ReqwestTypeOK
  <2>. QED
    BY <2>1, <2>2, <2>4, <2>5, KeepStep DEF ReqwestInv
<1>. QED
  BY <1>1, QuietSteps, ReadAndSendStep, LeaveStep, EmptyStep, PollFrameStep,
     PollBlockingStep, ThreadReadStep, DisconnectStep
  DEF Reqwest!Next, Reqwest!Task, Reqwest!Hyper

\* While the future of its request runs, hyper has a beginning of the body at all times
\* and is told of its end with the last byte, in each of the three ways a body is read,
\* wherever a read, a poll, the connection or the future fails or stops.
THEOREM ReqwestUploadsAreByteStreams == UploadsSpec => ReqwestBodyIsSent
<1>1. UploadsInit => ReqwestInv /\ rsent = << >> /\ Reqwest!TransferState = "open"
  BY ReqwestInit DEF UploadsInit
<1>2. ReqwestInv /\ [UploadsNext]_UploadsVars => ReqwestInv'
  BY ReqwestNext, UploadsStep
<1>3. ReqwestInv /\ [UploadsNext]_UploadsVars
        => [\A b \in ReqwestBodies :
              content = b => [Reqwest!Transfer(b)!Next]_<<rsent, Reqwest!TransferState>>
           ]_(Reqwest!vars)
  BY ReqwestNext, UploadsStep DEF ReqwestStep
<1>. QED
  BY <1>1, <1>2, <1>3, PTL DEF UploadsSpec, ReqwestBodyIsSent, Reqwest!BodyIsSent

-----------------------------------------------------------------------------
(* NSURLSession's stream.                                                  *)

\* What is between two positions of a body.
Cut(w, p, q) == SubSeq(w, p + 1, q)

LEMMA CutIs ==
  ASSUME NEW S, NEW w \in Seq(S), NEW p \in Nat, NEW n \in Nat, p + n <= Len(w)
  PROVE  Cut(w, p, p + n) \in Seq(S) /\ Len(Cut(w, p, p + n)) = n
<1>1. /\ p + 1 \in Int /\ p + n \in Int /\ \A i \in p + 1..p + n : w[i] \in S
      /\ (IF p + 1 <= p + n THEN p + n - (p + 1) + 1 ELSE 0) = n
  OBVIOUS
<1>2. /\ SubSeq(w, p + 1, p + n) \in Seq(S)
      /\ Len(SubSeq(w, p + 1, p + n)) = IF p + 1 <= p + n THEN p + n - (p + 1) + 1 ELSE 0
  BY <1>1, SubSeqProperties
<1>. QED
  BY <1>1, <1>2 DEF Cut

LEMMA CutAt ==
  ASSUME NEW S, NEW w \in Seq(S), NEW p \in Nat, NEW n \in Nat, p + n <= Len(w),
         NEW i \in 1..n
  PROVE  Cut(w, p, p + n)[i] = w[p + i]
<1>1. /\ p + 1 \in Int /\ p + n \in Int /\ \A k \in p + 1..p + n : w[k] \in S
      /\ p + n - (p + 1) + 1 = n /\ p + 1 + i - 1 = p + i
  OBVIOUS
<1>2. SubSeq(w, p + 1, p + n)[i] = w[p + 1 + i - 1]
  BY <1>1, SubSeqProperties
<1>. QED
  BY <1>1, <1>2 DEF Cut

LEMMA CutConcat ==
  ASSUME NEW S, NEW w \in Seq(S), NEW p \in Nat, NEW q \in Nat, NEW r \in Nat,
         p <= q, q <= r, r <= Len(w)
  PROVE  Cut(w, p, q) \o Cut(w, q, r) = Cut(w, p, r)
<1>1. /\ p + 1 \in 1..Len(w) + 1 /\ q \in (p + 1) - 1..Len(w) /\ r \in q..Len(w)
  OBVIOUS
<1>. QED
  BY <1>1, ConcatAdjacentSubSeq DEF Cut

LEMMA CutWhole ==
  ASSUME NEW S, NEW w \in Seq(S)
  PROVE  Cut(w, 0, Len(w)) = w /\ Cut(w, 0, 0) = << >>
<1>1. SubSeq(w, 1, Len(w)) = w
  BY SubSeqFull
<1>2. SubSeq(w, 1, 0) = << >>
  BY SubSeqEmpty
<1>. QED
  BY <1>1, <1>2 DEF Cut

LEMMA CutNone ==
  ASSUME NEW w, NEW p \in Nat
  PROVE  Cut(w, p, p) = << >>
<1>1. p + 1 \in Int /\ p \in Int /\ p < p + 1
  OBVIOUS
<1>. QED
  BY <1>1, SubSeqEmpty DEF Cut

LEMMA Cuts ==
  ASSUME NEW S, NEW w \in Seq(S)
  PROVE  \A p, n \in Nat : p + n <= Len(w) =>
           /\ Cut(w, p, p + n) \in Seq(S) /\ Len(Cut(w, p, p + n)) = n
           /\ \A i \in 1..n : Cut(w, p, p + n)[i] = w[p + i]
<1>. SUFFICES ASSUME NEW p \in Nat, NEW n \in Nat, p + n <= Len(w)
              PROVE  /\ Cut(w, p, p + n) \in Seq(S) /\ Len(Cut(w, p, p + n)) = n
                     /\ \A i \in 1..n : Cut(w, p, p + n)[i] = w[p + i]
  OBVIOUS
<1>1. Cut(w, p, p + n) \in Seq(S) /\ Len(Cut(w, p, p + n)) = n
  BY CutIs, Zenon
<1>2. ASSUME NEW i \in 1..n PROVE Cut(w, p, p + n)[i] = w[p + i]
  BY CutAt, Zenon
<1>. QED
  BY <1>1, <1>2

LEMMA CutSub ==
  ASSUME NEW S, NEW w \in Seq(S), NEW p \in Nat, NEW l \in Nat, p + l <= Len(w),
         NEW n \in 0..l
  PROVE  /\ SubSeq(Cut(w, p, p + l), 1, n) = Cut(w, p, p + n)
         /\ SubSeq(Cut(w, p, p + l), n + 1, l) = Cut(w, p + n, p + l)
<1>. DEFINE c == Cut(w, p, p + l)
            m == l - n
            o == p + n
<1>1. c \in Seq(S) /\ Len(c) = l
  BY CutIs
<1>2. \A i \in 1..l : c[i] = w[p + i]
  BY CutAt
<1>3. /\ n \in Nat /\ m \in Nat /\ o \in Nat /\ o + m = p + l /\ n + m = l /\ o = p + n
      /\ p + n <= Len(w) /\ o + m <= Len(w) /\ 0 + n = n /\ 0 + 1 = 1
  OBVIOUS
<1>. HIDE DEF c, m, o
<1>4. \A k, a \in Nat : k + a <= Len(w) =>
        /\ Cut(w, k, k + a) \in Seq(S) /\ Len(Cut(w, k, k + a)) = a
        /\ \A i \in 1..a : Cut(w, k, k + a)[i] = w[k + i]
  BY Cuts, Zenon
<1>5. \A k, a \in Nat : k + a <= Len(c) =>
        /\ Cut(c, k, k + a) \in Seq(S) /\ Len(Cut(c, k, k + a)) = a
        /\ \A i \in 1..a : Cut(c, k, k + a)[i] = c[k + i]
  BY <1>1, Cuts, Zenon
<1>6. Cut(c, 0, 0 + n) = Cut(w, p, p + n)
  <2>1. /\ Cut(w, p, p + n) \in Seq(S) /\ Len(Cut(w, p, p + n)) = n
        /\ \A i \in 1..n : Cut(w, p, p + n)[i] = w[p + i]
    BY ONLY <1>3, <1>4, p \in Nat
  <2>2. 0 \in Nat /\ 0 + n <= Len(c)
    BY <1>1, <1>3
  <2>3. /\ Cut(c, 0, 0 + n) \in Seq(S) /\ Len(Cut(c, 0, 0 + n)) = n
        /\ \A i \in 1..n : Cut(c, 0, 0 + n)[i] = c[0 + i]
    BY ONLY <1>3, <1>5, <2>2
  <2>4. ASSUME NEW i \in 1..n PROVE Cut(c, 0, 0 + n)[i] = Cut(w, p, p + n)[i]
    <3>1. i \in 1..l /\ 0 + i = i
      BY <1>3
    <3>. QED
      BY <1>2, <2>1, <2>3, <3>1, Zenon
  <2>. QED
    BY <2>1, <2>3, <2>4, SeqEqual
<1>7. Cut(c, n, n + m) = Cut(w, o, o + m)
  <2>1. /\ Cut(w, o, o + m) \in Seq(S) /\ Len(Cut(w, o, o + m)) = m
        /\ \A i \in 1..m : Cut(w, o, o + m)[i] = w[o + i]
    BY ONLY <1>3, <1>4
  <2>2. n + m <= Len(c)
    BY <1>1, <1>3
  <2>3. /\ Cut(c, n, n + m) \in Seq(S) /\ Len(Cut(c, n, n + m)) = m
        /\ \A i \in 1..m : Cut(c, n, n + m)[i] = c[n + i]
    BY ONLY <1>3, <1>5, <2>2
  <2>4. ASSUME NEW i \in 1..m PROVE Cut(c, n, n + m)[i] = Cut(w, o, o + m)[i]
    <3>1. n + i \in 1..l /\ p + (n + i) = o + i
      BY <1>3
    <3>. QED
      BY <1>2, <2>1, <2>3, <3>1, Zenon
  <2>. QED
    BY <2>1, <2>3, <2>4, SeqEqual
<1>8. Cut(c, 0, 0 + n) = SubSeq(c, 1, n) /\ Cut(c, n, n + m) = SubSeq(c, n + 1, l)
  BY <1>3 DEF Cut
<1>. QED
  BY <1>3, <1>6, <1>7, <1>8, Zenon DEF c, o

NsBytes == {"header", "text", "crlf", "boundary"} \X Nat \X Nat
NsParts == [stream: BOOLEAN, bytes: Seq(NsBytes)]

\* The parts' bytes are, one after the other, what is between two positions of a body.
Laid(ps, w, p, q) ==
  \E off \in [1..Len(ps) + 1 -> 0..Len(w)] :
    /\ off[1] = p /\ off[Len(ps) + 1] = q
    /\ \A i \in 1..Len(ps) : off[i] <= off[i + 1] /\ ps[i].bytes = Cut(w, off[i], off[i + 1])

LEMMA LaidNone ==
  ASSUME NEW w \in Seq(NsBytes), NEW p \in 0..Len(w)
  PROVE  /\ Laid(<< >>, w, p, p)
         /\ \A q : Laid(<< >>, w, p, q) => q = p
<1>1. Laid(<< >>, w, p, p)
  <2>. DEFINE off == [i \in 1..Len(<< >>) + 1 |-> p]
  <2>1. off \in [1..Len(<< >>) + 1 -> 0..Len(w)] /\ off[1] = p /\ off[Len(<< >>) + 1] = p
    OBVIOUS
  <2>2. 1..Len(<< >>) = {}
    OBVIOUS
  <2>. QED
    BY <2>1, <2>2 DEF Laid
<1>2. \A q : Laid(<< >>, w, p, q) => q = p
  BY DEF Laid
<1>. QED
  BY <1>1, <1>2

LEMMA LaidHead ==
  ASSUME NEW w \in Seq(NsBytes), NEW ps \in Seq(NsParts), ps # << >>,
         NEW p \in 0..Len(w), NEW q \in 0..Len(w), Laid(ps, w, p, q)
  PROVE  \E d \in p..Len(w) : ps[1].bytes = Cut(w, p, d) /\ Laid(Tail(ps), w, d, q)
<1>. DEFINE n == Len(ps) - 1
            rest == Tail(ps)
<1>1. /\ rest \in Seq(NsParts) /\ Len(rest) = n /\ n \in Nat
      /\ Len(ps) = n + 1 /\ \A i \in 1..n : rest[i] = ps[i + 1]
  BY HeadTailProperties
<1>2. PICK off \in [1..Len(ps) + 1 -> 0..Len(w)] :
        /\ off[1] = p /\ off[Len(ps) + 1] = q
        /\ \A i \in 1..Len(ps) :
             off[i] <= off[i + 1] /\ ps[i].bytes = Cut(w, off[i], off[i + 1])
  BY DEF Laid
<1>. DEFINE to == [i \in 1..n + 1 |-> off[i + 1]]
<1>. HIDE DEF n, rest
<1>3. to \in [1..n + 1 -> 0..Len(w)] /\ to[1] = off[2] /\ to[n + 1] = q
  <2>1. \A i \in 1..n + 1 : i + 1 \in 1..Len(ps) + 1
    BY <1>1
  <2>. QED
    BY <1>1, <1>2, <2>1
<1>4. \A i \in 1..n : to[i] <= to[i + 1] /\ rest[i].bytes = Cut(w, to[i], to[i + 1])
  <2>1. ASSUME NEW i \in 1..n
        PROVE  to[i] <= to[i + 1] /\ rest[i].bytes = Cut(w, to[i], to[i + 1])
    <3>1. i + 1 \in 1..Len(ps) /\ i \in 1..n + 1 /\ i + 1 \in 1..n + 1
      BY <1>1
    <3>2. to[i] = off[i + 1] /\ to[i + 1] = off[i + 1 + 1] /\ rest[i] = ps[i + 1]
      BY <1>1, <3>1
    <3>. QED
      BY <1>2, <3>1, <3>2
  <2>. QED
    BY <2>1
<1>5. Laid(rest, w, off[2], q)
  BY <1>1, <1>3, <1>4 DEF Laid
<1>6. off[2] \in p..Len(w) /\ ps[1].bytes = Cut(w, p, off[2])
  <2>1. 1 \in 1..Len(ps) /\ 2 \in 1..Len(ps) + 1 /\ 1 + 1 = 2
    BY <1>1
  <2>. QED
    BY <1>2, <2>1
<1>. QED
  BY <1>5, <1>6 DEF rest

LEMMA LaidCons ==
  ASSUME NEW w \in Seq(NsBytes), NEW ps \in Seq(NsParts), ps # << >>,
         NEW p \in 0..Len(w), NEW q \in 0..Len(w), NEW d \in p..Len(w),
         ps[1].bytes = Cut(w, p, d), Laid(Tail(ps), w, d, q)
  PROVE  Laid(ps, w, p, q)
<1>. DEFINE n == Len(ps) - 1
            rest == Tail(ps)
<1>1. /\ rest \in Seq(NsParts) /\ Len(rest) = n /\ n \in Nat
      /\ Len(ps) = n + 1 /\ \A i \in 1..n : rest[i] = ps[i + 1]
  BY HeadTailProperties
<1>2. PICK off \in [1..Len(rest) + 1 -> 0..Len(w)] :
        /\ off[1] = d /\ off[Len(rest) + 1] = q
        /\ \A i \in 1..Len(rest) :
             off[i] <= off[i + 1] /\ rest[i].bytes = Cut(w, off[i], off[i + 1])
  BY DEF Laid
<1>. DEFINE to == [i \in 1..Len(ps) + 1 |-> IF i = 1 THEN p ELSE off[i - 1]]
<1>. HIDE DEF n, rest
<1>3. to \in [1..Len(ps) + 1 -> 0..Len(w)] /\ to[1] = p /\ to[Len(ps) + 1] = q
  <2>1. \A i \in 1..Len(ps) + 1 : i # 1 => i - 1 \in 1..Len(rest) + 1
    BY <1>1
  <2>2. Len(ps) + 1 # 1 /\ Len(ps) + 1 - 1 = Len(rest) + 1
    BY <1>1
  <2>. QED
    BY <1>1, <1>2, <2>1, <2>2
<1>4. ASSUME NEW i \in 1..Len(ps)
      PROVE  to[i] <= to[i + 1] /\ ps[i].bytes = Cut(w, to[i], to[i + 1])
  <2>1. CASE i = 1
    <3>1. to[i] = p /\ to[i + 1] = d
      <4>1. i \in 1..Len(ps) + 1 /\ i + 1 \in 1..Len(ps) + 1 /\ i + 1 # 1 /\ i + 1 - 1 = 1
        BY <1>1, <2>1
      <4>. QED
        BY <1>2, <2>1, <4>1
    <3>. QED
      BY <2>1, <3>1
  <2>2. CASE i # 1
    <3>1. /\ i - 1 \in 1..n /\ i - 1 + 1 = i /\ i + 1 - 1 = i - 1 + 1
          /\ i \in 1..Len(ps) + 1 /\ i + 1 \in 1..Len(ps) + 1 /\ i + 1 # 1
      BY <1>1, <2>2
    <3>2. to[i] = off[i - 1] /\ to[i + 1] = off[i - 1 + 1] /\ rest[i - 1] = ps[i]
      <4>1. rest[i - 1] = ps[i - 1 + 1]
        BY <1>1, <3>1
      <4>. QED
        BY <2>2, <3>1, <4>1
    <3>. QED
      BY <1>1, <1>2, <3>1, <3>2
  <2>. QED
    BY <2>1, <2>2
<1>. QED
  BY <1>3, <1>4 DEF Laid

LEMMA LaidAppend ==
  ASSUME NEW w \in Seq(NsBytes), NEW ps \in Seq(NsParts), NEW x \in NsParts,
         NEW p \in 0..Len(w), NEW q \in 0..Len(w), NEW d \in q..Len(w),
         Laid(ps, w, p, q), x.bytes = Cut(w, q, d)
  PROVE  Laid(Append(ps, x), w, p, d)
<1>. DEFINE n == Len(ps)
            all == Append(ps, x)
<1>1. /\ n \in Nat /\ all \in Seq(NsParts) /\ Len(all) = n + 1 /\ all[n + 1] = x
      /\ \A i \in 1..n : all[i] = ps[i]
  BY AppendProperties
<1>2. PICK off \in [1..n + 1 -> 0..Len(w)] :
        /\ off[1] = p /\ off[n + 1] = q
        /\ \A i \in 1..n : off[i] <= off[i + 1] /\ ps[i].bytes = Cut(w, off[i], off[i + 1])
  BY DEF Laid
<1>. DEFINE to == [i \in 1..Len(all) + 1 |-> IF i = n + 2 THEN d ELSE off[i]]
<1>. HIDE DEF n, all
<1>3. to \in [1..Len(all) + 1 -> 0..Len(w)] /\ to[1] = p /\ to[Len(all) + 1] = d
  <2>1. \A i \in 1..Len(all) + 1 : i # n + 2 => i \in 1..n + 1
    BY <1>1
  <2>2. Len(all) + 1 = n + 2 /\ 1 # n + 2
    BY <1>1
  <2>. QED
    BY <1>1, <1>2, <2>1, <2>2
<1>4. ASSUME NEW i \in 1..Len(all)
      PROVE  to[i] <= to[i + 1] /\ all[i].bytes = Cut(w, to[i], to[i + 1])
  <2>1. CASE i = n + 1
    <3>1. i + 1 = n + 2 /\ i # n + 2 /\ i \in 1..Len(all) + 1 /\ i + 1 \in 1..Len(all) + 1
      BY <1>1, <2>1
    <3>2. to[i] = q /\ to[i + 1] = d /\ all[i] = x
      BY <1>1, <1>2, <2>1, <3>1
    <3>. QED
      BY <3>2
  <2>2. CASE i # n + 1
    <3>1. /\ i \in 1..n /\ i # n + 2 /\ i + 1 # n + 2
          /\ i \in 1..Len(all) + 1 /\ i + 1 \in 1..Len(all) + 1
      BY <1>1, <2>2
    <3>2. to[i] = off[i] /\ to[i + 1] = off[i + 1] /\ all[i] = ps[i]
      BY <1>1, <3>1
    <3>. QED
      BY <1>2, <3>1, <3>2
  <2>. QED
    BY <2>1, <2>2
<1>5. Laid(all, w, p, d)
  BY <1>3, <1>4 DEF Laid
<1>. QED
  BY <1>5 DEF all

-----------------------------------------------------------------------------

NsTypeOK ==
  /\ conf \in [client: {"async", "blocking"}, body: NsBodies]
  /\ parts \in Seq(NsParts) /\ range \in Seq(NsBytes) /\ nsent \in Seq(NsBytes)
  /\ pipe \in [ok: BOOLEAN, bytes: Seq(NsBytes), capacity: Nat]
  /\ eof \in BOOLEAN
  /\ Len(pipe.bytes) <= pipe.capacity

Word == Ns!Whole(conf.body)

\* The parts without the one whose bytes are in the range.
Rest(ps) == IF ps # << >> /\ ~ps[1].stream THEN Tail(ps) ELSE ps

NsOpen == nstack \notin {"ended", "failed", "closed"}

\* Foundation has read a beginning of the body, and all of it when it was told so.
NsSentIsFirst ==
  /\ Len(nsent) <= Len(Word) /\ nsent = Cut(Word, 0, Len(nsent))
  /\ nstack = "ended" => Len(nsent) = Len(Word)

\* What Foundation has read, the pipe and the writer's range follow each other in the
\* body, and the other parts are the rest of it.
FormIsKept ==
  NsOpen /\ pipe.ok =>
    \E b, c \in 0..Len(Word) :
      /\ Len(nsent) <= b /\ b <= c
      /\ pipe.bytes = Cut(Word, Len(nsent), b) /\ range = Cut(Word, b, c)
      /\ Laid(Rest(parts), Word, c, Len(Word))

\* Nothing is written any more, which stands for the end, only at the end.
NothingIsTheEnd ==
  /\ pc = "write" /\ range = << >> => parts = << >>
  /\ pipe.ok /\ eof => parts = << >> /\ range = << >>

NsInv == NsTypeOK /\ NsSentIsFirst /\ FormIsKept /\ NothingIsTheEnd

\* What a step of Foundation's stream may come to.
NsStep == \A b \in NsBodies : conf.body = b => [Ns!Transfer(b)!Next]_<<nsent, Ns!TransferState>>

LEMMA CutLen ==
  ASSUME NEW w \in Seq(NsBytes), NEW q \in 0..Len(w), NEW p \in 0..q
  PROVE  Cut(w, p, q) \in Seq(NsBytes) /\ Len(Cut(w, p, q)) = q - p
<1>1. p \in Nat /\ q - p \in Nat /\ p + (q - p) = q /\ p + (q - p) <= Len(w)
  OBVIOUS
<1>2. \A k, n \in Nat : k + n <= Len(w) =>
        /\ Cut(w, k, k + n) \in Seq(NsBytes) /\ Len(Cut(w, k, k + n)) = n
        /\ \A i \in 1..n : Cut(w, k, k + n)[i] = w[k + i]
  BY Cuts, Zenon
<1>. DEFINE n == q - p
<1>3. n \in Nat /\ p + n = q /\ p + n <= Len(w)
  BY <1>1
<1>. HIDE DEF n
<1>4. Cut(w, p, p + n) \in Seq(NsBytes) /\ Len(Cut(w, p, p + n)) = n
  BY ONLY <1>1, <1>2, <1>3
<1>5. Cut(w, p, q) \in Seq(NsBytes) /\ Len(Cut(w, p, q)) = n
  BY ONLY <1>3, <1>4
<1>. QED
  BY <1>5 DEF n

LEMMA CutSplit ==
  ASSUME NEW w \in Seq(NsBytes), NEW q \in 0..Len(w), NEW p \in 0..q, NEW n \in 0..(q - p)
  PROVE  /\ SubSeq(Cut(w, p, q), 1, n) = Cut(w, p, p + n)
         /\ SubSeq(Cut(w, p, q), n + 1, Len(Cut(w, p, q))) = Cut(w, p + n, q)
<1>. DEFINE l == q - p
<1>1. p \in Nat /\ l \in Nat /\ p + l = q /\ p + l <= Len(w) /\ n \in 0..l
  OBVIOUS
<1>. HIDE DEF l
<1>2. /\ SubSeq(Cut(w, p, p + l), 1, n) = Cut(w, p, p + n)
      /\ SubSeq(Cut(w, p, p + l), n + 1, l) = Cut(w, p + n, p + l)
  BY ONLY <1>1, CutSub, w \in Seq(NsBytes), Zenon
<1>3. Len(Cut(w, p, p + l)) = l
  BY ONLY <1>1, CutIs, w \in Seq(NsBytes), Zenon
<1>. QED
  BY <1>1, <1>2, <1>3, Zenon

LEMMA NsFields ==
  ASSUME NsTypeOK
  PROVE  /\ conf.body \in NsBodies /\ pipe.ok \in BOOLEAN /\ pipe.bytes \in Seq(NsBytes)
         /\ pipe.capacity \in Nat /\ Len(pipe.bytes) \in Nat /\ Len(nsent) \in Nat
         /\ Len(range) \in Nat
  BY DEF NsTypeOK

LEMMA NsState ==
  /\ Ns!TransferState = IF nstack = "ended" THEN "ended"
                        ELSE IF NsOpen THEN "open" ELSE "failed"
  /\ Ns!TransferState' = IF nstack' = "ended" THEN "ended"
                         ELSE IF NsOpen' THEN "open" ELSE "failed"
  BY DEF Ns!TransferState, NsOpen

LEMMA NsKeepStep ==
  ASSUME nsent' = nsent, Ns!TransferState' = Ns!TransferState
  PROVE  NsStep
  BY DEF NsStep

LEMMA NsFails ==
  ASSUME NsOpen, nstack' \in {"failed", "closed"}, nsent' = nsent
  PROVE  NsStep
<1>1. Ns!TransferState = "open" /\ Ns!TransferState' = "failed"
  BY NsState DEF NsOpen
<1>. QED
  BY <1>1 DEF NsStep, Ns!Transfer!Next, Ns!Transfer!Fail

LEMMA NsEnds ==
  ASSUME NsOpen, nstack' = "ended", nsent' = Word
  PROVE  NsStep
<1>1. Ns!TransferState = "open" /\ Ns!TransferState' = "ended"
  BY NsState DEF NsOpen
<1>. QED
  BY <1>1 DEF NsStep, Ns!Transfer!Next, Ns!Transfer!End, Word

LEMMA NsGoesOn ==
  ASSUME NsOpen, NsOpen', NEW n \in Len(nsent) + 1..Len(Word), nsent' = SubSeq(Word, 1, n)
  PROVE  NsStep
<1>1. Ns!TransferState = "open" /\ Ns!TransferState' = "open"
  BY NsState DEF NsOpen
<1>. QED
  BY <1>1 DEF NsStep, Ns!Transfer!Next, Ns!Transfer!Deliver, Word

LEMMA NsQuiet ==
  ASSUME NsInv, UNCHANGED <<conf, parts, range, nsent, pipe, eof>>,
         pc' = pc \/ pc' # "write",
         nstack' = nstack \/ (NsOpen /\ NsOpen')
  PROVE  NsInv' /\ NsStep
<1>1. Word' = Word /\ Rest(parts)' = Rest(parts)
  BY DEF Word, Rest, Ns!Whole
<1>2. NsTypeOK'
  BY DEF NsInv, NsTypeOK
<1>3. NsSentIsFirst'
  BY <1>1 DEF NsInv, NsSentIsFirst, NsOpen
<1>4. FormIsKept'
  <2>. SUFFICES ASSUME NsOpen', pipe.ok
       PROVE  \E b, c \in 0..Len(Word) :
                /\ Len(nsent) <= b /\ b <= c
                /\ pipe.bytes = Cut(Word, Len(nsent), b) /\ range = Cut(Word, b, c)
                /\ Laid(Rest(parts), Word, c, Len(Word))
    BY <1>1 DEF FormIsKept
  <2>1. NsOpen
    BY DEF NsOpen
  <2>. QED
    BY <2>1 DEF NsInv, FormIsKept
<1>5. NothingIsTheEnd'
  BY DEF NsInv, NothingIsTheEnd
<1>6. NsStep
  BY NsState, NsKeepStep DEF NsOpen
<1>. QED
  BY <1>2, <1>3, <1>4, <1>5, <1>6 DEF NsInv

\* The parts once the head is taken away, and the range that get_range_of_part makes.
LEMMA ShiftLaid ==
  ASSUME NEW w \in Seq(NsBytes), NEW ps \in Seq(NsParts), NEW c \in 0..Len(w),
         Laid(ps, w, c, Len(w))
  PROVE  \E d \in c..Len(w) :
           Ns!GetRange(ps) = Cut(w, c, d) /\ Laid(Rest(ps), w, d, Len(w))
<1>0. c \in Nat /\ Len(w) \in 0..Len(w) /\ c \in c..Len(w)
  OBVIOUS
<1>1. CASE ps = << >> \/ ps[1].stream
  <2>1. Ns!GetRange(ps) = << >> /\ Rest(ps) = ps
    BY <1>1 DEF Ns!GetRange, Rest
  <2>2. Cut(w, c, c) = << >>
    BY <1>0, CutNone
  <2>. QED
    BY <1>0, <2>1, <2>2
<1>2. CASE ps # << >> /\ ~ps[1].stream
  <2>1. Ns!GetRange(ps) = ps[1].bytes /\ Rest(ps) = Tail(ps)
    BY <1>2 DEF Ns!GetRange, Rest
  <2>. QED
    BY <1>0, <1>2, <2>1, LaidHead
<1>. QED
  BY <1>1, <1>2

LEMMA NsShift ==
  ASSUME NsInv, Word \in Seq(NsBytes), parts # << >>, range = << >>,
         parts[1].stream => parts[1].bytes = << >>,
         Ns!ShiftPart, pc = "progress", pc' = pc, UNCHANGED <<conf, nsent, pipe, eof,
         nstack>>
  PROVE  NsInv' /\ NsStep
<1>1. Word' = Word /\ parts' = Tail(parts) /\ range' = Ns!GetRange(Tail(parts))
  BY DEF Word, Ns!Whole, Ns!ShiftPart
<1>2. parts \in Seq(NsParts) /\ Tail(parts) \in Seq(NsParts)
  BY DEF NsInv, NsTypeOK
<1>3. range' \in Seq(NsBytes)
  <2>1. \A ps \in Seq(NsParts) : Ns!GetRange(ps) \in Seq(NsBytes)
    <3>. TAKE ps \in Seq(NsParts)
    <3>1. CASE ps = << >> \/ ps[1].stream
      <4>1. << >> \in Seq(NsBytes)
        BY EmptySeq
      <4>. QED
        BY <3>1, <4>1 DEF Ns!GetRange
    <3>2. CASE ps # << >> /\ ~ps[1].stream
      <4>1. ps[1] \in NsParts
        BY <3>2
      <4>2. ps[1].bytes \in Seq(NsBytes)
        BY <4>1 DEF NsParts
      <4>. QED
        BY <3>2, <4>2 DEF Ns!GetRange
    <3>. QED
      BY <3>1, <3>2
  <2>. QED
    BY <1>1, <1>2, <2>1
<1>4. NsTypeOK'
  BY <1>1, <1>2, <1>3 DEF NsInv, NsTypeOK
<1>5. NsSentIsFirst'
  BY <1>1 DEF NsInv, NsSentIsFirst
<1>6. FormIsKept'
  <2>. SUFFICES ASSUME NsOpen, pipe.ok
       PROVE  \E b, c \in 0..Len(Word) :
                /\ Len(nsent) <= b /\ b <= c
                /\ pipe.bytes = Cut(Word, Len(nsent), b) /\ range' = Cut(Word, b, c)
                /\ Laid(Rest(Tail(parts)), Word, c, Len(Word))
    BY <1>1 DEF FormIsKept, NsOpen, Rest
  <2>1. PICK b \in 0..Len(Word), c \in 0..Len(Word) :
          /\ Len(nsent) <= b /\ b <= c
          /\ pipe.bytes = Cut(Word, Len(nsent), b) /\ range = Cut(Word, b, c)
          /\ Laid(Rest(parts), Word, c, Len(Word))
    BY DEF NsInv, FormIsKept
  <2>2. b = c
    <3>1. b \in 0..c /\ Len(Cut(Word, b, c)) = 0
      BY <2>1
    <3>2. Len(Cut(Word, b, c)) = c - b
      BY <3>1, CutLen
    <3>. QED
      BY <3>1, <3>2
  <2>3. Laid(Tail(parts), Word, c, Len(Word))
    <3>1. CASE ~parts[1].stream
      BY <2>1, <3>1 DEF Rest
    <3>2. CASE parts[1].stream
      <4>1. Laid(parts, Word, c, Len(Word)) /\ Len(Word) \in 0..Len(Word)
        BY <2>1, <3>2 DEF Rest
      <4>2. PICK d \in c..Len(Word) :
              parts[1].bytes = Cut(Word, c, d) /\ Laid(Tail(parts), Word, d, Len(Word))
        BY <1>2, <4>1, LaidHead
      <4>3. c = d
        <5>1. c \in 0..d /\ d \in 0..Len(Word) /\ Len(Cut(Word, c, d)) = 0
          BY <3>2, <4>2
        <5>2. Len(Cut(Word, c, d)) = d - c
          BY <5>1, CutLen
        <5>. QED
          BY <5>1, <5>2
      <4>. QED
        BY <4>2, <4>3
    <3>. QED
      BY <3>1, <3>2
  <2>4. PICK d \in c..Len(Word) :
          /\ Ns!GetRange(Tail(parts)) = Cut(Word, c, d)
          /\ Laid(Rest(Tail(parts)), Word, d, Len(Word))
    BY <1>2, <2>3, ShiftLaid
  <2>5. d \in 0..Len(Word) /\ b <= d
    BY <2>2, <2>4
  <2>. QED
    BY <1>1, <2>1, <2>2, <2>4, <2>5
<1>7. NothingIsTheEnd'
  <2>1. ~(pipe.ok /\ eof)
    BY DEF NsInv, NothingIsTheEnd
  <2>. QED
    BY <2>1 DEF NothingIsTheEnd
<1>8. NsStep
  BY NsState, NsKeepStep DEF NsOpen
<1>. QED
  BY <1>4, <1>5, <1>6, <1>7, <1>8 DEF NsInv

\* A read of the caller's stream.
LEMMA NsTakes ==
  ASSUME NsInv, Word \in Seq(NsBytes), parts # << >>, range = << >>, parts[1].stream,
         NEW n \in 1..Len(parts[1].bytes),
         range' = SubSeq(parts[1].bytes, 1, n),
         parts' = [parts EXCEPT ![1].bytes = SubSeq(parts[1].bytes, n + 1, Len(parts[1].bytes))],
         UNCHANGED <<conf, nsent, pipe, eof, nstack>>
  PROVE  NsInv' /\ NsStep
<1>. DEFINE r == parts[1].bytes
            more == SubSeq(r, n + 1, Len(r))
            head == [parts[1] EXCEPT !.bytes = more]
<1>1. Word' = Word
  BY DEF Word, Ns!Whole
<1>2. /\ parts \in Seq(NsParts) /\ parts[1] \in NsParts /\ Len(parts) \in Nat
      /\ Len(parts) >= 1
  BY DEF NsInv, NsTypeOK
<1>3. r \in Seq(NsBytes) /\ Len(r) \in Nat /\ n \in 1..Len(r)
  BY <1>2 DEF NsParts
<1>4. range' \in Seq(NsBytes) /\ Len(range') = n /\ more \in Seq(NsBytes)
  <2>1. SubSeq(r, 1, n) \in Seq(NsBytes) /\ Len(SubSeq(r, 1, n)) = n
    BY <1>3, SubSeqProperties
  <2>2. more \in Seq(NsBytes)
    BY <1>3, SubSeqProperties
  <2>. QED
    BY <2>1, <2>2
<1>. HIDE DEF more
<1>5. head \in NsParts /\ head.stream /\ head.bytes = more
  BY <1>2, <1>4 DEF NsParts
<1>6. /\ parts' = [parts EXCEPT ![1] = head]
      /\ parts' \in Seq(NsParts) /\ Len(parts') = Len(parts) /\ parts'[1] = head
      /\ \A i \in 1..Len(parts) : i # 1 => parts'[i] = parts[i]
  <2>1. parts' = [parts EXCEPT ![1] = head]
    BY DEF more
  <2>. HIDE DEF head
  <2>2. parts \in Seq(NsParts) /\ 1 \in 1..Len(parts) /\ head \in NsParts
    BY <1>2, <1>5
  <2>3. /\ [parts EXCEPT ![1] = head] \in Seq(NsParts)
        /\ Len([parts EXCEPT ![1] = head]) = Len(parts)
        /\ \A i \in 1..Len(parts) :
             [parts EXCEPT ![1] = head][i] = IF i = 1 THEN head ELSE parts[i]
    BY ONLY <2>2, ExceptSeq
  <2>. QED
    BY ONLY <2>1, <2>2, <2>3, Zenon
<1>. HIDE DEF r, head
<1>7. Tail(parts') = Tail(parts) /\ parts' # << >>
  <2>1. parts' # << >> /\ parts # << >>
    BY <1>2, <1>6
  <2>2. /\ Tail(parts) \in Seq(NsParts) /\ Tail(parts') \in Seq(NsParts)
        /\ Len(Tail(parts)) = Len(parts) - 1 /\ Len(Tail(parts')) = Len(parts) - 1
    BY <1>2, <1>6, <2>1, HeadTailProperties
  <2>3. \A i \in 1..Len(parts) - 1 : Tail(parts)[i] = parts[i + 1] /\ Tail(parts')[i] = parts'[i + 1]
    BY <1>2, <1>6, <2>1, HeadTailProperties
  <2>4. \A i \in 1..Len(parts) - 1 : Tail(parts)[i] = Tail(parts')[i]
    BY <1>2, <1>6, <2>3
  <2>. QED
    BY <2>1, <2>2, <2>4, SeqEqual
<1>8. NsTypeOK'
  BY <1>4, <1>6 DEF NsInv, NsTypeOK
<1>9. NsSentIsFirst'
  BY <1>1 DEF NsInv, NsSentIsFirst
<1>10. FormIsKept'
  <2>. SUFFICES ASSUME NsOpen, pipe.ok
       PROVE  \E b, c \in 0..Len(Word) :
                /\ Len(nsent) <= b /\ b <= c
                /\ pipe.bytes = Cut(Word, Len(nsent), b) /\ range' = Cut(Word, b, c)
                /\ Laid(parts', Word, c, Len(Word))
    BY <1>1, <1>5, <1>6 DEF FormIsKept, NsOpen, Rest
  <2>1. PICK b \in 0..Len(Word), c \in 0..Len(Word) :
          /\ Len(nsent) <= b /\ b <= c
          /\ pipe.bytes = Cut(Word, Len(nsent), b) /\ range = Cut(Word, b, c)
          /\ Laid(parts, Word, c, Len(Word))
    BY DEF NsInv, FormIsKept, Rest
  <2>2. b = c
    <3>1. b \in 0..c /\ Len(Cut(Word, b, c)) = 0
      BY <2>1
    <3>2. Len(Cut(Word, b, c)) = c - b
      BY <3>1, CutLen
    <3>. QED
      BY <3>1, <3>2
  <2>3. Len(Word) \in 0..Len(Word)
    OBVIOUS
  <2>4. PICK d \in c..Len(Word) :
          parts[1].bytes = Cut(Word, c, d) /\ Laid(Tail(parts), Word, d, Len(Word))
    BY <1>2, <2>1, <2>3, LaidHead
  <2>5. r = Cut(Word, c, d) /\ c \in 0..d /\ d \in 0..Len(Word)
    BY <2>4 DEF r
  <2>6. Len(r) = d - c
    BY <2>5, CutLen
  <2>7. n \in 0..(d - c) /\ c + n \in 0..Len(Word) /\ d \in c + n..Len(Word) /\ b <= c + n
    BY <1>3, <2>2, <2>5, <2>6
  <2>8. range' = Cut(Word, c, c + n) /\ more = Cut(Word, c + n, d)
    <3>1. /\ SubSeq(Cut(Word, c, d), 1, n) = Cut(Word, c, c + n)
          /\ SubSeq(Cut(Word, c, d), n + 1, Len(Cut(Word, c, d))) = Cut(Word, c + n, d)
      BY ONLY <2>5, <2>7, Word \in Seq(NsBytes), CutSplit, Zenon
    <3>. QED
      BY <2>5, <3>1 DEF more, r
  <2>9. Laid(parts', Word, c + n, Len(Word))
    <3>1. parts'[1].bytes = Cut(Word, c + n, d) /\ Laid(Tail(parts'), Word, d, Len(Word))
      BY <1>5, <1>6, <1>7, <2>4, <2>8
    <3>. QED
      BY <1>6, <1>7, <2>3, <2>7, <3>1, LaidCons
  <2>. QED
    BY <2>1, <2>2, <2>7, <2>8, <2>9
<1>11. NothingIsTheEnd'
  <2>1. ~(pipe.ok /\ eof)
    BY DEF NsInv, NothingIsTheEnd
  <2>2. range' # << >>
    BY <1>3, <1>4
  <2>. QED
    BY <2>1, <2>2 DEF NothingIsTheEnd
<1>12. NsStep
  BY NsState, NsKeepStep DEF NsOpen
<1>. QED
  BY <1>8, <1>9, <1>10, <1>11, <1>12 DEF NsInv

LEMMA NsProgress ==
  ASSUME NsInv, Word \in Seq(NsBytes), Ns!Progress
  PROVE  NsInv' /\ NsStep
<1>1. /\ pc = "progress"
      /\ UNCHANGED <<conf, wakes, opened, attached, pipe, eof, events, locked, nstack, nsent>>
  BY DEF Ns!Progress, Ns!pipeVars
<1>2. CASE (parts = << >> \/ range # << >>) /\ pc' = "write" /\ UNCHANGED <<parts, range>>
  <2>1. NsTypeOK' /\ NsSentIsFirst' /\ FormIsKept'
    BY <1>1, <1>2
    DEF NsInv, NsTypeOK, NsSentIsFirst, FormIsKept, NsOpen, Word, Ns!Whole, Rest
  <2>2. NothingIsTheEnd'
    BY <1>1, <1>2 DEF NsInv, NothingIsTheEnd
  <2>3. NsStep
    BY <1>1, NsState, NsKeepStep DEF NsOpen
  <2>. QED
    BY <2>1, <2>2, <2>3 DEF NsInv
<1>3. CASE parts # << >> /\ range = << >> /\ ~parts[1].stream /\ Ns!ShiftPart /\ UNCHANGED pc
  BY <1>1, <1>3, NsShift
<1>4. CASE parts # << >> /\ range = << >> /\ parts[1].stream /\ Ns!ReadPart
  <2>1. CASE \E n \in 1..Capacity :
               /\ n <= Len(parts[1].bytes)
               /\ range' = SubSeq(parts[1].bytes, 1, n)
               /\ parts' = [parts EXCEPT ![1].bytes =
                              SubSeq(parts[1].bytes, n + 1, Len(parts[1].bytes))]
               /\ pc' = "write"
    <3>1. PICK n \in 1..Capacity :
               /\ n <= Len(parts[1].bytes)
               /\ range' = SubSeq(parts[1].bytes, 1, n)
               /\ parts' = [parts EXCEPT ![1].bytes =
                              SubSeq(parts[1].bytes, n + 1, Len(parts[1].bytes))]
      BY <2>1
    <3>2. parts[1] \in NsParts
      BY <1>4 DEF NsInv, NsTypeOK
    <3>3. Len(parts[1].bytes) \in Nat
      BY <3>2 DEF NsParts
    <3>4. n \in 1..Len(parts[1].bytes)
      BY <3>1, <3>3
    <3>. QED
      BY <1>1, <1>4, <3>1, <3>4, NsTakes
  <2>2. CASE parts[1].bytes = << >> /\ Ns!ShiftPart /\ UNCHANGED pc
    BY <1>1, <1>4, <2>2, NsShift
  <2>3. CASE pc' \in {"write error", "register"} /\ UNCHANGED <<parts, range>>
    BY <1>1, <2>3, NsQuiet
  <2>. QED
    BY <1>4, <2>1, <2>2, <2>3 DEF Ns!ReadPart
<1>. QED
  BY <1>2, <1>3, <1>4 DEF Ns!Progress

\* The writer gives the pipe the first bytes of its range.
LEMMA NsWrite ==
  ASSUME NsInv, Word \in Seq(NsBytes), Ns!Write
  PROVE  NsInv' /\ NsStep
<1>. DEFINE n == Ns!Written
            more == SubSeq(range, 1, n)
<1>1. /\ pc = "write" /\ pc' # "write"
      /\ pipe' = [pipe EXCEPT !.bytes = pipe.bytes \o more]
      /\ range' = SubSeq(range, n + 1, Len(range))
      /\ eof' = (eof \/ (pipe.ok /\ range = << >>))
      /\ UNCHANGED <<conf, parts, nstack, nsent>>
  BY DEF Ns!Write
<1>2. /\ conf.body \in NsBodies /\ pipe.ok \in BOOLEAN /\ pipe.bytes \in Seq(NsBytes)
      /\ pipe.capacity \in Nat /\ Len(pipe.bytes) \in Nat /\ Len(nsent) \in Nat
      /\ Len(range) \in Nat
  BY NsFields DEF NsInv
<1>3. /\ n \in 0..Len(range) /\ Len(pipe.bytes) + n <= pipe.capacity
      /\ range \in Seq(NsBytes)
  BY <1>2 DEF NsInv, NsTypeOK, Ns!Written
<1>. HIDE DEF n
<1>4. /\ more \in Seq(NsBytes) /\ Len(more) = n
      /\ range' \in Seq(NsBytes)
  <2>1. more \in Seq(NsBytes) /\ Len(more) = n
    BY <1>2, <1>3, SubSeqProperties
  <2>2. SubSeq(range, n + 1, Len(range)) \in Seq(NsBytes)
    BY <1>2, <1>3, SubSeqProperties
  <2>. QED
    BY <1>1, <2>1, <2>2
<1>5. Word' = Word /\ Rest(parts)' = Rest(parts)
  BY <1>1 DEF Word, Ns!Whole, Rest
<1>. HIDE DEF more
<1>6. NsTypeOK'
  <2>1. pipe.bytes \o more \in Seq(NsBytes) /\ Len(pipe.bytes \o more) = Len(pipe.bytes) + n
    BY <1>2, <1>4, ConcatProperties
  <2>2. /\ pipe' \in [ok: BOOLEAN, bytes: Seq(NsBytes), capacity: Nat]
        /\ Len(pipe'.bytes) <= pipe'.capacity
    BY <1>1, <1>2, <1>3, <2>1 DEF NsInv, NsTypeOK
  <2>. QED
    BY <1>1, <1>2, <1>4, <2>2 DEF NsInv, NsTypeOK
<1>7. pipe'.ok = pipe.ok /\ pipe'.bytes = pipe.bytes \o more
  BY <1>1 DEF NsInv, NsTypeOK
<1>8. NsSentIsFirst'
  BY <1>1, <1>5 DEF NsInv, NsSentIsFirst
<1>9. FormIsKept'
  <2>. SUFFICES ASSUME NsOpen, pipe.ok
       PROVE  \E b, c \in 0..Len(Word) :
                /\ Len(nsent) <= b /\ b <= c
                /\ pipe'.bytes = Cut(Word, Len(nsent), b) /\ range' = Cut(Word, b, c)
                /\ Laid(Rest(parts), Word, c, Len(Word))
    BY <1>1, <1>5, <1>7 DEF FormIsKept, NsOpen
  <2>1. PICK b \in 0..Len(Word), c \in 0..Len(Word) :
          /\ Len(nsent) <= b /\ b <= c
          /\ pipe.bytes = Cut(Word, Len(nsent), b) /\ range = Cut(Word, b, c)
          /\ Laid(Rest(parts), Word, c, Len(Word))
    BY DEF NsInv, FormIsKept
  <2>2. b \in 0..c /\ Len(range) = c - b
    <3>1. b \in 0..c
      BY <2>1
    <3>. QED
      BY <2>1, <3>1, CutLen
  <2>3. n \in 0..(c - b) /\ b + n \in 0..Len(Word) /\ b + n <= c /\ Len(nsent) <= b + n
    BY <1>2, <1>3, <2>1, <2>2
  <2>4. more = Cut(Word, b, b + n) /\ range' = Cut(Word, b + n, c)
    <3>1. /\ SubSeq(Cut(Word, b, c), 1, n) = Cut(Word, b, b + n)
          /\ SubSeq(Cut(Word, b, c), n + 1, Len(Cut(Word, b, c))) = Cut(Word, b + n, c)
      BY ONLY <2>1, <2>2, <2>3, Word \in Seq(NsBytes), CutSplit, Zenon
    <3>. QED
      BY <1>1, <2>1, <3>1 DEF more
  <2>5. Cut(Word, Len(nsent), b) \o Cut(Word, b, b + n) = Cut(Word, Len(nsent), b + n)
    <3>1. /\ Len(nsent) \in Nat /\ b \in Nat /\ b + n \in Nat /\ Len(nsent) <= b /\ b <= b + n
          /\ b + n <= Len(Word)
      BY <1>2, <2>1, <2>3
    <3>. QED
      BY ONLY <3>1, Word \in Seq(NsBytes), CutConcat, Zenon
  <2>. QED
    BY <1>7, <2>1, <2>3, <2>4, <2>5
<1>10. NothingIsTheEnd'
  <2>. SUFFICES ASSUME pipe.ok, eof' PROVE parts = << >> /\ range' = << >>
    BY <1>1, <1>7 DEF NothingIsTheEnd
  <2>1. parts = << >> /\ range = << >>
    BY <1>1 DEF NsInv, NothingIsTheEnd
  <2>2. n = 0 /\ Len(range) = 0
    BY <1>3, <2>1
  <2>3. SubSeq(range, 0 + 1, 0) = << >>
    BY SubSeqEmpty
  <2>. QED
    BY <1>1, <2>1, <2>2, <2>3
<1>11. NsStep
  BY <1>1, NsState, NsKeepStep DEF NsOpen
<1>. QED
  BY <1>6, <1>8, <1>9, <1>10, <1>11 DEF NsInv

\* An error empties the pipe for good; so does the end of Foundation's interest.
LEMMA NsGivenUp ==
  ASSUME NsInv, UNCHANGED <<conf, parts, range, nsent, eof>>,
         pipe' \in [ok: BOOLEAN, bytes: Seq(NsBytes), capacity: Nat],
         Len(pipe'.bytes) <= pipe'.capacity,
         ~pipe'.ok \/ (pipe.ok /\ ~NsOpen'),
         pc' = pc \/ pc' # "write",
         nstack' = nstack \/ (NsOpen /\ nstack' \in {"failed", "closed"})
  PROVE  NsInv' /\ NsStep
<1>1. Word' = Word
  BY DEF Word, Ns!Whole
<1>2. NsTypeOK'
  BY DEF NsInv, NsTypeOK
<1>3. NsSentIsFirst'
  BY <1>1 DEF NsInv, NsSentIsFirst, NsOpen
<1>4. FormIsKept'
  BY DEF FormIsKept
<1>5. NothingIsTheEnd'
  BY DEF NsInv, NothingIsTheEnd
<1>6. NsStep
  BY NsState, NsKeepStep, NsFails DEF NsOpen
<1>. QED
  BY <1>2, <1>3, <1>4, <1>5, <1>6 DEF NsInv

LEMMA NsRead ==
  ASSUME NsInv, Word \in Seq(NsBytes), NEW max \in 1..MaxRead, Ns!Read(max)
  PROVE  NsInv' /\ NsStep
<1>1. /\ nstack = "reading"
      /\ UNCHANGED <<conf, parts, range, pc, opened, attached, eof, events, locked>>
  BY DEF Ns!Read, Ns!writerVars
<1>2. CASE locked /\ nstack' = "asking" /\ UNCHANGED <<wakes, pipe, nsent>>
  BY <1>1, <1>2, NsQuiet DEF NsOpen
<1>3. CASE ~pipe.ok /\ nstack' = "failed" /\ UNCHANGED <<wakes, pipe, nsent>>
  BY <1>1, <1>3, NsGivenUp DEF NsOpen, NsInv, NsTypeOK
<1>4. CASE /\ pipe.ok /\ nstack' = "asking"
           /\ LET bytes == pipe.bytes
                  n == IF max < Len(bytes) THEN max ELSE Len(bytes) IN
                /\ nsent' = nsent \o SubSeq(bytes, 1, n)
                /\ pipe' = [pipe EXCEPT !.bytes = SubSeq(bytes, n + 1, Len(bytes))]
  <2>. DEFINE n == IF max < Len(pipe.bytes) THEN max ELSE Len(pipe.bytes)
              more == SubSeq(pipe.bytes, 1, n)
              kept == SubSeq(pipe.bytes, n + 1, Len(pipe.bytes))
              a == Len(nsent)
  <2>1. /\ pipe.ok \in BOOLEAN /\ pipe.bytes \in Seq(NsBytes) /\ nsent \in Seq(NsBytes)
        /\ pipe.capacity \in Nat /\ Len(pipe.bytes) \in Nat /\ a \in Nat
    BY NsFields DEF NsInv, NsTypeOK
  <2>2. n \in 0..Len(pipe.bytes)
    BY <2>1
  <2>3. nsent' = nsent \o more /\ pipe' = [pipe EXCEPT !.bytes = kept]
    BY <1>4
  <2>. HIDE DEF n
  <2>4. more \in Seq(NsBytes) /\ Len(more) = n
    BY <2>1, <2>2, SubSeqProperties
  <2>5. kept \in Seq(NsBytes) /\ Len(kept) <= Len(pipe.bytes)
    BY <2>1, <2>2, SubSeqProperties
  <2>6. Word' = Word /\ Rest(parts)' = Rest(parts) /\ NsOpen /\ NsOpen'
    BY <1>1, <1>4 DEF Word, Ns!Whole, Rest, NsOpen
  <2>7. PICK b \in 0..Len(Word), c \in 0..Len(Word) :
          /\ a <= b /\ b <= c
          /\ pipe.bytes = Cut(Word, a, b) /\ range = Cut(Word, b, c)
          /\ Laid(Rest(parts), Word, c, Len(Word))
    BY <1>4, <2>6 DEF NsInv, FormIsKept
  <2>8. a \in 0..b /\ nsent = Cut(Word, 0, a) /\ a <= Len(Word)
    BY <2>1, <2>7 DEF NsInv, NsSentIsFirst
  <2>9. Len(pipe.bytes) = b - a
    BY <2>7, <2>8, CutLen
  <2>. HIDE DEF more, kept
  <2>10. n \in 0..(b - a) /\ a + n \in 0..Len(Word) /\ a + n <= b
    BY <2>2, <2>7, <2>8, <2>9
  <2>11. more = Cut(Word, a, a + n) /\ kept = Cut(Word, a + n, b)
    <3>1. /\ SubSeq(Cut(Word, a, b), 1, n) = Cut(Word, a, a + n)
          /\ SubSeq(Cut(Word, a, b), n + 1, Len(Cut(Word, a, b))) = Cut(Word, a + n, b)
      BY ONLY <2>7, <2>8, <2>10, Word \in Seq(NsBytes), CutSplit, Zenon
    <3>. QED
      BY <2>7, <3>1 DEF more, kept
  <2>12. nsent' = Cut(Word, 0, a + n)
    <3>1. /\ 0 \in Nat /\ a \in Nat /\ a + n \in Nat /\ 0 <= a /\ a <= a + n
          /\ a + n <= Len(Word)
      BY <2>1, <2>8, <2>10
    <3>2. Cut(Word, 0, a) \o Cut(Word, a, a + n) = Cut(Word, 0, a + n)
      BY ONLY <3>1, Word \in Seq(NsBytes), CutConcat, Zenon
    <3>. QED
      BY <2>3, <2>8, <2>11, <3>2
  <2>13. nsent' \in Seq(NsBytes) /\ Len(nsent') = a + n
    BY <2>1, <2>3, <2>4, ConcatProperties
  <2>14. NsTypeOK'
    <3>1. /\ pipe' \in [ok: BOOLEAN, bytes: Seq(NsBytes), capacity: Nat]
          /\ Len(pipe'.bytes) <= pipe'.capacity
      <4>1. pipe' = [ok |-> pipe.ok, bytes |-> kept, capacity |-> pipe.capacity]
        BY <2>3 DEF NsInv, NsTypeOK
      <4>2. Len(kept) <= pipe.capacity
        <5>1. Len(kept) \in Nat /\ Len(pipe.bytes) <= pipe.capacity
          BY <2>5 DEF NsInv, NsTypeOK
        <5>. QED
          BY <2>1, <2>5, <5>1
      <4>. QED
        BY <2>1, <2>5, <4>1, <4>2
    <3>. QED
      BY <1>1, <2>13, <3>1 DEF NsInv, NsTypeOK
  <2>15. pipe'.ok = pipe.ok /\ pipe'.bytes = kept
    BY <2>3 DEF NsInv, NsTypeOK
  <2>. HIDE DEF a
  <2>16. NsSentIsFirst'
    <3>1. Len(nsent') <= Len(Word') /\ nsent' = Cut(Word', 0, Len(nsent'))
      BY <2>6, <2>10, <2>12, <2>13
    <3>2. nstack' # "ended"
      BY <1>4
    <3>. QED
      BY <3>1, <3>2 DEF NsSentIsFirst
  <2>17. FormIsKept'
    BY <1>1, <2>6, <2>7, <2>10, <2>11, <2>13, <2>15 DEF FormIsKept
  <2>18. NothingIsTheEnd'
    BY <1>1, <2>15 DEF NsInv, NothingIsTheEnd
  <2>19. NsStep
    <3>1. CASE n = 0
      <4>1. a + n = a /\ nsent' = nsent
        BY <2>1, <2>8, <2>12, <3>1 DEF a
      <4>. QED
        BY <2>6, <4>1, <1>1, <1>4, NsState, NsKeepStep DEF NsOpen
    <3>2. CASE n # 0
      <4>1. a + n \in Len(nsent) + 1..Len(Word)
        BY <2>1, <2>10, <3>2 DEF a
      <4>2. nsent' = SubSeq(Word, 1, a + n)
        BY <2>12 DEF Cut
      <4>. QED
        BY <2>6, <4>1, <4>2, NsGoesOn
    <3>. QED
      BY <3>1, <3>2
  <2>. QED
    BY <2>14, <2>16, <2>17, <2>18, <2>19 DEF NsInv
<1>. QED
  BY <1>2, <1>3, <1>4 DEF Ns!Read

\* The end that Foundation finds is the body's.
LEMMA NsFindsTheEnd ==
  ASSUME NsInv, Word \in Seq(NsBytes), NsOpen, pipe.ok, pipe.bytes = << >>, eof,
         nstack' = "ended", pc' = pc, UNCHANGED <<conf, parts, range, nsent, pipe, eof>>
  PROVE  NsInv' /\ NsStep
<1>1. Word' = Word
  BY DEF Word, Ns!Whole
<1>2. PICK b \in 0..Len(Word), c \in 0..Len(Word) :
        /\ Len(nsent) <= b /\ b <= c
        /\ pipe.bytes = Cut(Word, Len(nsent), b) /\ range = Cut(Word, b, c)
        /\ Laid(Rest(parts), Word, c, Len(Word))
  BY DEF NsInv, FormIsKept
<1>3. parts = << >> /\ range = << >> /\ Rest(parts) = << >>
  BY DEF NsInv, NothingIsTheEnd, Rest
<1>4. Len(Word) = c
  BY <1>2, <1>3, LaidNone
<1>5. Len(nsent) \in 0..b /\ b \in 0..c
  <2>1. Len(nsent) \in Nat
    BY DEF NsInv, NsTypeOK
  <2>. QED
    BY <1>2, <2>1
<1>6. Len(nsent) = b /\ b = c
  <2>1. Len(Cut(Word, Len(nsent), b)) = b - Len(nsent) /\ Len(Cut(Word, b, c)) = c - b
    BY <1>5, CutLen
  <2>2. Len(Cut(Word, Len(nsent), b)) = 0 /\ Len(Cut(Word, b, c)) = 0
    BY <1>2, <1>3
  <2>. QED
    BY <1>5, <2>1, <2>2
<1>7. Len(nsent) = Len(Word) /\ nsent = Word
  BY <1>4, <1>6, CutWhole DEF NsInv, NsSentIsFirst
<1>8. NsTypeOK' /\ NothingIsTheEnd'
  BY DEF NsInv, NsTypeOK, NothingIsTheEnd
<1>9. NsSentIsFirst'
  BY <1>1, <1>7 DEF NsInv, NsSentIsFirst
<1>10. FormIsKept'
  BY DEF FormIsKept, NsOpen
<1>11. NsStep
  BY <1>7, NsEnds
<1>. QED
  BY <1>8, <1>9, <1>10, <1>11 DEF NsInv

LEMMA NsNext ==
  ASSUME NsInv, Word \in Seq(NsBytes), [Ns!Next]_(Ns!vars)
  PROVE  NsInv' /\ NsStep
<1>1. CASE Ns!Check \/ Ns!Register \/ Ns!Resumed \/ Ns!StreamReady \/ Ns!Lock
  BY <1>1, NsQuiet
  DEF Ns!Check, Ns!Register, Ns!Resumed, Ns!StreamReady, Ns!Lock, Ns!pipeVars,
      Ns!writerVars
<1>2. CASE Ns!Attach \/ Ns!Open
  BY <1>2, NsQuiet DEF Ns!Attach, Ns!Open, Ns!pipeVars, Ns!writerVars, NsOpen
<1>3. CASE Ns!Progress
  BY <1>3, NsProgress
<1>4. CASE Ns!Write
  BY <1>4, NsWrite
<1>5. CASE Ns!WriteError
  <2>1. pipe' = [pipe EXCEPT !.ok = FALSE, !.bytes = << >>]
    BY <1>5 DEF Ns!WriteError
  <2>2. << >> \in Seq(NsBytes) /\ Len(<< >>) = 0
    BY EmptySeq
  <2>3. /\ pipe' \in [ok: BOOLEAN, bytes: Seq(NsBytes), capacity: Nat]
        /\ Len(pipe'.bytes) <= pipe'.capacity /\ ~pipe'.ok
    <3>1. pipe' = [ok |-> FALSE, bytes |-> << >>, capacity |-> pipe.capacity]
      BY <2>1 DEF NsInv, NsTypeOK
    <3>. QED
      BY <2>2, <3>1, NsFields DEF NsInv
  <2>4. UNCHANGED <<conf, parts, range, nsent, eof, nstack>> /\ pc' # "write"
    BY <1>5 DEF Ns!WriteError
  <2>. QED
    BY <2>3, <2>4, NsGivenUp
<1>6. ASSUME Ns!RunBlock \/ Ns!HasBytesAvailable \/ Ns!StreamStatus PROVE NsInv' /\ NsStep
  <2>1. UNCHANGED <<conf, parts, range, nsent, pipe, eof, pc>> /\ NsOpen
    BY <1>6
    DEF Ns!RunBlock, Ns!HasBytesAvailable, Ns!StreamStatus, Ns!pipeVars, Ns!writerVars,
        NsOpen
  <2>2. \/ nstack' \in {"reading", "status", "waiting"}
        \/ nstack' = "failed" /\ ~pipe.ok
        \/ nstack' = "ended" /\ pipe.ok /\ pipe.bytes = << >> /\ eof
    BY <1>6
    DEF Ns!RunBlock, Ns!HasBytesAvailable, Ns!StreamStatus, Ns!Event, NsInv, NsTypeOK
  <2>3. CASE nstack' \in {"reading", "status", "waiting"}
    BY <2>1, <2>3, NsQuiet DEF NsOpen
  <2>4. CASE nstack' = "failed" /\ ~pipe.ok
    BY <2>1, <2>4, NsGivenUp DEF NsInv, NsTypeOK
  <2>5. CASE nstack' = "ended" /\ pipe.ok /\ pipe.bytes = << >> /\ eof
    BY <2>1, <2>5, NsFindsTheEnd
  <2>. QED
    BY <2>2, <2>3, <2>4, <2>5
<1>7. CASE \E max \in 1..MaxRead : Ns!Read(max)
  BY <1>7, NsRead
<1>8. CASE Ns!Close
  <2>1. /\ UNCHANGED <<conf, parts, range, nsent, eof, pc>>
        /\ NsOpen /\ nstack' = "closed"
        /\ pipe' = IF pipe.ok THEN [pipe EXCEPT !.bytes = << >>, !.capacity = 0] ELSE pipe
    BY <1>8 DEF Ns!Close, Ns!writerVars, NsOpen
  <2>2. << >> \in Seq(NsBytes) /\ Len(<< >>) = 0
    BY EmptySeq
  <2>3. /\ pipe' \in [ok: BOOLEAN, bytes: Seq(NsBytes), capacity: Nat]
        /\ Len(pipe'.bytes) <= pipe'.capacity
        /\ pipe'.ok = pipe.ok
    <3>1. CASE pipe.ok
      <4>1. pipe' = [ok |-> pipe.ok, bytes |-> << >>, capacity |-> 0]
        BY <2>1, <3>1 DEF NsInv, NsTypeOK
      <4>. QED
        BY <2>2, <4>1, NsFields DEF NsInv
    <3>2. CASE ~pipe.ok
      BY <2>1, <3>2 DEF NsInv, NsTypeOK
    <3>. QED
      BY <3>1, <3>2
  <2>4. ~NsOpen'
    BY <2>1 DEF NsOpen
  <2>. QED
    BY <2>1, <2>3, <2>4, NsGivenUp DEF NsInv, NsTypeOK
<1>9. CASE UNCHANGED Ns!vars
  BY <1>9, NsQuiet DEF Ns!vars
<1>. QED
  BY <1>1, <1>2, <1>3, <1>4, <1>5, <1>6, <1>7, <1>8, <1>9
  DEF Ns!Next, Ns!Caller, Ns!RunLoop

-----------------------------------------------------------------------------
(* The parts that build_data_task makes are laid in the body from its start. *)

LEMMA CutLonger ==
  ASSUME NEW v \in Seq(NsBytes), NEW x \in Seq(NsBytes), NEW q \in 0..Len(v), NEW p \in 0..q
  PROVE  Cut(v \o x, p, q) = Cut(v, p, q)
<1>1. /\ v \o x \in Seq(NsBytes) /\ q \in 0..Len(v \o x)
      /\ \A i \in 1..Len(v) : (v \o x)[i] = v[i]
  <2>1. /\ v \o x \in Seq(NsBytes) /\ Len(v \o x) = Len(v) + Len(x)
        /\ \A i \in 1..Len(v) + Len(x) :
             (v \o x)[i] = IF i <= Len(v) THEN v[i] ELSE x[i - Len(v)]
    BY ConcatProperties
  <2>2. \A i \in 1..Len(v) : i \in 1..Len(v) + Len(x) /\ i <= Len(v)
    OBVIOUS
  <2>. QED
    BY <2>1, <2>2
<1>. DEFINE n == q - p
<1>2. n \in Nat /\ p \in Nat /\ p + n = q /\ p + n <= Len(v) /\ p + n <= Len(v \o x)
  BY <1>1
<1>. HIDE DEF n
<1>3. /\ Cut(v, p, p + n) \in Seq(NsBytes) /\ Len(Cut(v, p, p + n)) = n
      /\ Cut(v \o x, p, p + n) \in Seq(NsBytes) /\ Len(Cut(v \o x, p, p + n)) = n
  BY <1>1, <1>2, CutIs
<1>4. ASSUME NEW i \in 1..n PROVE Cut(v \o x, p, p + n)[i] = Cut(v, p, p + n)[i]
  <2>1. p + i \in 1..Len(v)
    BY <1>2
  <2>2. Cut(v, p, p + n)[i] = v[p + i]
    BY <1>2, CutAt
  <2>3. Cut(v \o x, p, p + n)[i] = (v \o x)[p + i]
    <3>. DEFINE w == v \o x
    <3>1. w \in Seq(NsBytes) /\ p + n <= Len(w)
      BY <1>1, <1>2
    <3>. HIDE DEF w
    <3>2. Cut(w, p, p + n)[i] = w[p + i]
      BY <1>2, <3>1, CutAt
    <3>. QED
      BY <3>2 DEF w
  <2>. QED
    BY <1>1, <2>1, <2>2, <2>3
<1>. QED
  BY <1>2, <1>3, <1>4, SeqEqual

LEMMA CutMore ==
  ASSUME NEW v \in Seq(NsBytes), NEW x \in Seq(NsBytes), NEW p \in 0..Len(v)
  PROVE  Cut(v \o x, p, Len(v \o x)) = Cut(v, p, Len(v)) \o x
<1>. DEFINE w == v \o x
            a == Len(v)
            n == Len(x)
<1>1. w \in Seq(NsBytes) /\ Len(w) = a + n /\ a \in Nat /\ n \in Nat
  BY ConcatProperties
<1>2. Cut(w, p, a) = Cut(v, p, a)
  BY CutLonger
<1>3. Cut(w, a, a + n) = x
  <2>1. ASSUME NEW i \in 1..n PROVE w[a + i] = x[i]
    <3>1. a + i \in Nat /\ a + i <= Len(v) + Len(x) /\ a + i > Len(v) /\ a + i - Len(v) = i
      BY <1>1
    <3>. QED
      BY <3>1
  <2>. HIDE DEF w, a, n
  <2>2. Cut(w, a, a + n) \in Seq(NsBytes) /\ Len(Cut(w, a, a + n)) = n
    BY <1>1, CutIs
  <2>3. ASSUME NEW i \in 1..n PROVE Cut(w, a, a + n)[i] = x[i]
    <3>1. Cut(w, a, a + n)[i] = w[a + i]
      <4>1. a + n <= Len(w)
        BY <1>1
      <4>. QED
        BY <1>1, <4>1, CutAt, Zenon
    <3>. QED
      BY <2>1, <3>1
  <2>4. x \in Seq(NsBytes) /\ Len(x) = n
    BY DEF n
  <2>. QED
    BY <2>2, <2>3, <2>4, SeqEqual
<1>4. p \in Nat /\ a \in Nat /\ a + n \in Nat /\ p <= a /\ a <= a + n /\ a + n <= Len(w)
  BY <1>1
<1>. HIDE DEF w, a, n
<1>5. Cut(w, p, a) \o Cut(w, a, a + n) = Cut(w, p, a + n)
  BY ONLY <1>1, <1>4, CutConcat, Zenon
<1>6. Cut(w, p, Len(w)) = Cut(v, p, a) \o x
  BY <1>1, <1>2, <1>3, <1>5
<1>. QED
  BY <1>6 DEF w, a

LEMMA LaidLonger ==
  ASSUME NEW v \in Seq(NsBytes), NEW x \in Seq(NsBytes), NEW ps \in Seq(NsParts),
         NEW p \in 0..Len(v), NEW q \in 0..Len(v), Laid(ps, v, p, q)
  PROVE  Laid(ps, v \o x, p, q)
<1>. DEFINE w == v \o x
<1>1. w \in Seq(NsBytes) /\ Len(w) = Len(v) + Len(x) /\ Len(v) \in Nat /\ Len(x) \in Nat
  BY ConcatProperties
<1>2. PICK off \in [1..Len(ps) + 1 -> 0..Len(v)] :
        /\ off[1] = p /\ off[Len(ps) + 1] = q
        /\ \A i \in 1..Len(ps) :
             off[i] <= off[i + 1] /\ ps[i].bytes = Cut(v, off[i], off[i + 1])
  BY DEF Laid
<1>3. \A i \in 1..Len(ps) : Cut(v, off[i], off[i + 1]) = Cut(w, off[i], off[i + 1])
  <2>. TAKE i \in 1..Len(ps)
  <2>1. off[i] \in 0..off[i + 1] /\ off[i + 1] \in 0..Len(v)
    <3>1. i \in 1..Len(ps) + 1 /\ i + 1 \in 1..Len(ps) + 1
      OBVIOUS
    <3>2. off[i] \in 0..Len(v) /\ off[i + 1] \in 0..Len(v) /\ off[i] <= off[i + 1]
      BY <1>2, <3>1
    <3>. QED
      BY <3>2
  <2>. QED
    BY <2>1, CutLonger
<1>. HIDE DEF w
<1>4. off \in [1..Len(ps) + 1 -> 0..Len(w)]
  BY <1>1, <1>2
<1>5. Laid(ps, w, p, q)
  BY <1>2, <1>3, <1>4 DEF Laid
<1>. QED
  BY <1>5 DEF w

\* The parts made so far and the data of the next one, after the first bytes of a form.
Made(ret, data, v) ==
  /\ ret \in Seq(NsParts) /\ v \in Seq(NsBytes)
  /\ \E q \in 0..Len(v) : Laid(ret, v, 0, q) /\ data = Cut(v, q, Len(v))

LEMMA MadeNone == Made(<< >>, << >>, << >>)
<1>1. << >> \in Seq(NsParts) /\ << >> \in Seq(NsBytes) /\ 0 \in 0..Len(<< >>)
  BY EmptySeq
<1>2. Laid(<< >>, << >>, 0, 0)
  BY <1>1, LaidNone
<1>3. << >> = Cut(<< >>, 0, Len(<< >>))
  BY <1>1, CutWhole
<1>. QED
  BY <1>1, <1>2, <1>3 DEF Made

LEMMA MadeMore ==
  ASSUME NEW ret, NEW data, NEW v, Made(ret, data, v), NEW x \in Seq(NsBytes)
  PROVE  Made(ret, data \o x, v \o x)
<1>1. PICK q \in 0..Len(v) : Laid(ret, v, 0, q) /\ data = Cut(v, q, Len(v))
  BY DEF Made
<1>2. ret \in Seq(NsParts) /\ v \in Seq(NsBytes) /\ 0 \in 0..Len(v)
  BY DEF Made
<1>3. /\ v \o x \in Seq(NsBytes) /\ Len(v \o x) = Len(v) + Len(x)
  BY <1>2, ConcatProperties
<1>4. q \in 0..Len(v \o x)
  BY <1>2, <1>3
<1>5. Laid(ret, v \o x, 0, q)
  BY <1>1, <1>2, LaidLonger
<1>6. data \o x = Cut(v \o x, q, Len(v \o x))
  BY <1>1, <1>2, CutMore
<1>. QED
  BY <1>2, <1>3, <1>4, <1>5, <1>6 DEF Made

LEMMA MadeCut ==
  ASSUME NEW ret, NEW data, NEW v, Made(ret, data, v), NEW x \in NsParts, x.bytes = data
  PROVE  Made(Append(ret, x), << >>, v) /\ Laid(Append(ret, x), v, 0, Len(v))
<1>1. PICK q \in 0..Len(v) : Laid(ret, v, 0, q) /\ data = Cut(v, q, Len(v))
  BY DEF Made
<1>2. /\ ret \in Seq(NsParts) /\ v \in Seq(NsBytes) /\ 0 \in 0..Len(v)
      /\ Len(v) \in q..Len(v) /\ Len(v) \in 0..Len(v) /\ Len(v) \in Nat
  BY DEF Made
<1>3. Laid(Append(ret, x), v, 0, Len(v))
  BY <1>1, <1>2, LaidAppend
<1>4. << >> = Cut(v, Len(v), Len(v))
  BY <1>2, CutNone
<1>5. Append(ret, x) \in Seq(NsParts)
  BY <1>2, AppendProperties
<1>. QED
  BY <1>2, <1>3, <1>4, <1>5 DEF Made

\* The fold over the parts of a form: what was made of the parts of a set.
Add(ps, acc, i) ==
  LET data == Append(acc.body, <<"header", i, 0>>)
      text == Ns!Text(i, ps[i].len) IN
  IF ps[i].stream
    THEN [ret |-> acc.ret \o <<Ns!Data(data), Ns!Stream(text)>>,
          body |-> <<<<"crlf", i, 0>>>>]
    ELSE [acc EXCEPT !.body = Append(data \o text, <<"crlf", i, 0>>)]

Nothing == [ret |-> << >>, body |-> << >>]
Indices(ps) == [i \in 1..Len(ps) |-> i]

FoldsTo(ps, T, f) ==
  f = [s \in SUBSET T |->
         IF s = {} THEN Nothing
         ELSE Add(ps, f[s \ {Ns!Max(s)}], Indices(ps)[Ns!Max(s)])]

Folded(ps) == CHOOSE f : FoldsTo(ps, DOMAIN Indices(ps), f)

LEMMA FormIsFolded ==
  ASSUME NEW ps
  PROVE  LET all == Folded(ps)[DOMAIN Indices(ps)] IN
         Ns!GenerateMultipart(ps) =
           Append(all.ret, Ns!Data(Append(all.body, <<"boundary", 0, 0>>)))
  BY Zenon
  DEF Ns!GenerateMultipart, Ns!FoldLeft, Ns!MapThenFoldSet, Folded, FoldsTo, Add,
      Nothing, Indices

LEMMA MaxIsLast ==
  ASSUME NEW n \in Nat, NEW s \in SUBSET (1..n), n \in s
  PROVE  Ns!Max(s) = n
<1>1. \A y \in s : n >= y
  OBVIOUS
<1>2. \A x \in s : (\A y \in s : x >= y) => x = n
  OBVIOUS
<1>. QED
  BY <1>1, <1>2 DEF Ns!Max

LEMMA FoldExists ==
  ASSUME NEW ps, NEW n \in Nat
  PROVE  \E f : FoldsTo(ps, 1..n, f)
<1>. DEFINE Bad == {k \in Nat : ~\E f : FoldsTo(ps, 1..k, f)}
<1>1. SUFFICES ASSUME Bad # {} PROVE FALSE
  OBVIOUS
<1>2. PICK m \in Bad : \A k \in Bad : m <= k
  <2>1. Bad \subseteq Nat
    OBVIOUS
  <2>. QED
    BY <1>1, <2>1, LeastExists
<1>3. m \in Nat /\ ~\E f : FoldsTo(ps, 1..m, f)
  BY <1>2
<1>4. CASE m = 0
  <2>. DEFINE f == [s \in SUBSET (1..m) |-> Nothing]
  <2>1. \A s \in SUBSET (1..m) : s = {}
    BY <1>4
  <2>2. f = [s \in SUBSET (1..m) |->
               IF s = {} THEN Nothing
               ELSE Add(ps, f[s \ {Ns!Max(s)}], Indices(ps)[Ns!Max(s)])]
    BY <2>1, Zenon
  <2>3. FoldsTo(ps, 1..m, f)
    BY <2>2 DEF FoldsTo
  <2>. QED
    BY <1>3, <2>3
<1>5. CASE m # 0
  <2>1. m - 1 \in Nat /\ m - 1 \notin Bad
    BY <1>2, <1>3, <1>5
  <2>2. PICK g : FoldsTo(ps, 1..m - 1, g)
    BY <2>1
  <2>. DEFINE h == [s \in SUBSET (1..m) |->
                      IF m \notin s THEN g[s]
                      ELSE Add(ps, g[s \ {m}], Indices(ps)[m])]
              Value(s) == IF s = {} THEN Nothing
                         ELSE Add(ps, h[s \ {Ns!Max(s)}], Indices(ps)[Ns!Max(s)])
  <2>3. \A s \in SUBSET (1..m) : m \notin s => s \in SUBSET (1..m - 1)
    BY <1>3, <1>5
  <2>4. \A s \in SUBSET (1..m) : \A x : s \ {x} \in SUBSET (1..m)
    OBVIOUS
  <2>5. ASSUME NEW s \in SUBSET (1..m), m \notin s PROVE h[s] = Value(s)
    <3>1. s \in SUBSET (1..m - 1) /\ h[s] = g[s]
      BY <2>3, <2>5
    <3>2. g[s] = IF s = {} THEN Nothing
                 ELSE Add(ps, g[s \ {Ns!Max(s)}], Indices(ps)[Ns!Max(s)])
      BY <2>2, <3>1, Zenon DEF FoldsTo
    <3>3. h[s \ {Ns!Max(s)}] = g[s \ {Ns!Max(s)}]
      <4>1. s \ {Ns!Max(s)} \in SUBSET (1..m) /\ m \notin s \ {Ns!Max(s)}
        BY <2>5
      <4>. QED
        BY <4>1
    <3>. QED
      BY <3>1, <3>2, <3>3, Zenon
  <2>6. ASSUME NEW s \in SUBSET (1..m), m \in s PROVE h[s] = Value(s)
    <3>1. Ns!Max(s) = m /\ s # {}
      BY <1>3, <2>6, MaxIsLast
    <3>2. h[s] = Add(ps, g[s \ {m}], Indices(ps)[m])
      BY <2>6
    <3>3. h[s \ {m}] = g[s \ {m}]
      <4>1. s \ {m} \in SUBSET (1..m) /\ m \notin s \ {m}
        BY <2>6
      <4>. QED
        BY <4>1
    <3>. QED
      BY <3>1, <3>2, <3>3, Zenon
  <2>7. h = [s \in SUBSET (1..m) |-> Value(s)]
    <3>1. \A s \in SUBSET (1..m) : h[s] = Value(s)
      BY <2>5, <2>6
    <3>2. h = [s \in SUBSET (1..m) |-> h[s]]
      OBVIOUS
    <3>. HIDE DEF h, Value
    <3>. QED
      BY <3>1, <3>2
  <2>8. FoldsTo(ps, 1..m, h)
    BY <2>7 DEF FoldsTo
  <2>. QED
    BY <1>3, <2>8
<1>. QED
  BY <1>4, <1>5

\* What the fold makes of the first parts.
FirstParts(ps, k) == Folded(ps)[1..k]

LEMMA FoldSteps ==
  ASSUME NEW S, NEW ps \in Seq(S)
  PROVE  /\ FirstParts(ps, 0) = Nothing
         /\ \A k \in 1..Len(ps) : FirstParts(ps, k) = Add(ps, FirstParts(ps, k - 1), k)
<1>1. Len(ps) \in Nat /\ DOMAIN Indices(ps) = 1..Len(ps)
  BY DEF Indices
<1>2. FoldsTo(ps, 1..Len(ps), Folded(ps))
  BY <1>1, FoldExists, Zenon DEF Folded
<1>. DEFINE f == Folded(ps)
<1>3. \A s \in SUBSET (1..Len(ps)) :
        f[s] = IF s = {} THEN Nothing
               ELSE Add(ps, f[s \ {Ns!Max(s)}], Indices(ps)[Ns!Max(s)])
  BY <1>2, Zenon DEF FoldsTo
<1>. HIDE DEF f
<1>4. f[1..0] = Nothing
  <2>1. 1..0 = {} /\ {} \in SUBSET (1..Len(ps))
    OBVIOUS
  <2>. QED
    BY <1>3, <2>1
<1>5. ASSUME NEW k \in 1..Len(ps) PROVE f[1..k] = Add(ps, f[1..k - 1], k)
  <2>1. 1..k \in SUBSET (1..Len(ps)) /\ k \in Nat /\ k \in 1..k /\ 1..k # {}
    <3>1. k \in Nat /\ k >= 1 /\ k <= Len(ps)
      BY <1>1
    <3>2. k \in 1..k
      BY <3>1
    <3>3. \A i \in 1..k : i \in 1..Len(ps)
      BY <1>1, <3>1
    <3>. QED
      BY <3>1, <3>2, <3>3
  <2>2. Ns!Max(1..k) = k
    BY <2>1, MaxIsLast
  <2>3. (1..k) \ {k} = 1..k - 1
    OBVIOUS
  <2>4. Indices(ps)[k] = k
    BY DEF Indices
  <2>5. f[1..k] = Add(ps, f[(1..k) \ {Ns!Max(1..k)}], Indices(ps)[Ns!Max(1..k)])
    BY ONLY <1>3, <2>1, Zenon
  <2>. QED
    BY ONLY <2>2, <2>3, <2>4, <2>5, Zenon
<1>. QED
  BY <1>4, <1>5 DEF FirstParts, f

\* The fields of a form, one after the other.
Field(ps, i) ==
  <<<<"header", i, 0>>>> \o Ns!Text(i, ps[i].len) \o <<<<"crlf", i, 0>>>>

Fields(ps) == [i \in 1..Len(ps) |-> Field(ps, i)]

FlatTo(fields, n, f) ==
  f = [i \in 1..n |-> IF i = 1 THEN fields[i] ELSE f[i - 1] \o fields[i]]

Flat(ps) == CHOOSE f : FlatTo(Fields(ps), Len(Fields(ps)), f)

\* The first k fields.
FirstFields(ps, k) == IF k = 0 THEN << >> ELSE Flat(ps)[k]

FormParts == [stream: BOOLEAN, len: Nat]

LEMMA FlatExists ==
  ASSUME NEW fields, NEW n \in Nat
  PROVE  \E f : FlatTo(fields, n, f)
<1>. DEFINE Bad == {k \in Nat : ~\E f : FlatTo(fields, k, f)}
<1>1. SUFFICES ASSUME Bad # {} PROVE FALSE
  OBVIOUS
<1>2. PICK m \in Bad : \A k \in Bad : m <= k
  <2>1. Bad \subseteq Nat
    OBVIOUS
  <2>. QED
    BY <1>1, <2>1, LeastExists
<1>3. m \in Nat /\ ~\E f : FlatTo(fields, m, f)
  BY <1>2
<1>4. CASE m = 0
  <2>. DEFINE f == [i \in 1..m |-> << >>]
  <2>1. \A i \in 1..m : FALSE
    BY <1>4
  <2>2. f = [i \in 1..m |-> IF i = 1 THEN fields[i] ELSE f[i - 1] \o fields[i]]
    BY <2>1, Zenon
  <2>. QED
    BY <1>3, <2>2 DEF FlatTo
<1>5. CASE m # 0
  <2>1. m - 1 \in Nat /\ m - 1 \notin Bad
    BY <1>2, <1>3, <1>5
  <2>2. PICK g : FlatTo(fields, m - 1, g)
    BY <2>1
  <2>. DEFINE h == [i \in 1..m |->
                      IF i = m THEN IF m = 1 THEN fields[m] ELSE g[m - 1] \o fields[m]
                      ELSE g[i]]
              Value(i) == IF i = 1 THEN fields[i] ELSE h[i - 1] \o fields[i]
  <2>3. ASSUME NEW i \in 1..m - 1 PROVE h[i] = Value(i)
    <3>1. i \in 1..m /\ i # m /\ (i # 1 => i - 1 \in 1..m /\ i - 1 # m /\ i - 1 \in 1..m - 1)
      BY <1>3, <1>5
    <3>2. g[i] = IF i = 1 THEN fields[i] ELSE g[i - 1] \o fields[i]
      BY <2>2, Zenon DEF FlatTo
    <3>3. h[i] = g[i] /\ (i # 1 => h[i - 1] = g[i - 1])
      BY <3>1
    <3>. QED
      BY <3>2, <3>3, Zenon
  <2>4. h[m] = Value(m)
    <3>1. m \in 1..m /\ (m # 1 => m - 1 \in 1..m /\ m - 1 # m)
      BY <1>3, <1>5
    <3>2. /\ h[m] = IF m = 1 THEN fields[m] ELSE g[m - 1] \o fields[m]
          /\ m # 1 => h[m - 1] = g[m - 1]
      BY <3>1
    <3>. QED
      BY <3>2, Zenon
  <2>5. \A i \in 1..m : h[i] = Value(i)
    <3>1. \A i \in 1..m : i \in 1..m - 1 \/ i = m
      BY <1>3, <1>5
    <3>. QED
      BY ONLY <2>3, <2>4, <3>1, Zenon
  <2>6. h = [i \in 1..m |-> h[i]]
    OBVIOUS
  <2>7. h = [i \in 1..m |-> Value(i)]
    <3>. HIDE DEF h, Value
    <3>. QED
      BY <2>5, <2>6
  <2>8. FlatTo(fields, m, h)
    BY <2>7 DEF FlatTo
  <2>. QED
    BY <1>3, <2>8
<1>. QED
  BY <1>4, <1>5

LEMMA FormIsFlat ==
  ASSUME NEW b, b.multipart, b.parts \in Seq(FormParts)
  PROVE  Ns!Whole(b)
           = Append(FirstFields(b.parts, Len(b.parts)), <<"boundary", 0, 0>>)
<1>. DEFINE ps == b.parts
<1>1. Ns!Whole(b) = Append(Ns!FlattenSeq(Fields(ps)), <<"boundary", 0, 0>>)
  BY Zenon DEF Ns!Whole, Fields, Field
<1>2. Len(Fields(ps)) = Len(ps) /\ Len(ps) \in Nat
  BY DEF Fields
<1>3. Ns!FlattenSeq(Fields(ps))
        = IF Len(Fields(ps)) = 0 THEN Fields(ps) ELSE Flat(ps)[Len(Fields(ps))]
  BY Zenon DEF Ns!FlattenSeq, Flat, FlatTo
<1>4. Len(ps) = 0 => Fields(ps) = << >>
  <2>. HAVE Len(ps) = 0
  <2>1. Fields(ps) \in Seq(NsBytes) /\ Len(Fields(ps)) = 0
    BY <1>2 DEF Fields
  <2>. QED
    BY <2>1
<1>. QED
  BY <1>1, <1>2, <1>3, <1>4, Zenon DEF FirstFields

LEMMA TextIsBytes ==
  ASSUME NEW i \in Nat, NEW n \in Nat
  PROVE  Ns!Text(i, n) \in Seq(NsBytes)
  BY DEF Ns!Text, NsBytes

LEMMA TokensAreBytes ==
  ASSUME NEW i \in Nat
  PROVE  /\ <<"header", i, 0>> \in NsBytes /\ <<"crlf", i, 0>> \in NsBytes
         /\ <<"boundary", i, 0>> \in NsBytes
  BY DEF NsBytes

LEMMA TokensAreSeqs ==
  ASSUME NEW i \in Nat
  PROVE  /\ <<<<"header", i, 0>>>> \in Seq(NsBytes) /\ <<<<"crlf", i, 0>>>> \in Seq(NsBytes)
         /\ <<<<"boundary", i, 0>>>> \in Seq(NsBytes)
<1>1. \A x \in NsBytes : <<x>> \in Seq(NsBytes)
  OBVIOUS
<1>. QED
  BY <1>1, TokensAreBytes, Zenon

LEMMA FieldSteps ==
  ASSUME NEW ps \in Seq(FormParts)
  PROVE  /\ FirstFields(ps, 0) = << >>
         /\ \A k \in 1..Len(ps) : FirstFields(ps, k) = FirstFields(ps, k - 1) \o Field(ps, k)
<1>1. FirstFields(ps, 0) = << >>
  BY DEF FirstFields
<1>2. Len(Fields(ps)) = Len(ps) /\ Len(ps) \in Nat
  BY DEF Fields
<1>3. FlatTo(Fields(ps), Len(ps), Flat(ps))
  BY <1>2, FlatExists, Zenon DEF Flat
<1>4. ASSUME NEW k \in 1..Len(ps)
      PROVE  FirstFields(ps, k) = FirstFields(ps, k - 1) \o Field(ps, k)
  <2>1. Fields(ps)[k] = Field(ps, k) /\ k # 0
    BY <1>2 DEF Fields
  <2>2. Flat(ps)[k] = IF k = 1 THEN Fields(ps)[k] ELSE Flat(ps)[k - 1] \o Fields(ps)[k]
    BY <1>3, Zenon DEF FlatTo
  <2>3. CASE k = 1
    <3>1. Field(ps, k) \in Seq(NsBytes)
      <4>1. ps[k] \in FormParts /\ k \in Nat
        BY <1>2
      <4>2. ps[k].len \in Nat
        BY <4>1 DEF FormParts
      <4>3. Ns!Text(k, ps[k].len) \in Seq(NsBytes)
        BY <4>1, <4>2, TextIsBytes
      <4>4. <<<<"header", k, 0>>>> \in Seq(NsBytes) /\ <<<<"crlf", k, 0>>>> \in Seq(NsBytes)
        BY <4>1, TokensAreSeqs
      <4>. HIDE DEF NsBytes
      <4>. QED
        BY <4>3, <4>4 DEF Field
    <3>2. << >> \o Field(ps, k) = Field(ps, k)
      BY <3>1, ConcatEmptySeq
    <3>3. k - 1 = 0
      BY <2>3
    <3>. QED
      BY <2>1, <2>2, <2>3, <3>2, <3>3, Zenon DEF FirstFields
  <2>4. CASE k # 1
    <3>1. k - 1 # 0
      BY <1>2, <2>4
    <3>. QED
      BY <2>1, <2>2, <2>4, <3>1, Zenon DEF FirstFields
  <2>. QED
    BY <2>3, <2>4
<1>. QED
  BY <1>1, <1>4

LEMMA NsAssociates ==
  \A s, t, u \in Seq(NsBytes) : (s \o t) \o u = s \o (t \o u)
<1>. HIDE DEF NsBytes
<1>. QED
  BY ConcatAssociative

\* A field of a form is made into parts and data.
LEMMA AddField ==
  ASSUME NEW ps \in Seq(FormParts), NEW k \in 1..Len(ps), NEW acc, NEW v,
         acc \in [ret: Seq(NsParts), body: Seq(NsBytes)],
         Made(acc.ret, acc.body, v)
  PROVE  /\ Add(ps, acc, k) \in [ret: Seq(NsParts), body: Seq(NsBytes)]
         /\ Made(Add(ps, acc, k).ret, Add(ps, acc, k).body, v \o Field(ps, k))
<1>. DEFINE h == <<"header", k, 0>>
            c == <<"crlf", k, 0>>
            t == Ns!Text(k, ps[k].len)
            streams == ps[k].stream
            d == Append(acc.body, h)
            next == Add(ps, acc, k)
<1>1. k \in Nat /\ ps[k] \in FormParts
  OBVIOUS
<1>2. ps[k].len \in Nat /\ streams \in BOOLEAN
  BY <1>1 DEF FormParts
<1>3. /\ t \in Seq(NsBytes) /\ h \in NsBytes /\ c \in NsBytes
      /\ <<h>> \in Seq(NsBytes) /\ <<c>> \in Seq(NsBytes)
  BY <1>1, <1>2, TextIsBytes, TokensAreBytes, TokensAreSeqs, Zenon
<1>4. v \in Seq(NsBytes) /\ acc.ret \in Seq(NsParts) /\ acc.body \in Seq(NsBytes)
  BY DEF Made
<1>5. Field(ps, k) = <<h>> \o t \o <<c>>
  BY DEF Field
<1>6. next = IF streams
               THEN [ret |-> acc.ret \o <<Ns!Data(d), Ns!Stream(t)>>, body |-> <<c>>]
               ELSE [acc EXCEPT !.body = Append(d \o t, c)]
  BY DEF Add
<1>. HIDE DEF h, c, t, streams, next, NsBytes
<1>7. v \o Field(ps, k) = ((v \o <<h>>) \o t) \o <<c>>
  <2>1. <<h>> \o t \in Seq(NsBytes)
    BY <1>3, ConcatProperties
  <2>2. v \o ((<<h>> \o t) \o <<c>>) = (v \o (<<h>> \o t)) \o <<c>>
    <3>1. v \in Seq(NsBytes) /\ (<<h>> \o t) \in Seq(NsBytes) /\ <<c>> \in Seq(NsBytes)
      BY <1>3, <1>4, <2>1
    <3>. QED
      BY ONLY <3>1, NsAssociates
  <2>3. v \o (<<h>> \o t) = (v \o <<h>>) \o t
    <3>1. v \in Seq(NsBytes) /\ <<h>> \in Seq(NsBytes) /\ t \in Seq(NsBytes)
      BY <1>3, <1>4
    <3>. QED
      BY ONLY <3>1, NsAssociates
  <2>. QED
    BY ONLY <1>5, <2>2, <2>3, Zenon
<1>8. d = acc.body \o <<h>> /\ d \in Seq(NsBytes)
  BY <1>3, <1>4, AppendIsConcat, AppendProperties
<1>. HIDE DEF d
<1>9. Made(acc.ret, d, v \o <<h>>)
  BY <1>3, <1>8, MadeMore
<1>10. CASE streams
  <2>. DEFINE x == Ns!Data(d)
              y == Ns!Stream(t)
  <2>1. /\ x \in NsParts /\ x.bytes = d
        /\ y \in NsParts /\ y.bytes = t
    BY <1>3, <1>8 DEF Ns!Data, Ns!Stream, NsParts
  <2>2. next = [ret |-> acc.ret \o <<x, y>>, body |-> <<c>>]
    BY <1>6, <1>10
  <2>. HIDE DEF x, y, NsParts
  <2>3. Made(Append(acc.ret, x), << >>, v \o <<h>>)
    BY <1>9, <2>1, MadeCut
  <2>4. << >> \o t = t /\ << >> \o <<c>> = <<c>>
    BY <1>3, ConcatEmptySeq
  <2>5. Made(Append(acc.ret, x), t, (v \o <<h>>) \o t)
    <3>1. Made(Append(acc.ret, x), << >> \o t, (v \o <<h>>) \o t)
      BY <1>3, <2>3, MadeMore
    <3>. QED
      BY <2>4, <3>1
  <2>6. Made(Append(Append(acc.ret, x), y), << >>, (v \o <<h>>) \o t)
    BY <2>1, <2>5, MadeCut
  <2>7. Made(Append(Append(acc.ret, x), y), <<c>>, ((v \o <<h>>) \o t) \o <<c>>)
    <3>1. Made(Append(Append(acc.ret, x), y), << >> \o <<c>>, ((v \o <<h>>) \o t) \o <<c>>)
      BY <1>3, <2>6, MadeMore
    <3>. QED
      BY <2>4, <3>1
  <2>8. Append(Append(acc.ret, x), y) = acc.ret \o <<x, y>>
    <3>1. acc.ret \in Seq(NsParts) /\ x \in NsParts /\ y \in NsParts
      BY <1>4, <2>1
    <3>. QED
      BY <3>1
  <2>9. Made(acc.ret \o <<x, y>>, <<c>>, v \o Field(ps, k))
    BY ONLY <1>7, <2>7, <2>8, Zenon
  <2>10. next.ret = acc.ret \o <<x, y>> /\ next.body = <<c>>
    BY <2>2
  <2>11. acc.ret \o <<x, y>> \in Seq(NsParts)
    BY <2>9 DEF Made
  <2>12. next \in [ret: Seq(NsParts), body: Seq(NsBytes)]
    BY <1>3, <2>2, <2>11
  <2>. QED
    BY <2>9, <2>10, <2>12 DEF next
<1>11. CASE ~streams
  <2>. DEFINE e == Append(d \o t, c)
  <2>1. d \o t \in Seq(NsBytes)
    BY <1>3, <1>8, ConcatProperties
  <2>2. e = (d \o t) \o <<c>> /\ e \in Seq(NsBytes)
    BY <1>3, <2>1, AppendIsConcat, AppendProperties
  <2>3. next = [ret |-> acc.ret, body |-> e]
    BY <1>6, <1>11
  <2>. HIDE DEF e
  <2>4. Made(acc.ret, d \o t, (v \o <<h>>) \o t)
    BY <1>3, <1>9, MadeMore
  <2>5. Made(acc.ret, (d \o t) \o <<c>>, ((v \o <<h>>) \o t) \o <<c>>)
    BY <1>3, <2>4, MadeMore
  <2>6. Made(acc.ret, e, v \o Field(ps, k))
    BY ONLY <1>7, <2>2, <2>5, Zenon
  <2>7. next.ret = acc.ret /\ next.body = e /\ next \in [ret: Seq(NsParts), body: Seq(NsBytes)]
    BY <1>4, <2>2, <2>3
  <2>. QED
    BY <2>6, <2>7 DEF next
<1>. QED
  BY <1>10, <1>11

LEMMA PartsAreMade ==
  ASSUME NEW ps \in Seq(FormParts), NEW n \in 0..Len(ps)
  PROVE  Made(FirstParts(ps, n).ret, FirstParts(ps, n).body, FirstFields(ps, n))
<1>. DEFINE Good(k) ==
              /\ FirstParts(ps, k) \in [ret: Seq(NsParts), body: Seq(NsBytes)]
              /\ Made(FirstParts(ps, k).ret, FirstParts(ps, k).body, FirstFields(ps, k))
            Bad == {k \in 0..Len(ps) : ~Good(k)}
<1>1. SUFFICES ASSUME Bad # {} PROVE FALSE
  OBVIOUS
<1>2. PICK m \in Bad : \A k \in Bad : m <= k
  <2>1. Bad \subseteq Nat
    OBVIOUS
  <2>. QED
    BY <1>1, <2>1, LeastExists
<1>3. m \in 0..Len(ps) /\ ~Good(m)
  BY <1>2
<1>. HIDE DEF Good
<1>4. CASE m = 0
  <2>1. FirstParts(ps, 0) = Nothing /\ FirstFields(ps, 0) = << >>
    BY FoldSteps, FieldSteps
  <2>2. << >> \in Seq(NsParts) /\ << >> \in Seq(NsBytes)
    BY EmptySeq
  <2>3. Nothing \in [ret: Seq(NsParts), body: Seq(NsBytes)]
    BY <2>2 DEF Nothing
  <2>4. Nothing.ret = << >> /\ Nothing.body = << >>
    BY DEF Nothing
  <2>. QED
    BY <1>3, <1>4, <2>1, <2>3, <2>4, MadeNone DEF Good
<1>5. CASE m # 0
  <2>1. m \in 1..Len(ps) /\ m - 1 \in 0..Len(ps) /\ m - 1 \notin Bad
    BY <1>2, <1>3, <1>5
  <2>2. Good(m - 1)
    BY <2>1
  <2>3. /\ FirstParts(ps, m) = Add(ps, FirstParts(ps, m - 1), m)
        /\ FirstFields(ps, m) = FirstFields(ps, m - 1) \o Field(ps, m)
    BY <2>1, FoldSteps, FieldSteps
  <2>. DEFINE acc == FirstParts(ps, m - 1)
              v == FirstFields(ps, m - 1)
  <2>4. acc \in [ret: Seq(NsParts), body: Seq(NsBytes)] /\ Made(acc.ret, acc.body, v)
    BY <2>2 DEF Good
  <2>. HIDE DEF acc, v
  <2>5. /\ Add(ps, acc, m) \in [ret: Seq(NsParts), body: Seq(NsBytes)]
        /\ Made(Add(ps, acc, m).ret, Add(ps, acc, m).body, v \o Field(ps, m))
    BY <2>1, <2>4, AddField
  <2>6. Good(m)
    BY <2>3, <2>5 DEF Good, acc, v
  <2>. QED
    BY <1>3, <2>6
<1>. QED
  BY <1>4, <1>5

LEMMA BodyIsLaid ==
  ASSUME NEW b \in NsBodies
  PROVE  /\ Ns!Whole(b) \in Seq(NsBytes)
         /\ Ns!BuildDataTask(b) \in Seq(NsParts)
         /\ Laid(Ns!BuildDataTask(b), Ns!Whole(b), 0, Len(Ns!Whole(b)))
<1>1. b \in [multipart: BOOLEAN, parts: Seq(FormParts)] /\ (b.multipart \/ b.parts # << >>)
  BY UploadsAssumption DEF FormParts
<1>. DEFINE ps == b.parts
            w == Ns!Whole(b)
<1>2. ps \in Seq(FormParts) /\ Len(ps) \in Nat /\ Len(ps) \in 0..Len(ps)
  BY <1>1
<1>3. CASE ~b.multipart
  <2>. DEFINE t == Ns!Text(1, ps[1].len)
              x == Ns!Stream(t)
  <2>1. Ns!BuildDataTask(b) = <<x>> /\ w = t
    BY <1>3 DEF Ns!BuildDataTask, Ns!Whole
  <2>2. ps[1] \in FormParts
    BY <1>1, <1>2, <1>3
  <2>3. ps[1].len \in Nat
    BY <2>2 DEF FormParts
  <2>4. t \in Seq(NsBytes)
    BY <2>3, TextIsBytes
  <2>. HIDE DEF t
  <2>5. x \in NsParts /\ x.bytes = t
    BY <2>4 DEF NsParts, Ns!Stream
  <2>. HIDE DEF x
  <2>6. Made(<< >>, t, t)
    <3>1. Made(<< >>, << >> \o t, << >> \o t)
      BY <2>4, MadeNone, MadeMore
    <3>2. << >> \o t = t
      BY <2>4, ConcatEmptySeq
    <3>. QED
      BY <3>1, <3>2
  <2>7. Made(Append(<< >>, x), << >>, t) /\ Laid(Append(<< >>, x), t, 0, Len(t))
    BY <2>5, <2>6, MadeCut
  <2>8. Append(<< >>, x) = <<x>>
    OBVIOUS
  <2>9. <<x>> \in Seq(NsParts)
    BY <2>5
  <2>. QED
    BY <2>1, <2>4, <2>7, <2>8, <2>9
<1>4. CASE b.multipart
  <2>. DEFINE all == FirstParts(ps, Len(ps))
              fields == FirstFields(ps, Len(ps))
              c == <<"boundary", 0, 0>>
              data == Append(all.body, c)
              x == Ns!Data(data)
  <2>1. Made(all.ret, all.body, fields)
    BY <1>2, PartsAreMade
  <2>2. w = Append(fields, c)
    BY <1>2, <1>4, FormIsFlat
  <2>3. Ns!BuildDataTask(b) = Append(all.ret, x)
    <3>1. DOMAIN Indices(ps) = 1..Len(ps)
      BY DEF Indices
    <3>2. Ns!BuildDataTask(b) = Ns!GenerateMultipart(ps)
      BY <1>4 DEF Ns!BuildDataTask
    <3>. QED
      BY <3>1, <3>2, FormIsFolded, Zenon DEF FirstParts
  <2>4. c \in NsBytes /\ <<c>> \in Seq(NsBytes)
    <3>1. 0 \in Nat
      OBVIOUS
    <3>. QED
      BY <3>1, TokensAreBytes, TokensAreSeqs, Zenon
  <2>. HIDE DEF all, fields, c
  <2>5. all.body \in Seq(NsBytes) /\ fields \in Seq(NsBytes)
    <3>1. PICK q \in 0..Len(fields) : all.body = Cut(fields, q, Len(fields))
      BY <2>1 DEF Made
    <3>2. fields \in Seq(NsBytes) /\ Len(fields) \in 0..Len(fields) /\ q \in 0..Len(fields)
      BY <2>1, <3>1 DEF Made
    <3>3. Cut(fields, q, Len(fields)) \in Seq(NsBytes)
      BY <3>2, CutLen
    <3>. QED
      BY <3>1, <3>2, <3>3
  <2>6. data = all.body \o <<c>> /\ data \in Seq(NsBytes) /\ w = fields \o <<c>>
    BY <2>2, <2>4, <2>5, AppendIsConcat, AppendProperties
  <2>. HIDE DEF data
  <2>7. x \in NsParts /\ x.bytes = data
    BY <2>6 DEF NsParts, Ns!Data
  <2>. HIDE DEF x, w
  <2>8. Made(all.ret, data, w)
    <3>1. Made(all.ret, all.body \o <<c>>, fields \o <<c>>)
      BY <2>1, <2>4, MadeMore
    <3>. QED
      BY <2>6, <3>1
  <2>9. Made(Append(all.ret, x), << >>, w) /\ Laid(Append(all.ret, x), w, 0, Len(w))
    BY <2>7, <2>8, MadeCut
  <2>10. Append(all.ret, x) \in Seq(NsParts) /\ w \in Seq(NsBytes)
    BY <2>9 DEF Made
  <2>. QED
    BY <2>3, <2>9, <2>10 DEF w
<1>. QED
  BY <1>1, <1>3, <1>4

LEMMA WordIs ==
  ASSUME NsTypeOK
  PROVE  Word \in Seq(NsBytes)
  BY NsFields, BodyIsLaid DEF Word

LEMMA NsInit ==
  ASSUME Ns!Init
  PROVE  NsInv /\ nsent = << >> /\ Ns!TransferState = "open"
<1>1. /\ conf \in [client: {"async", "blocking"}, body: NsBodies]
      /\ parts = Ns!BuildDataTask(conf.body) /\ range = Ns!GetRange(parts)
      /\ pc = "check" /\ pipe = [ok |-> TRUE, bytes |-> << >>, capacity |-> Capacity]
      /\ eof = FALSE /\ nstack = "new" /\ nsent = << >>
  BY DEF Ns!Init
<1>2. /\ Word \in Seq(NsBytes) /\ parts \in Seq(NsParts)
      /\ Laid(parts, Word, 0, Len(Word))
  <2>1. conf.body \in NsBodies
    BY <1>1
  <2>. QED
    BY <1>1, <2>1, BodyIsLaid DEF Word
<1>3. PICK d \in 0..Len(Word) :
        range = Cut(Word, 0, d) /\ Laid(Rest(parts), Word, d, Len(Word))
  <2>1. 0 \in 0..Len(Word)
    BY <1>2
  <2>. QED
    BY <1>1, <1>2, <2>1, ShiftLaid
<1>4. << >> \in Seq(NsBytes) /\ Len(<< >>) = 0
  BY EmptySeq
<1>5. range \in Seq(NsBytes)
  <2>1. 0 \in 0..d
    BY <1>3
  <2>. QED
    BY <1>2, <1>3, <2>1, CutLen
<1>6. NsTypeOK
  <2>1. pipe \in [ok: BOOLEAN, bytes: Seq(NsBytes), capacity: Nat]
    BY <1>1, <1>4, UploadsAssumption
  <2>2. Len(pipe.bytes) <= pipe.capacity
    BY <1>1, <1>4, UploadsAssumption
  <2>3. nsent \in Seq(NsBytes) /\ eof \in BOOLEAN
    BY <1>1, <1>4
  <2>. QED
    BY <1>1, <1>2, <1>5, <2>1, <2>2, <2>3 DEF NsTypeOK
<1>7. Cut(Word, 0, 0) = << >> /\ Len(nsent) = 0 /\ 0 \in 0..Len(Word)
  BY <1>1, <1>2, CutNone
<1>8. NsSentIsFirst
  BY <1>1, <1>2, <1>7 DEF NsSentIsFirst
<1>9. FormIsKept
  BY <1>1, <1>3, <1>7 DEF FormIsKept
<1>10. NothingIsTheEnd
  BY <1>1 DEF NothingIsTheEnd
<1>11. Ns!TransferState = "open"
  BY <1>1 DEF Ns!TransferState
<1>. QED
  BY <1>1, <1>6, <1>8, <1>9, <1>10, <1>11 DEF NsInv

\* Foundation reads the bytes of a body or form in their order and is told of the end
\* after the last of them, however the writer's reads and writes, the run loop's events
\* and reads, failures and a close meet at the buffer.
THEOREM NsUploadsAreByteStreams == UploadsSpec => NsBodyIsUploaded
<1>1. UploadsInit => NsInv /\ nsent = << >> /\ Ns!TransferState = "open"
  BY NsInit DEF UploadsInit
<1>2. NsInv /\ [UploadsNext]_UploadsVars => NsInv' /\ NsStep
  BY NsNext, WordIs, UploadsStep DEF NsInv
<1>3. NsInv /\ [UploadsNext]_UploadsVars => NsInv'
  BY <1>2
<1>4. NsInv /\ [UploadsNext]_UploadsVars
        => [\A b \in NsBodies :
              conf.body = b => [Ns!Transfer(b)!Next]_<<nsent, Ns!TransferState>>]_(Ns!vars)
  BY <1>2 DEF NsStep
<1>. QED
  BY <1>1, <1>3, <1>4, PTL DEF UploadsSpec, NsBodyIsUploaded, Ns!BodyIsUploaded

=============================================================================
