-------------------------- MODULE CurlBlockingProofs --------------------------
(***************************************************************************)
(* Proofs about the blocking curl client: IndInv of CurlBlocking is        *)
(* inductive, and the properties of the pooled handles follow from it.     *)
(***************************************************************************)
EXTENDS CurlBlocking, SequenceTheorems, TLAPS

Polling == {"headers", "open", "reading", "all"}

-----------------------------------------------------------------------------
(* The response buffer.                                                    *)

\* What write_data makes of the buffer: n more pieces, all of request r.
LEMMA ArrivedPieces ==
  ASSUME NEW s \in Seq(Requests), NEW r \in Requests, NEW n \in Nat,
         \A i \in DOMAIN s : s[i] = r
  PROVE  LET a == s \o [i \in 1..n |-> r] IN
         /\ a \in Seq(Requests) /\ Len(a) = Len(s) + n
         /\ \A i \in DOMAIN a : a[i] = r
<1> DEFINE f == [i \in 1..n |-> r]
           a == s \o f
<1>1. f \in Seq(Requests) /\ Len(f) = n
  OBVIOUS
<1> HIDE DEF f
<1>2. a \in Seq(Requests) /\ Len(a) = Len(s) + n
  BY <1>1
<1>3. ASSUME NEW i \in DOMAIN a PROVE a[i] = r
  <2>1. i \in 1..(Len(s) + n) /\ Len(s) \in Nat
    BY <1>2
  <2>2. CASE i <= Len(s)
    BY <1>1, <2>1, <2>2
  <2>3. CASE i > Len(s)
    <3>1. a[i] = f[i - Len(s)] /\ i - Len(s) \in 1..n
      BY <1>1, <2>1, <2>3
    <3>2. QED
      BY <3>1 DEF f
  <2>4. QED
    BY <2>1, <2>2, <2>3
<1>4. QED
  BY <1>2, <1>3 DEF f

\* Taking k pieces off the front of a buffer of request r.
LEMMA TakenPieces ==
  ASSUME NEW s \in Seq(Requests), NEW r, NEW k \in 0..Len(s),
         \A i \in DOMAIN s : s[i] = r
  PROVE  LET a == SubSeq(s, k + 1, Len(s)) IN
         /\ a \in Seq(Requests) /\ Len(a) = Len(s) - k
         /\ \A i \in DOMAIN a : a[i] = r
         /\ ToSet(SubSeq(s, 1, k)) \subseteq {r}
<1>1. PICK m \in Nat : m = Len(s)
  BY LenProperties
<1>2. k \in Nat /\ k <= m /\ DOMAIN s = 1..m /\ \A i \in 1..m : s[i] \in Requests
  BY <1>1, LenProperties, ElementOfSeq
<1> DEFINE a == SubSeq(s, k + 1, m)
           b == SubSeq(s, 1, k)
<1>3. /\ a \in Seq(Requests) /\ Len(a) = m - k
      /\ \A i \in 1..(m - k) : a[i] = s[k + i]
  <2>1. /\ a \in Seq(Requests)
        /\ Len(a) = IF k + 1 <= m THEN m - (k + 1) + 1 ELSE 0
        /\ \A i \in 1..(m - (k + 1) + 1) : a[i] = s[k + 1 + i - 1]
    BY <1>2, SubSeqProperties
  <2>2. (IF k + 1 <= m THEN m - (k + 1) + 1 ELSE 0) = m - k
    BY <1>2
  <2>3. ASSUME NEW i \in 1..(m - k) PROVE a[i] = s[k + i]
    <3>1. i \in 1..(m - (k + 1) + 1) /\ k + 1 + i - 1 = k + i
      BY <1>2
    <3> HIDE DEF a
    <3>2. QED
      BY <2>1, <3>1
  <2> HIDE DEF a
  <2>4. QED
    BY <2>1, <2>2, <2>3
<1>4. \A i \in DOMAIN a : a[i] = r
  <2>1. DOMAIN a = 1..(m - k)
    BY <1>3, LenProperties
  <2>2. \A i \in 1..(m - k) : k + i \in DOMAIN s
    BY <1>2
  <2> HIDE DEF a
  <2>3. QED
    BY <1>3, <2>1, <2>2
<1>5. ToSet(b) \subseteq {r}
  <2>1. /\ b \in Seq(Requests)
        /\ Len(b) = IF 1 <= k THEN k - 1 + 1 ELSE 0
        /\ \A i \in 1..(k - 1 + 1) : b[i] = s[1 + i - 1]
    BY <1>2, SubSeqProperties
  <2>2. DOMAIN b = 1..Len(b) /\ Len(b) = k
    BY <1>2, <2>1, LenProperties
  <2>3. ASSUME NEW i \in 1..k PROVE b[i] = r
    <3>1. i \in 1..(k - 1 + 1) /\ 1 + i - 1 = i /\ i \in DOMAIN s
      BY <1>2
    <3> HIDE DEF b
    <3>2. QED
      BY <2>1, <3>1
  <2> HIDE DEF b
  <2>4. QED
    BY <2>2, <2>3 DEF ToSet
<1>6. QED
  BY <1>1, <1>3, <1>4, <1>5

-----------------------------------------------------------------------------

LEMMA IndInvInit == Init => IndInv
<1> SUFFICES ASSUME Init PROVE IndInv
  OBVIOUS
<1> USE CurlBlockingAssumption DEF Init
<1>1. TypeOK
  <2>1. MaxRequests \in Nat /\ BodyLen \in Nat
    OBVIOUS
  <2>2. body \in [Handles -> Seq(Requests)]
    BY EmptySeq
  <2>3. /\ pc \in [Threads -> {"idle"}] /\ req \in [Threads -> {Nothing}]
        /\ told \in [Threads -> BOOLEAN]
        /\ mine \in [Threads -> {Nothing}] /\ got \in [Threads -> {0}]
        /\ seen \in [Threads -> {{}}] /\ xfer \in [Handles -> {"idle"}]
        /\ sent \in [Handles -> {0}] /\ header \in [Handles -> {Nothing}]
    OBVIOUS
  <2>4. 0 \in 0..BodyLen /\ 0 \in 0..MaxRequests
    BY <2>1
  <2>5. QED
    BY <2>2, <2>3, <2>4 DEF TypeOK
<1>2. LockConsistent /\ OwnersConsistent /\ HandleHasOneOwner
  BY DEF LockConsistent, OwnersConsistent, HandleHasOneOwner, Nothing
<1>3. PoolConsistent /\ TransfersConsistent
  BY DEF PoolConsistent, Clean, TransfersConsistent, Nothing
<1>4. ResponseIsOwn /\ EndIsComplete
  BY DEF ResponseIsOwn, EndIsComplete
<1>5. QED
  BY <1>1, <1>2, <1>3, <1>4 DEF IndInv

\* A step in which a thread goes on with its transfer, or its buffer, alone: the
\* new values, ...
Moved(t, x, z, e, b, g, s, d, p) ==
  /\ told'   = [told EXCEPT ![t] = d]
  /\ xfer'   = [xfer EXCEPT ![mine[t]] = x]
  /\ sent'   = [sent EXCEPT ![mine[t]] = z]
  /\ header' = [header EXCEPT ![mine[t]] = e]
  /\ body'   = [body EXCEPT ![mine[t]] = b]
  /\ got'    = [got EXCEPT ![t] = g]
  /\ seen'   = [seen EXCEPT ![t] = s]
  /\ pc'     = [pc EXCEPT ![t] = p]
  /\ easy' \in {easy, easy \ {mine[t]}}
  /\ UNCHANGED <<req, mine, asked, made, slotVars>>

\* ... and what they have to satisfy.
Sound(t, x, z, e, b, g, s, d, p) ==
  /\ x \in {"idle", "running", "ok", "failed"} /\ z \in 0..BodyLen
  /\ e \in {Nothing, req[t]} /\ b \in Seq(Requests) /\ g \in Nat
  /\ s \in SUBSET {req[t]} /\ d \in BOOLEAN /\ p \in Polling \cup {"end", "failed", "drop"}
  /\ g + Len(b) = z /\ \A i \in DOMAIN b : b[i] = req[t]
  /\ x = "ok" => z = BodyLen
  /\ p = "headers" => x = "running"
  /\ p \in Polling => x \in {"running", "ok"} \/ (x = "failed" /\ d)
  /\ p = "end" => g = BodyLen \/ d

LEMMA TransferStep ==
  ASSUME IndInv, NEW t \in Threads, mine[t] # Nothing, pc[t] # "restore",
         NEW x, NEW z, NEW e, NEW b, NEW g, NEW s, NEW d, NEW p,
         Moved(t, x, z, e, b, g, s, d, p), Sound(t, x, z, e, b, g, s, d, p)
  PROVE  IndInv'
<1> USE DEF Moved, Sound
<1> USE CurlBlockingAssumption DEF IndInv, Polling, Nothing
<1>1. mine[t] \in Handles /\ BodyLen \in Nat /\ Len(b) \in Nat /\ g <= BodyLen
  BY DEF TypeOK, Handles
<1>2. TypeOK'
  <2>1. pc' \in [Threads -> {"idle", "take", "populate", "headers", "reading", "all",
                             "restore", "panicked"} \cup Done]
    BY DEF TypeOK, Done
  <2>2. /\ got' \in [Threads -> 0..BodyLen] /\ told' \in [Threads -> BOOLEAN]
        /\ seen' \in [Threads -> SUBSET (Requests \cup {Nothing})]
    BY <1>1 DEF TypeOK
  <2>3. /\ xfer' \in [Handles -> {"idle", "running", "ok", "failed"}]
        /\ sent' \in [Handles -> 0..BodyLen]
        /\ header' \in [Handles -> Requests \cup {Nothing}]
    BY <1>1 DEF TypeOK
  <2>4. \A h \in Handles : body'[h] \in Seq(Requests)
    <3>1. ASSUME NEW h \in Handles PROVE body'[h] \in Seq(Requests)
      BY <1>1 DEF TypeOK
    <3>2. QED
      BY <3>1
  <2>5. QED
    BY <2>1, <2>2, <2>3, <2>4 DEF TypeOK, slotVars
<1>3. LockConsistent' /\ OwnersConsistent' /\ HandleHasOneOwner'
  <2>1. LockConsistent'
    BY DEF LockConsistent, OwnersConsistent, TypeOK, slotVars
  <2>2. OwnersConsistent'
    BY DEF OwnersConsistent, TypeOK, slotVars
  <2>3. QED
    BY <2>1, <2>2 DEF HandleHasOneOwner, slotVars
<1>4. PoolConsistent'
  <2>1. mine[t] <= made /\ mine[t] # slot
    BY DEF OwnersConsistent, HandleHasOneOwner
  <2>2. ASSUME NEW h \in Handles, h # mine[t], Clean(h) PROVE Clean(h)'
    BY <2>2 DEF Clean, TypeOK
  <2>3. QED
    BY <2>1, <2>2, <1>1 DEF PoolConsistent, slotVars, TypeOK, Handles
<1>5. TransfersConsistent'
  <2>1. ASSUME NEW u \in Threads, mine[u] # Nothing, u # t
        PROVE  TransferConsistent(u, mine[u])'
    <3>1. mine[u] \in Handles /\ mine[u] # mine[t] /\ TransferConsistent(u, mine[u])
      BY <2>1 DEF TypeOK, HandleHasOneOwner, TransfersConsistent
    <3>2. /\ xfer'[mine[u]] = xfer[mine[u]] /\ sent'[mine[u]] = sent[mine[u]]
          /\ header'[mine[u]] = header[mine[u]] /\ body'[mine[u]] = body[mine[u]]
          /\ pc'[u] = pc[u] /\ got'[u] = got[u] /\ mine'[u] = mine[u] /\ req'[u] = req[u]
          /\ told'[u] = told[u]
      BY <2>1, <3>1 DEF TypeOK
    <3>3. QED
      BY <3>1, <3>2 DEF TransferConsistent, Clean
  <2>2. TransferConsistent(t, mine[t])'
    <3>1. /\ xfer'[mine[t]] = x /\ sent'[mine[t]] = z
          /\ header'[mine[t]] = e /\ body'[mine[t]] = b
          /\ pc'[t] = p /\ got'[t] = g /\ mine'[t] = mine[t] /\ req'[t] = req[t]
          /\ told'[t] = d
      BY <1>1 DEF TypeOK
    <3>2. QED
      BY <3>1 DEF TransferConsistent
  <2>3. QED
    BY <2>1, <2>2 DEF TransfersConsistent
<1>6. ResponseIsOwn' /\ EndIsComplete'
  BY DEF ResponseIsOwn, EndIsComplete, TypeOK
<1>7. QED
  BY <1>2, <1>3, <1>4, <1>5, <1>6 DEF IndInv

-----------------------------------------------------------------------------
(* The steps of poll_until.                                                *)

\* What a round of poll_until makes of the transfer and the buffer of a thread
\* that was polling.
LEMMA PerformEffect ==
  ASSUME IndInv, NEW t \in Threads, pc[t] \in Polling, NEW n \in 0..BodyLen,
         NEW end \in {"running", "ok", "failed", "idle", "refused"},
         Perform(mine[t], req[t], n, end)
  PROVE  \E x \in {"running", "ok", "failed"}, z \in 0..BodyLen,
            e \in {Nothing, req[t]} :
           /\ xfer'   = [xfer EXCEPT ![mine[t]] = x]
           /\ sent'   = [sent EXCEPT ![mine[t]] = z]
           /\ header' = [header EXCEPT ![mine[t]] = e]
           /\ z = sent[mine[t]] + n
           /\ x = "ok" => z = BodyLen
           /\ x = "failed" => end = "failed" \/ told[t]
           /\ end \in {"running", "ok", "failed"} => x = end
           /\ end = "idle" => (x = "ok" \/ told[t]) /\ pc[t] # "headers"
           /\ end = "ok" \/ n > 0 => e = req[t]
           /\ end = "refused" => x = xfer[mine[t]]
<1> USE CurlBlockingAssumption DEF IndInv, Polling, Nothing
<1> DEFINE h == mine[t]
<1>1. /\ h \in Handles /\ h # Nothing /\ req[t] \in Requests
      /\ TransferConsistent(t, h) /\ BodyLen \in Nat
      /\ sent[h] \in 0..BodyLen /\ xfer[h] \in {"running", "ok", "failed"}
      /\ xfer[h] = "failed" => told[t]
      /\ header[h] \in {Nothing, req[t]}
  BY DEF TypeOK, OwnersConsistent, TransfersConsistent, TransferConsistent, Handles
<1>2. CASE xfer[h] = "running" /\ end \in {"running", "ok", "failed"}
  <2>1. /\ end = "ok" => sent[h] + n = BodyLen
        /\ sent[h] + n \in 0..BodyLen
        /\ sent' = [sent EXCEPT ![h] = sent[h] + n]
        /\ xfer' = [xfer EXCEPT ![h] = end]
    BY <1>1, <1>2 DEF Perform
  <2>2. PICK e \in {Nothing, req[t]} :
          header' = [header EXCEPT ![h] = e] /\ (n > 0 \/ end = "ok" => e = req[t])
    BY <1>1, <1>2 DEF Perform
  <2>3. QED
    BY <1>2, <2>1, <2>2
<1>3. CASE ~(xfer[h] = "running" /\ end \in {"running", "ok", "failed"})
  <2>1. /\ n = 0 /\ end \in {"idle", "refused"}
        /\ end = "idle" => xfer[h] # "running" /\ pc[t] # "headers"
        /\ xfer' = xfer /\ sent' = sent /\ header' = header
    BY <1>1, <1>3 DEF Perform, TransferConsistent
  <2>2. /\ xfer' = [xfer EXCEPT ![h] = xfer[h]]
        /\ sent' = [sent EXCEPT ![h] = sent[h]]
        /\ header' = [header EXCEPT ![h] = header[h]]
    BY <1>1, <2>1 DEF TypeOK
  <2>3. xfer[h] = "ok" => sent[h] = BodyLen
    BY <1>1 DEF TransferConsistent
  <2> DEFINE x == xfer[h]
             z == sent[h]
             e == header[h]
  <2>4. /\ x \in {"running", "ok", "failed"} /\ z \in 0..BodyLen
        /\ e \in {Nothing, req[t]} /\ z = z + n
    BY <1>1, <2>1
  <2>5. /\ xfer'   = [xfer EXCEPT ![mine[t]] = x]
        /\ sent'   = [sent EXCEPT ![mine[t]] = z]
        /\ header' = [header EXCEPT ![mine[t]] = e]
    BY <2>2
  <2>6. /\ z = sent[mine[t]] + n
        /\ x = "ok" => z = BodyLen
        /\ x = "failed" => told[t]
        /\ end = "idle" => (x = "ok" \/ told[t]) /\ pc[t] # "headers"
        /\ x = xfer[mine[t]]
    BY <1>1, <2>1, <2>3
  <2>7. ~(end \in {"running", "ok", "failed"}) /\ ~(end = "ok" \/ n > 0)
    BY <2>1
  <2> HIDE DEF x, z, e
  <2>8. QED
    BY <2>4, <2>5, <2>6, <2>7, Zenon
<1>4. QED
  BY <1>2, <1>3

\* A buffer of thread t from which nothing has been given since curl passed on
\* z pieces.
BufferOf(t, buffer, z) ==
  /\ buffer \in Seq(Requests) /\ got[t] + Len(buffer) = z
  /\ \A i \in DOMAIN buffer : buffer[i] = req[t]

\* A round of poll_until for thread t, which goes on at p.
Round(t, x, z, e, d, p) ==
  /\ told'   = [told EXCEPT ![t] = d] /\ d \in BOOLEAN
  /\ xfer'   = [xfer EXCEPT ![mine[t]] = x]
  /\ sent'   = [sent EXCEPT ![mine[t]] = z]
  /\ header' = [header EXCEPT ![mine[t]] = e]
  /\ pc'     = [pc EXCEPT ![t] = p]
  /\ x \in {"idle", "running", "ok", "failed"} /\ z \in 0..BodyLen
  /\ e \in {Nothing, req[t]} /\ p \in Polling \cup {"end", "failed", "drop"}
  /\ x = "ok" => z = BodyLen
  /\ p = "headers" => x = "running"
  /\ p \in Polling => x \in {"running", "ok"} \/ (x = "failed" /\ d)
  /\ UNCHANGED <<req, mine, asked, made, slotVars, easy>>

LEMMA PollingThread ==
  ASSUME IndInv, NEW t \in Threads, pc[t] \in Polling
  PROVE  /\ mine[t] # Nothing /\ pc[t] # "restore" /\ got[t] \in Nat
         /\ seen[t] \in SUBSET {req[t]}
         /\ mine[t] \in Handles /\ req[t] \in Requests
         /\ TransferConsistent(t, mine[t])
<1>1. mine[t] # Nothing /\ pc[t] # "restore" /\ req[t] \in Requests
  BY DEF IndInv, OwnersConsistent, Polling
<1>2. got[t] \in 0..BodyLen /\ BodyLen \in Nat /\ mine[t] \in Handles
  BY <1>1, CurlBlockingAssumption DEF IndInv, TypeOK
<1>3. seen[t] \in SUBSET {req[t]}
  BY DEF IndInv, ResponseIsOwn
<1>4. TransferConsistent(t, mine[t])
  BY <1>1 DEF IndInv, TransfersConsistent
<1>5. QED
  BY <1>1, <1>2, <1>3, <1>4

\* The step leaves the caller with nothing new.
LEMMA KeepStep ==
  ASSUME IndInv, NEW t \in Threads, pc[t] \in Polling,
         NEW x, NEW z, NEW e, NEW buffer, NEW d, NEW p,
         Round(t, x, z, e, d, p), BufferOf(t, buffer, z), Keep(t, buffer),
         p = "end" => got[t] = BodyLen \/ d
  PROVE  IndInv'
<1>1. /\ mine[t] # Nothing /\ pc[t] # "restore" /\ got[t] \in Nat
      /\ seen[t] \in SUBSET {req[t]}
  BY PollingThread
<1>2. Moved(t, x, z, e, buffer, got[t], seen[t], d, p)
  BY DEF Keep, IndInv, TypeOK, Round, Moved
<1>3. Sound(t, x, z, e, buffer, got[t], seen[t], d, p)
  BY <1>1 DEF Round, BufferOf, Sound
<1>4. QED
  BY <1>1, <1>2, <1>3, TransferStep

\* The step gives the caller the first k pieces of the buffer.
LEMMA GiveStep ==
  ASSUME IndInv, NEW t \in Threads, pc[t] \in Polling,
         NEW x, NEW z, NEW e, NEW buffer, NEW k \in 0..Len(buffer), NEW d, NEW p,
         Round(t, x, z, e, d, p), BufferOf(t, buffer, z), Give(t, buffer, k),
         p = "end" => got[t] + k = BodyLen \/ d
  PROVE  IndInv'
<1> DEFINE b == SubSeq(buffer, k + 1, Len(buffer))
           s == seen[t] \cup ToSet(SubSeq(buffer, 1, k))
           g == got[t] + k
<1>1. /\ mine[t] # Nothing /\ pc[t] # "restore" /\ got[t] \in Nat
      /\ seen[t] \in SUBSET {req[t]}
  BY PollingThread
<1>2. /\ b \in Seq(Requests) /\ Len(b) = Len(buffer) - k
      /\ \A i \in DOMAIN b : b[i] = req[t]
      /\ ToSet(SubSeq(buffer, 1, k)) \subseteq {req[t]}
  <2>1. buffer \in Seq(Requests) /\ \A i \in DOMAIN buffer : buffer[i] = req[t]
    BY DEF BufferOf
  <2>2. QED
    BY <2>1, TakenPieces, Zenon
<1>3. Len(buffer) \in Nat /\ got[t] + Len(buffer) = z
  BY LenProperties DEF BufferOf
<1>4. g \in Nat /\ g + Len(b) = z
  BY <1>1, <1>2, <1>3
<1>5. s \in SUBSET {req[t]}
  BY <1>1, <1>2
<1>6. Moved(t, x, z, e, b, g, s, d, p)
  BY DEF Give, Round, Moved
<1>7. Sound(t, x, z, e, b, g, s, d, p)
  BY <1>2, <1>4, <1>5 DEF Round, Sound
<1>8. QED
  BY <1>1, <1>6, <1>7, TransferStep

LEMMA ArrivedBuffer ==
  ASSUME IndInv, NEW t \in Threads, pc[t] \in Polling, NEW n \in 0..BodyLen,
         NEW z \in 0..BodyLen, z = sent[mine[t]] + n
  PROVE  BufferOf(t, Arrived(mine[t], req[t], n), z)
<1> DEFINE b == body[mine[t]]
<1>1. mine[t] \in Handles /\ req[t] \in Requests /\ TransferConsistent(t, mine[t])
  BY PollingThread
<1>2. /\ b \in Seq(Requests) /\ got[t] + Len(b) = sent[mine[t]]
      /\ \A i \in DOMAIN b : b[i] = req[t]
  BY <1>1 DEF IndInv, TypeOK, TransferConsistent
<1>3. n \in Nat /\ Len(b) \in Nat /\ got[t] \in Nat
  BY <1>2, CurlBlockingAssumption, LenProperties, PollingThread
<1> DEFINE a == b \o [i \in 1..n |-> req[t]]
<1> HIDE DEF b
<1>4. /\ a \in Seq(Requests) /\ Len(a) = Len(b) + n
      /\ \A i \in DOMAIN a : a[i] = req[t]
  BY <1>1, <1>2, <1>3, ArrivedPieces
<1> HIDE DEF a
<1>5. got[t] + Len(a) = z
  BY <1>2, <1>3, <1>4
<1>6. QED
  BY <1>4, <1>5 DEF BufferOf, Arrived, a, b

LEMMA PollHeadersStep ==
  ASSUME IndInv, NEW t \in Threads, PollHeaders(t) PROVE IndInv'
<1>1. pc[t] = "headers" /\ pc[t] \in Polling
  BY DEF PollHeaders, Polling
<1>2. PICK n \in 0..BodyLen, end \in {"running", "ok", "failed", "idle", "refused"} :
        /\ Perform(mine[t], req[t], n, end)
        /\ body' = [body EXCEPT ![mine[t]] = Arrived(mine[t], req[t], n)]
        /\ LET verdict == Verdict(end, header'[mine[t]] # Nothing) IN
             /\ Goto(t, CASE verdict = "again"  -> "headers"
                          [] verdict = "return" -> "open"
                          [] verdict = "error"  -> "drop")
             /\ seen' = IF verdict = "return"
                          THEN [seen EXCEPT ![t] = @ \cup {header'[mine[t]]}] ELSE seen
  BY DEF PollHeaders
<1>3. PICK x \in {"running", "ok", "failed"}, z \in 0..BodyLen, e \in {Nothing, req[t]} :
        /\ xfer'   = [xfer EXCEPT ![mine[t]] = x]
        /\ sent'   = [sent EXCEPT ![mine[t]] = z]
        /\ header' = [header EXCEPT ![mine[t]] = e]
        /\ z = sent[mine[t]] + n
        /\ x = "ok" => z = BodyLen
        /\ end \in {"running", "ok", "failed"} => x = end
        /\ end # "idle"
        /\ end = "ok" => e = req[t]
  BY <1>1, <1>2, PerformEffect
<1>4. mine[t] \in Handles /\ req[t] \in Requests /\ header'[mine[t]] = e
  BY <1>1, <1>3, PollingThread DEF IndInv, TypeOK
<1> DEFINE verdict == Verdict(end, e # Nothing)
           p == IF verdict = "again" THEN "headers"
                ELSE IF verdict = "return" THEN "open" ELSE "drop"
           s == IF verdict = "return" THEN seen[t] \cup {e} ELSE seen[t]
<1>5. /\ verdict \in {"again", "return", "error"}
      /\ verdict = "again" => end = "running"
      /\ verdict = "return" => end \in {"running", "ok"} /\ e = req[t]
  BY <1>3 DEF Verdict
<1>6. Moved(t, x, z, e, Arrived(mine[t], req[t], n), got[t], s, told[t], p)
  <2>1. pc' = [pc EXCEPT ![t] = p] /\ seen' = [seen EXCEPT ![t] = s]
    BY <1>2, <1>4, <1>5 DEF Goto, IndInv, TypeOK
  <2>2. got' = [got EXCEPT ![t] = got[t]] /\ told' = [told EXCEPT ![t] = told[t]]
    BY DEF PollHeaders, IndInv, TypeOK
  <2>3. QED
    BY <1>2, <1>3, <2>1, <2>2 DEF Moved, PollHeaders
<1>7. /\ p \in Polling \cup {"end", "failed", "drop"} /\ p # "end"
      /\ p = "headers" => x = "running"
      /\ p \in Polling => x \in {"running", "ok"}
  BY <1>3, <1>5 DEF Polling
<1>8. s \in SUBSET {req[t]}
  BY <1>1, <1>5, PollingThread
<1>9. BufferOf(t, Arrived(mine[t], req[t], n), z)
  BY <1>1, <1>3, ArrivedBuffer
<1>10. mine[t] # Nothing /\ pc[t] # "restore" /\ got[t] \in Nat /\ told[t] \in BOOLEAN
  BY <1>1, PollingThread DEF IndInv, TypeOK
<1>11. Sound(t, x, z, e, Arrived(mine[t], req[t], n), got[t], s, told[t], p)
  BY <1>3, <1>7, <1>8, <1>9, <1>10 DEF Sound, BufferOf
<1>12. QED
  BY <1>6, <1>10, <1>11, TransferStep

LEMMA ReadBufferedStep ==
  ASSUME IndInv, NEW t \in Threads, ReadBuffered(t) PROVE IndInv'
<1> DEFINE h == mine[t]
<1>1. pc[t] = "open" /\ pc[t] \in Polling
  BY DEF ReadBuffered, Polling
<1>2. PICK k \in 1..Len(body[h]) : Give(t, body[h], k)
  BY DEF ReadBuffered
<1>3. h \in Handles /\ TransferConsistent(t, h) /\ req[t] \in Requests
  BY <1>1, PollingThread
<1>4. BufferOf(t, body[h], sent[h])
  BY <1>3 DEF BufferOf, TransferConsistent, IndInv, TypeOK
<1>5. Round(t, xfer[h], sent[h], header[h], told[t], "open")
  BY <1>1, <1>3
     DEF Round, ReadBuffered, TransferConsistent, IndInv, TypeOK, threadVars,
         handleVars, Polling
<1>6. k \in 0..Len(body[h])
  BY <1>4, LenProperties DEF BufferOf
<1>7. QED
  BY <1>1, <1>2, <1>4, <1>5, <1>6, GiveStep

LEMMA PollReadStep ==
  ASSUME IndInv, NEW t \in Threads, PollRead(t) PROVE IndInv'
<1> DEFINE h == mine[t]
<1>1. pc[t] \in {"open", "reading"} /\ pc[t] \in Polling
  BY DEF PollRead, Polling
<1>2. PICK n \in 0..BodyLen, end \in {"running", "ok", "failed", "idle", "refused"} :
        LET buffer == Arrived(h, req[t], n)
            verdict == Verdict(end, buffer # <<>>) IN
        /\ Perform(h, req[t], n, end)
        /\ \/ verdict = "again" /\ Goto(t, "reading") /\ Keep(t, buffer)
           \/ verdict = "error" /\ Goto(t, "open") /\ Keep(t, buffer)
           \/ verdict = "return" /\ buffer = <<>> /\ Goto(t, "end") /\ Keep(t, buffer)
           \/ /\ verdict = "return" /\ Goto(t, "open")
              /\ \E k \in 1..Len(buffer) : Give(t, buffer, k)
        /\ told' = [told EXCEPT ![t] = told[t] \/ (verdict = "error" /\ end = "failed")]
  BY DEF PollRead
<1>3. UNCHANGED <<req, mine, asked, made, slotVars, easy>>
  BY DEF PollRead
<1>4. PICK x \in {"running", "ok", "failed"}, z \in 0..BodyLen, e \in {Nothing, req[t]} :
        /\ xfer'   = [xfer EXCEPT ![h] = x]
        /\ sent'   = [sent EXCEPT ![h] = z]
        /\ header' = [header EXCEPT ![h] = e]
        /\ z = sent[h] + n
        /\ x = "ok" => z = BodyLen
        /\ end \in {"running", "ok", "failed"} => x = end
        /\ x = "failed" => end = "failed" \/ told[t]
        /\ end = "idle" => x = "ok" \/ told[t]
  BY <1>1, <1>2, PerformEffect
<1> DEFINE buffer == Arrived(h, req[t], n)
           verdict == Verdict(end, buffer # <<>>)
           d == told[t] \/ (verdict = "error" /\ end = "failed")
<1>5. BufferOf(t, buffer, z)
  BY <1>1, <1>4, ArrivedBuffer
<1>6. /\ x = "failed" => d
      /\ verdict = "again" => x = "running"
      /\ verdict = "return" /\ buffer = <<>> => x = "ok" \/ d
  BY <1>4 DEF Verdict
<1>7. told' = [told EXCEPT ![t] = d] /\ d \in BOOLEAN
  BY <1>2
<1> HIDE DEF buffer, verdict, d
<1>round. \A p \in {"reading", "end", "open"} :
        Goto(t, p) /\ (p = "reading" => x = "running") => Round(t, x, z, e, d, p)
  BY <1>3, <1>4, <1>6, <1>7 DEF Round, Goto, Polling
<1>8. CASE verdict = "again" /\ Goto(t, "reading") /\ Keep(t, buffer)
  BY <1>1, <1>5, <1>6, <1>round, <1>8, KeepStep
<1>9. CASE verdict = "error" /\ Goto(t, "open") /\ Keep(t, buffer)
  BY <1>1, <1>5, <1>round, <1>9, KeepStep
<1>10. CASE verdict = "return" /\ buffer = <<>> /\ Goto(t, "end") /\ Keep(t, buffer)
  <2>1. got[t] \in Nat /\ z \in Nat /\ (z = BodyLen \/ d)
    BY <1>1, <1>4, <1>6, <1>10, PollingThread, CurlBlockingAssumption
  <2>2. got[t] = BodyLen \/ d
    BY <1>5, <1>10, <2>1, EmptySeq DEF BufferOf
  <2>3. Round(t, x, z, e, d, "end")
    BY <1>round, <1>10
  <2>4. QED
    BY <1>1, <1>5, <1>10, <2>2, <2>3, KeepStep
<1>11. CASE /\ verdict = "return" /\ Goto(t, "open")
            /\ \E k \in 1..Len(buffer) : Give(t, buffer, k)
  <2>1. PICK k \in 1..Len(buffer) : Give(t, buffer, k)
    BY <1>11
  <2>2. k \in 0..Len(buffer)
    BY <1>5, LenProperties DEF BufferOf
  <2>3. Round(t, x, z, e, d, "open")
    BY <1>round, <1>11
  <2>4. QED
    BY <1>1, <1>5, <2>1, <2>2, <2>3, GiveStep
<1>12. QED
  BY <1>2, <1>8, <1>9, <1>10, <1>11 DEF buffer, verdict

LEMMA PollAllStep ==
  ASSUME IndInv, NEW t \in Threads, PollAll(t) PROVE IndInv'
<1> DEFINE h == mine[t]
<1>1. pc[t] \in {"open", "all"} /\ pc[t] \in Polling
  BY DEF PollAll, Polling
<1>2. PICK n \in 0..BodyLen, end \in {"running", "ok", "failed", "idle", "refused"} :
        LET buffer == Arrived(h, req[t], n)
            verdict == Verdict(end, FALSE)
            large == Len(buffer) > Limit IN
        /\ Perform(h, req[t], n, end)
        /\ \/ verdict = "again" /\ ~large /\ Goto(t, "all") /\ Keep(t, buffer)
           \/ (verdict = "error" \/ large) /\ Goto(t, "failed") /\ Keep(t, buffer)
           \/ /\ verdict = "return" /\ ~large /\ Goto(t, "end")
              /\ Give(t, buffer, Len(buffer))
  BY DEF PollAll
<1>3. UNCHANGED <<req, mine, asked, made, slotVars, easy>>
  BY DEF PollAll
<1>4. PICK x \in {"running", "ok", "failed"}, z \in 0..BodyLen, e \in {Nothing, req[t]} :
        /\ xfer'   = [xfer EXCEPT ![h] = x]
        /\ sent'   = [sent EXCEPT ![h] = z]
        /\ header' = [header EXCEPT ![h] = e]
        /\ z = sent[h] + n
        /\ x = "ok" => z = BodyLen
        /\ end \in {"running", "ok", "failed"} => x = end
        /\ end = "idle" => x = "ok" \/ told[t]
  BY <1>1, <1>2, PerformEffect
<1> DEFINE buffer == Arrived(h, req[t], n)
           verdict == Verdict(end, FALSE)
<1>5. BufferOf(t, buffer, z)
  BY <1>1, <1>4, ArrivedBuffer
<1>6. (verdict = "again" => x = "running") /\ (verdict = "return" => x = "ok" \/ told[t])
  BY <1>4 DEF Verdict
<1>told. told' = [told EXCEPT ![t] = told[t]] /\ told[t] \in BOOLEAN
  BY DEF PollAll, IndInv, TypeOK
<1>7. \A p \in {"all", "failed", "end"} :
        Goto(t, p) /\ (p = "all" => x = "running") => Round(t, x, z, e, told[t], p)
  BY <1>3, <1>4, <1>told DEF Round, Goto, Polling
<1> HIDE DEF buffer, verdict
<1>8. CASE verdict = "again" /\ Goto(t, "all") /\ Keep(t, buffer)
  BY <1>1, <1>5, <1>6, <1>7, <1>8, KeepStep
<1>9. CASE Goto(t, "failed") /\ Keep(t, buffer)
  BY <1>1, <1>5, <1>7, <1>9, KeepStep
<1>10. CASE verdict = "return" /\ Goto(t, "end") /\ Give(t, buffer, Len(buffer))
  <2>1. Len(buffer) \in 0..Len(buffer)
    BY <1>5, LenProperties DEF BufferOf
  <2>2. got[t] + Len(buffer) = BodyLen \/ told[t]
    BY <1>4, <1>5, <1>6, <1>10 DEF BufferOf
  <2>3. Round(t, x, z, e, told[t], "end")
    BY <1>7, <1>10
  <2>4. QED
    BY <1>1, <1>5, <1>10, <2>1, <2>2, <2>3, GiveStep
<1>11. QED
  BY <1>2, <1>8, <1>9, <1>10 DEF buffer, verdict

-----------------------------------------------------------------------------
(* The steps around the slot.                                              *)

LEMMA Constants ==
  /\ MaxRequests \in Nat /\ BodyLen \in Nat /\ "free" \notin Threads
  /\ Requests = 1..MaxRequests /\ Handles = 1..MaxRequests
BY CurlBlockingAssumption DEF Requests, Handles

LEMMA LockStep ==
  ASSUME IndInv, NEW t \in Threads, Lock(t) PROVE IndInv'
<1> USE Constants DEF IndInv, Nothing
<1>1. /\ pc[t] = "idle" /\ asked < MaxRequests /\ lock = "free" /\ asked' = asked + 1
      /\ got' = [got EXCEPT ![t] = 0] /\ seen' = [seen EXCEPT ![t] = {}]
      /\ told' = [told EXCEPT ![t] = FALSE]
      /\ UNCHANGED <<mine, made, slot, poisoned, easy, xfer, sent, header, body>>
  BY DEF Lock, handleVars
<1>2. \/ pc' = [pc EXCEPT ![t] = "panicked"] /\ UNCHANGED <<req, lock>>
      \/ /\ pc' = [pc EXCEPT ![t] = "take"] /\ lock' = t
         /\ req' = [req EXCEPT ![t] = asked + 1]
  BY DEF Lock, Goto
<1>3. asked \in Nat /\ made \in Nat /\ made <= asked /\ asked + 1 \in Requests
  BY <1>1 DEF TypeOK, OwnersConsistent
<1>4. mine[t] = Nothing
  BY <1>1 DEF OwnersConsistent
<1>5. TypeOK'
  <2>1. pc' \in [Threads -> {"idle", "take", "populate", "headers", "reading", "all",
                             "restore", "panicked"} \cup Done]
    <3>1. pc \in [Threads -> {"idle", "take", "populate", "headers", "reading", "all",
                              "restore", "panicked"} \cup Done]
      BY DEF TypeOK
    <3>2. pc' = [pc EXCEPT ![t] = "panicked"] \/ pc' = [pc EXCEPT ![t] = "take"]
      BY <1>2
    <3>3. QED
      BY ONLY <3>1, <3>2
  <2>2. req' \in [Threads -> Requests \cup {0}]
    <3>1. req \in [Threads -> Requests \cup {0}] /\ asked + 1 \in Requests \cup {0}
      BY <1>3 DEF TypeOK
    <3>2. req' = req \/ req' = [req EXCEPT ![t] = asked + 1]
      BY <1>2
    <3>3. QED
      BY ONLY <3>1, <3>2
  <2>3. lock' \in Threads \cup {"free"}
    BY <1>1, <1>2
  <2>4. got' \in [Threads -> 0..BodyLen] /\ asked' \in 0..MaxRequests
    BY <1>1, <1>3 DEF TypeOK
  <2>5. seen' \in [Threads -> SUBSET (Requests \cup {0})] /\ told' \in [Threads -> BOOLEAN]
    BY <1>1 DEF TypeOK
  <2>6. QED
    BY <1>1, <2>1, <2>2, <2>3, <2>4, <2>5 DEF TypeOK
<1>6. LockConsistent'
  <2>1. ASSUME NEW u \in Threads PROVE lock' = u <=> pc'[u] \in {"take", "restore"}
    <3>1. pc[u] \notin {"take", "restore"} /\ lock # u
      BY <1>1 DEF LockConsistent
    <3>2. CASE pc' = [pc EXCEPT ![t] = "panicked"] /\ UNCHANGED <<req, lock>>
      BY <3>1, <3>2 DEF TypeOK
    <3>3. CASE pc' = [pc EXCEPT ![t] = "take"] /\ lock' = t
      BY <3>1, <3>3 DEF TypeOK
    <3>4. QED
      BY <1>2, <3>2, <3>3
  <2>2. QED
    BY <2>1 DEF LockConsistent
<1>7. OwnersConsistent'
  <2>1. slot' <= made' /\ made' <= asked'
    BY <1>1, <1>3 DEF OwnersConsistent
  <2>2. ASSUME NEW u \in Threads
        PROVE  /\ mine'[u] <= made'
               /\ pc'[u] = "take" => made' < asked' /\ got'[u] = 0
               /\ pc'[u] \notin {"idle", "panicked"} => req'[u] \in Requests
               /\ mine'[u] = Nothing <=> pc'[u] \in {"idle", "take", "panicked"}
    <3>1. mine'[u] <= made' /\ (mine[u] = Nothing <=> pc[u] \in {"idle", "take", "panicked"})
      BY <1>1 DEF OwnersConsistent
    <3>2. CASE u = t
      <4>1. got'[u] = 0 /\ mine'[u] = Nothing /\ made' < asked'
        BY <1>1, <1>3, <1>4, <3>2 DEF TypeOK
      <4>2. \/ pc'[u] = "panicked"
            \/ pc'[u] = "take" /\ req'[u] = asked + 1
        BY <1>2, <3>2 DEF TypeOK
      <4>3. QED
        BY <1>3, <3>1, <4>1, <4>2
    <3>3. CASE u # t
      <4>1. pc'[u] = pc[u] /\ req'[u] = req[u] /\ got'[u] = got[u] /\ mine'[u] = mine[u]
        BY <1>1, <1>2, <3>3 DEF TypeOK
      <4>2. /\ pc[u] = "take" => made < asked /\ got[u] = 0
            /\ pc[u] \notin {"idle", "panicked"} => req[u] \in Requests
        BY DEF OwnersConsistent
      <4>3. made < asked => made' < asked'
        BY <1>1, <1>3
      <4>4. QED
        BY <3>1, <4>1, <4>2, <4>3
    <3>4. QED
      BY <3>2, <3>3
  <2>3. QED
    BY <2>1, <2>2 DEF OwnersConsistent
<1>8. HandleHasOneOwner' /\ PoolConsistent'
  BY <1>1 DEF HandleHasOneOwner, PoolConsistent, Clean
<1>9. TransfersConsistent'
  <2>1. ASSUME NEW u \in Threads, mine[u] # Nothing
        PROVE  TransferConsistent(u, mine[u])'
    <3>1. u # t /\ TransferConsistent(u, mine[u])
      BY <1>4, <2>1 DEF TransfersConsistent
    <3>2. /\ pc'[u] = pc[u] /\ req'[u] = req[u] /\ got'[u] = got[u] /\ mine'[u] = mine[u]
          /\ told'[u] = told[u]
      BY <1>1, <1>2, <3>1 DEF TypeOK
    <3>3. QED
      BY <1>1, <3>1, <3>2 DEF TransferConsistent, Clean
  <2>2. QED
    BY <1>1, <2>1 DEF TransfersConsistent
<1>10. ResponseIsOwn'
  BY <1>1, <1>2 DEF ResponseIsOwn, TypeOK
<1>ends. EndIsComplete'
  <2>1. ASSUME NEW u \in Threads, pc'[u] = "end" PROVE got'[u] = BodyLen \/ told'[u]
    <3>1. u # t /\ pc[u] = "end"
      BY <1>2, <2>1 DEF TypeOK
    <3>2. got'[u] = got[u] /\ told'[u] = told[u]
      BY <1>1, <3>1 DEF TypeOK
    <3>3. QED
      BY <3>1, <3>2 DEF EndIsComplete
  <2>2. QED
    BY <2>1 DEF EndIsComplete
<1>11. QED
  BY <1>5, <1>6, <1>7, <1>8, <1>9, <1>10, <1>ends

LEMMA TakeStep ==
  ASSUME IndInv, NEW t \in Threads, Take(t) PROVE IndInv'
<1> USE Constants DEF IndInv, Nothing
<1>1. /\ pc[t] = "take" /\ lock' = "free" /\ slot' = Nothing
      /\ UNCHANGED <<req, got, seen, told, asked, poisoned, xfer, sent, header, body>>
  BY DEF Take, EmptySlot
<1>2. /\ made \in Nat /\ asked \in 0..MaxRequests /\ made < asked
      /\ got[t] = 0 /\ mine[t] = Nothing /\ req[t] \in Requests
  <2>1. made \in Nat /\ asked \in 0..MaxRequests
    BY DEF TypeOK
  <2>2. made < asked /\ got[t] = 0
    BY <1>1 DEF OwnersConsistent
  <2>3. mine[t] = Nothing /\ req[t] \in Requests
    BY <1>1 DEF OwnersConsistent
  <2>4. QED
    BY <2>1, <2>2, <2>3
<1>3. lock = t /\ \A u \in Threads : pc[u] \in {"take", "restore"} => u = t
  BY <1>1 DEF LockConsistent
<1>4. ASSUME NEW h \in Handles, h = slot \/ h = made + 1, h # 0,
             mine' = [mine EXCEPT ![t] = h], pc' = [pc EXCEPT ![t] = "populate"],
             h \in easy', made' \in {made, made + 1}, h <= made',
             easy \subseteq easy', easy' \subseteq Handles
      PROVE  IndInv'
  <2>1. Clean(h) /\ \A u \in Threads : mine[u] # h
    BY <1>2, <1>4 DEF PoolConsistent, HandleHasOneOwner, OwnersConsistent, TypeOK
  <2>2. made' \in 0..MaxRequests /\ made <= made' /\ made' <= asked
    BY <1>2, <1>4
  <2>3. TypeOK'
    BY <1>1, <1>4, <2>2 DEF TypeOK
  <2>4. LockConsistent'
    BY <1>1, <1>3, <1>4 DEF LockConsistent, TypeOK
  <2>5. OwnersConsistent'
    <3>1. slot' <= made' /\ made' <= asked'
      BY <1>1, <1>2, <2>2
    <3>2. ASSUME NEW u \in Threads
          PROVE  /\ mine'[u] <= made'
                 /\ pc'[u] = "take" => made' < asked' /\ got'[u] = 0
                 /\ pc'[u] \notin {"idle", "panicked"} => req'[u] \in Requests
                 /\ mine'[u] = Nothing <=> pc'[u] \in {"idle", "take", "panicked"}
      <4>1. CASE u = t
        <5>1. mine'[u] = h /\ pc'[u] = "populate"
          BY <1>4, <4>1 DEF TypeOK
        <5>2. QED
          BY <1>1, <1>2, <1>4, <4>1, <5>1
      <4>2. CASE u # t
        <5>1. mine'[u] = mine[u] /\ pc'[u] = pc[u] /\ pc[u] # "take"
          BY <1>3, <1>4, <4>2 DEF TypeOK
        <5>2. mine[u] <= made /\ mine[u] \in Nat
          BY DEF OwnersConsistent, TypeOK
        <5>3. mine'[u] <= made'
          BY <1>2, <2>2, <5>1, <5>2
        <5>4. QED
          BY <1>1, <5>1, <5>3 DEF OwnersConsistent
      <4>3. QED
        BY <4>1, <4>2
    <3>3. QED
      BY <3>1, <3>2 DEF OwnersConsistent
  <2>6. HandleHasOneOwner'
    BY <1>1, <1>4, <2>1 DEF HandleHasOneOwner, TypeOK
  <2>7. PoolConsistent'
    <3>1. ASSUME NEW g \in Handles, g > made' PROVE g > made
      BY <1>2, <2>2, <3>1
    <3>2. QED
      BY <1>1, <3>1 DEF PoolConsistent, Clean
  <2>8. TransfersConsistent'
    <3>1. ASSUME NEW u \in Threads, mine'[u] # Nothing
          PROVE  TransferConsistent(u, mine[u])'
      <4>1. CASE u = t
        <5>1. mine'[u] = h /\ pc'[u] = "populate" /\ got'[u] = 0
          BY <1>1, <1>2, <1>4, <4>1 DEF TypeOK
        <5>2. QED
          BY <1>1, <2>1, <5>1, EmptySeq DEF TransferConsistent, Clean
      <4>2. CASE u # t
        <5>1. mine'[u] = mine[u] /\ pc'[u] = pc[u]
          BY <1>4, <4>2 DEF TypeOK
        <5>2. TransferConsistent(u, mine[u])
          BY <3>1, <5>1 DEF TransfersConsistent
        <5>3. QED
          BY <1>1, <5>1, <5>2 DEF TransferConsistent, Clean
      <4>3. QED
        BY <4>1, <4>2
    <3>2. QED
      BY <3>1 DEF TransfersConsistent
  <2>9. ResponseIsOwn' /\ EndIsComplete'
    BY <1>1, <1>4 DEF ResponseIsOwn, EndIsComplete, TypeOK
  <2>10. QED
    BY <2>3, <2>4, <2>5, <2>6, <2>7, <2>8, <2>9
<1>5. CASE /\ slot # Nothing /\ mine' = [mine EXCEPT ![t] = slot] /\ Goto(t, "populate")
           /\ UNCHANGED <<made, easy>>
  <2>1. slot \in Handles /\ slot \in easy /\ slot <= made /\ easy \subseteq Handles
    BY <1>5 DEF TypeOK, PoolConsistent, OwnersConsistent
  <2>2. QED
    BY <1>4, <1>5, <2>1 DEF Goto
<1>6. CASE /\ slot = Nothing /\ made' = made + 1 /\ mine' = [mine EXCEPT ![t] = made + 1]
           /\ easy' = easy \cup {made + 1} /\ Goto(t, "populate")
  <2>1. made + 1 \in Handles /\ made + 1 # 0 /\ made + 1 <= made + 1 /\ easy \subseteq Handles
    BY <1>2 DEF TypeOK
  <2>2. QED
    BY <1>4, <1>6, <2>1 DEF Goto
<1>7. CASE slot = Nothing /\ Goto(t, "idle") /\ UNCHANGED <<mine, made, easy>>
  <2>1. pc' = [pc EXCEPT ![t] = "idle"] /\ slot' = slot
    BY <1>1, <1>7 DEF Goto
  <2>2. TypeOK'
    BY <1>1, <1>7, <2>1 DEF TypeOK
  <2>3. LockConsistent'
    BY <1>1, <1>3, <2>1 DEF LockConsistent, TypeOK
  <2>4. OwnersConsistent'
    BY <1>1, <1>2, <1>7, <2>1 DEF OwnersConsistent, TypeOK
  <2>5. HandleHasOneOwner' /\ PoolConsistent'
    BY <1>1, <1>7, <2>1 DEF HandleHasOneOwner, PoolConsistent, Clean
  <2>6. TransfersConsistent'
    <3>1. ASSUME NEW u \in Threads, mine'[u] # Nothing
          PROVE  TransferConsistent(u, mine[u])'
      <4>1. u # t /\ mine'[u] = mine[u] /\ TransferConsistent(u, mine[u])
        BY <1>2, <1>7, <3>1 DEF TransfersConsistent
      <4>2. pc'[u] = pc[u]
        BY <2>1, <4>1 DEF TypeOK
      <4>3. QED
        BY <1>1, <4>1, <4>2 DEF TransferConsistent, Clean
    <3>2. QED
      BY <3>1 DEF TransfersConsistent
  <2>7. ResponseIsOwn' /\ EndIsComplete'
    BY <1>1, <2>1 DEF ResponseIsOwn, EndIsComplete, TypeOK
  <2>8. QED
    BY <2>2, <2>3, <2>4, <2>5, <2>6, <2>7
<1>8. QED
  BY <1>5, <1>6, <1>7 DEF Take

LEMMA PopulateStep ==
  ASSUME IndInv, NEW t \in Threads, Populate(t) PROVE IndInv'
<1> DEFINE h == mine[t]
<1>1. /\ pc[t] = "populate"
      /\ UNCHANGED <<req, mine, got, seen, told, asked, made, slotVars, sent, header, body>>
  BY DEF Populate
<1>2. /\ h # Nothing /\ h \in Handles /\ req[t] \in Requests
      /\ TransferConsistent(t, h) /\ Clean(h)
  <2>1. h # Nothing /\ req[t] \in Requests
    BY <1>1 DEF IndInv, OwnersConsistent
  <2>2. h \in Handles
    BY <2>1 DEF IndInv, TypeOK
  <2>3. TransferConsistent(t, h)
    BY <2>1 DEF IndInv, TransfersConsistent
  <2>4. Clean(h)
    BY <1>1, <2>3 DEF TransferConsistent
  <2>5. QED
    BY <2>1, <2>2, <2>3, <2>4
<1>3. /\ seen[t] \in SUBSET {req[t]} /\ got[t] = 0 /\ body[h] = <<>>
      /\ told[t] \in BOOLEAN
  <2>1. got[t] + Len(<<>>) = 0 /\ got[t] \in 0..BodyLen
    BY <1>2 DEF TransferConsistent, Clean, IndInv, TypeOK
  <2>2. got[t] = 0
    BY <2>1, EmptySeq, Constants
  <2>3. QED
    BY <1>2, <2>2 DEF Clean, IndInv, ResponseIsOwn, TypeOK
<1>4. \A x \in {"idle", "running"}, p \in {"headers", "drop"} :
        (p = "headers" => x = "running")
          => Sound(t, x, 0, Nothing, <<>>, 0, seen[t], told[t], p)
  BY <1>2, <1>3, EmptySeq, Constants DEF Sound, Polling
<1>5. ASSUME NEW x \in {"idle", "running"}, NEW p \in {"headers", "drop"},
             xfer' = [xfer EXCEPT ![h] = x], Goto(t, p),
             easy' \in {easy, easy \ {h}}
      PROVE  Moved(t, x, 0, Nothing, <<>>, 0, seen[t], told[t], p)
  BY <1>1, <1>2, <1>3, <1>5 DEF Moved, Goto, Clean, IndInv, TypeOK
<1>6. xfer = [xfer EXCEPT ![h] = "idle"]
  BY <1>2 DEF Clean, IndInv, TypeOK
<1>7. \E x \in {"idle", "running"}, p \in {"headers", "drop"} :
        /\ xfer' = [xfer EXCEPT ![h] = x] /\ Goto(t, p)
        /\ p = "headers" => x = "running"
        /\ easy' \in {easy, easy \ {h}}
  BY <1>6 DEF Populate
<1>8. QED
  BY <1>1, <1>2, <1>4, <1>5, <1>7, TransferStep

LEMMA TryLockStep ==
  ASSUME IndInv, NEW t \in Threads, TryLock(t) PROVE IndInv'
<1> USE Constants DEF IndInv, Nothing
<1>1. /\ pc[t] \in Done
      /\ UNCHANGED <<req, got, seen, told, asked, made, slot, poisoned, easy, xfer, sent,
                     header, body>>
  BY DEF TryLock, handleVars
<1>2. \/ /\ lock = "free" /\ lock' = t /\ pc' = [pc EXCEPT ![t] = "restore"]
         /\ UNCHANGED mine
      \/ /\ mine' = [mine EXCEPT ![t] = Nothing] /\ pc' = [pc EXCEPT ![t] = "idle"]
         /\ UNCHANGED lock
  BY DEF TryLock, Goto
<1>3. mine[t] # Nothing /\ pc[t] \notin {"take", "restore"} /\ req[t] \in Requests
  BY <1>1 DEF OwnersConsistent, Done
<1>4. TypeOK'
  BY <1>1, <1>2 DEF TypeOK
<1>5. LockConsistent'
  <2>1. ASSUME NEW u \in Threads PROVE lock' = u <=> pc'[u] \in {"take", "restore"}
    BY <1>2, <1>3 DEF LockConsistent, TypeOK
  <2>2. QED
    BY <2>1 DEF LockConsistent
<1>6. OwnersConsistent'
  <2>1. ASSUME NEW u \in Threads
        PROVE  /\ mine'[u] <= made
               /\ pc'[u] = "take" => made < asked /\ got[u] = 0
               /\ pc'[u] \notin {"idle", "panicked"} => req[u] \in Requests
               /\ mine'[u] = Nothing <=> pc'[u] \in {"idle", "take", "panicked"}
    <3>1. made \in Nat /\ mine[u] <= made
      BY DEF TypeOK, OwnersConsistent
    <3>2. CASE UNCHANGED mine /\ pc' = [pc EXCEPT ![t] = "restore"]
      BY <1>3, <3>1, <3>2 DEF OwnersConsistent, TypeOK
    <3>3. CASE mine' = [mine EXCEPT ![t] = Nothing] /\ pc' = [pc EXCEPT ![t] = "idle"]
      <4>1. CASE u = t
        BY <3>1, <3>3, <4>1 DEF TypeOK
      <4>2. CASE u # t
        BY <3>1, <3>3, <4>2 DEF OwnersConsistent, TypeOK
      <4>3. QED
        BY <4>1, <4>2
    <3>4. QED
      BY <1>2, <3>2, <3>3
  <2>2. QED
    BY <1>1, <2>1 DEF OwnersConsistent
<1>7. HandleHasOneOwner' /\ PoolConsistent'
  <2>1. \A u \in Threads : mine'[u] \in {mine[u], Nothing}
    BY <1>2 DEF TypeOK
  <2>2. HandleHasOneOwner'
    BY <1>1, <2>1 DEF HandleHasOneOwner
  <2>3. PoolConsistent'
    BY <1>1 DEF PoolConsistent, Clean
  <2>4. QED
    BY <2>2, <2>3
<1>8. TransfersConsistent'
  <2>1. ASSUME NEW u \in Threads, mine'[u] # Nothing
        PROVE  TransferConsistent(u, mine[u])'
    <3>1. mine'[u] = mine[u] /\ mine[u] # Nothing /\ pc'[u] \in {pc[u], "restore"}
      BY <1>2, <2>1 DEF TypeOK
    <3>2. TransferConsistent(u, mine[u])
      BY <3>1 DEF TransfersConsistent
    <3>3. QED
      BY <1>1, <3>1, <3>2 DEF TransferConsistent, Clean
  <2>2. QED
    BY <2>1 DEF TransfersConsistent
<1>9. ResponseIsOwn' /\ EndIsComplete'
  BY <1>1, <1>2 DEF ResponseIsOwn, EndIsComplete, TypeOK
<1>10. QED
  BY <1>4, <1>5, <1>6, <1>7, <1>8, <1>9

\* Only the handle h of the step changes.
Only(h) ==
  \A g \in Handles : g # h =>
    /\ xfer'[g] = xfer[g] /\ sent'[g] = sent[g]
    /\ header'[g] = header[g] /\ body'[g] = body[g]

\* The step leaves handle h clean.
Cleaned(h) ==
  xfer'[h] = "idle" /\ sent'[h] = 0 /\ header'[h] = Nothing /\ body'[h] = <<>>

LEMMA RestoreStep ==
  ASSUME IndInv, NEW t \in Threads, Restore(t) PROVE IndInv'
<1> USE Constants DEF IndInv, Nothing
<1> DEFINE h == mine[t]
<1>1. /\ pc[t] = "restore" /\ lock' = "free" /\ mine' = [mine EXCEPT ![t] = Nothing]
      /\ UNCHANGED <<req, got, seen, told, asked, made>>
  BY DEF Restore
<1>2. h \in Handles /\ h # Nothing /\ h # slot /\ h <= made
  BY <1>1 DEF OwnersConsistent, HandleHasOneOwner, TypeOK
<1>3. ASSUME NEW p \in {"idle", "panicked"}, pc' = [pc EXCEPT ![t] = p],
             poisoned' \in BOOLEAN, Only(h),
             slot' = slot \/ (slot' = h /\ h \in easy' /\ Cleaned(h)),
             easy' \in {easy, easy \ {h}},
             xfer' \in [Handles -> {"idle", "running", "ok", "failed"}],
             sent' \in [Handles -> 0..BodyLen],
             header' \in [Handles -> Requests \cup {Nothing}],
             body' \in [Handles -> Seq(Requests)]
      PROVE  IndInv'
  <2>1. TypeOK'
    BY <1>1, <1>2, <1>3 DEF TypeOK
  <2>2. LockConsistent'
    <3>1. ASSUME NEW u \in Threads PROVE lock' = u <=> pc'[u] \in {"take", "restore"}
      BY <1>1, <1>3 DEF LockConsistent, TypeOK
    <3>2. QED
      BY <3>1 DEF LockConsistent
  <2>3. OwnersConsistent'
    <3>1. ASSUME NEW u \in Threads
          PROVE  /\ mine'[u] <= made
                 /\ pc'[u] = "take" => made < asked /\ got[u] = 0
                 /\ pc'[u] \notin {"idle", "panicked"} => req[u] \in Requests
                 /\ mine'[u] = Nothing <=> pc'[u] \in {"idle", "take", "panicked"}
      <4>1. made \in Nat /\ mine[u] <= made
        BY DEF TypeOK, OwnersConsistent
      <4>2. CASE u = t
        BY <1>1, <1>3, <4>1, <4>2 DEF TypeOK
      <4>3. CASE u # t
        BY <1>1, <1>3, <4>1, <4>3 DEF OwnersConsistent, TypeOK
      <4>4. QED
        BY <4>2, <4>3
    <3>2. slot' <= made /\ made <= asked
      BY <1>2, <1>3 DEF OwnersConsistent
    <3>3. QED
      BY <1>1, <3>1, <3>2 DEF OwnersConsistent
  <2>4. HandleHasOneOwner'
    <3>1. ASSUME NEW u \in Threads, mine'[u] # Nothing
          PROVE  u # t /\ mine'[u] = mine[u] /\ mine[u] # h /\ mine[u] # slot
      BY <1>1, <3>1 DEF HandleHasOneOwner, TypeOK
    <3>2. QED
      BY <1>3, <3>1 DEF HandleHasOneOwner
  <2>5. PoolConsistent'
    <3>1. ASSUME NEW g \in Handles, g # h, Clean(g) PROVE Clean(g)'
      BY <1>3, <3>1 DEF Only, Clean
    <3>2. ASSUME NEW g \in Handles, g > made PROVE g # h /\ Clean(g)
      BY <1>2, <3>2 DEF PoolConsistent, TypeOK
    <3>3. ASSUME slot' # Nothing PROVE slot' \in easy' /\ Clean(slot)'
      <4>1. CASE slot' = slot
        <5>1. slot \in Handles /\ slot \in easy' /\ Clean(slot)
          BY <1>2, <1>3, <3>3, <4>1 DEF PoolConsistent, TypeOK
        <5>2. /\ xfer'[slot] = xfer[slot] /\ sent'[slot] = sent[slot]
              /\ header'[slot] = header[slot] /\ body'[slot] = body[slot]
          BY <1>2, <1>3, <5>1 DEF Only
        <5>3. QED
          BY <4>1, <5>1, <5>2 DEF Clean
      <4>2. CASE slot' = h /\ h \in easy' /\ Cleaned(h)
        BY <4>2 DEF Clean, Cleaned
      <4>3. QED
        BY <1>3, <4>1, <4>2
    <3>4. QED
      BY <1>1, <3>1, <3>2, <3>3 DEF PoolConsistent
  <2>6. TransfersConsistent'
    <3>1. ASSUME NEW u \in Threads, mine'[u] # Nothing
          PROVE  TransferConsistent(u, mine[u])'
      <4>1. /\ u # t /\ mine'[u] = mine[u] /\ mine[u] # h /\ mine[u] \in Handles
            /\ TransferConsistent(u, mine[u])
        BY <1>1, <3>1 DEF HandleHasOneOwner, TypeOK, TransfersConsistent
      <4>2. pc'[u] = pc[u] /\ got'[u] = got[u] /\ req'[u] = req[u] /\ told'[u] = told[u]
        BY <1>1, <1>3, <4>1 DEF TypeOK
      <4>3. /\ xfer'[mine[u]] = xfer[mine[u]] /\ sent'[mine[u]] = sent[mine[u]]
            /\ header'[mine[u]] = header[mine[u]] /\ body'[mine[u]] = body[mine[u]]
        BY <1>3, <4>1 DEF Only
      <4>4. QED
        BY <4>1, <4>2, <4>3 DEF TransferConsistent, Clean
    <3>2. QED
      BY <3>1 DEF TransfersConsistent
  <2>7. ResponseIsOwn' /\ EndIsComplete'
    BY <1>1, <1>3 DEF ResponseIsOwn, EndIsComplete, TypeOK
  <2>8. QED
    BY <2>1, <2>2, <2>3, <2>4, <2>5, <2>6, <2>7
<1>4. CASE /\ slot = Nothing /\ h \in easy /\ slot' = h /\ ResetHandle(h)
           /\ Goto(t, "idle") /\ UNCHANGED <<poisoned, easy>>
  <2>1. /\ xfer' = [xfer EXCEPT ![h] = "idle"] /\ sent' = [sent EXCEPT ![h] = 0]
        /\ header' = [header EXCEPT ![h] = Nothing] /\ body' = [body EXCEPT ![h] = <<>>]
    BY <1>4 DEF ResetHandle
  <2>2. /\ xfer' \in [Handles -> {"idle", "running", "ok", "failed"}]
        /\ sent' \in [Handles -> 0..BodyLen]
        /\ header' \in [Handles -> Requests \cup {Nothing}]
    <3>1. /\ xfer \in [Handles -> {"idle", "running", "ok", "failed"}]
          /\ sent \in [Handles -> 0..BodyLen]
          /\ header \in [Handles -> Requests \cup {Nothing}]
      BY DEF TypeOK
    <3>2. 0 \in 0..BodyLen
      OBVIOUS
    <3>3. QED
      BY <2>1, <3>1, <3>2
  <2>3. body' \in [Handles -> Seq(Requests)]
    BY <1>2, <2>1, EmptySeq DEF TypeOK
  <2>4. Only(h)
    BY <1>2, <2>1 DEF Only, TypeOK
  <2>5. Cleaned(h)
    BY <1>2, <2>1 DEF TypeOK, Cleaned
  <2>6. mine[t] \in easy' /\ poisoned' \in BOOLEAN
    BY <1>4 DEF TypeOK
  <2>7. slot' = h /\ h \in easy' /\ Cleaned(h)
    BY <1>4, <2>5, <2>6
  <2>8. QED
    BY <1>3, <1>4, <2>2, <2>3, <2>4, <2>6, <2>7 DEF Goto
<1>5. CASE /\ UNCHANGED <<slot, xfer, sent, header, body>>
           /\ easy' \in {easy, easy \ {h}} /\ poisoned' \in BOOLEAN
           /\ \E p \in {"idle", "panicked"} : Goto(t, p)
  <2>1. Only(h)
    BY <1>5 DEF Only
  <2>2. QED
    BY <1>3, <1>5, <2>1 DEF Goto, TypeOK
<1>6. QED
  BY <1>4, <1>5 DEF Restore, NotReset, handleVars, TypeOK

-----------------------------------------------------------------------------

LEMMA IndInvNext == IndInv /\ [Next]_vars => IndInv'
<1> SUFFICES ASSUME IndInv, [Next]_vars PROVE IndInv'
  OBVIOUS
<1>1. CASE UNCHANGED vars
  BY <1>1
     DEF vars, threadVars, slotVars, handleVars, IndInv, TypeOK, LockConsistent,
         OwnersConsistent, HandleHasOneOwner, PoolConsistent, TransfersConsistent,
         TransferConsistent, Clean, ResponseIsOwn, EndIsComplete
<1>2. CASE Next
  <2>1. PICK t \in Threads :
          \/ Lock(t) \/ Take(t) \/ Populate(t)
          \/ PollHeaders(t) \/ ReadBuffered(t) \/ PollRead(t) \/ PollAll(t)
          \/ TryLock(t) \/ Restore(t)
    BY <1>2 DEF Next
  <2>2. QED
    BY <2>1, LockStep, TakeStep, PopulateStep, PollHeadersStep, ReadBufferedStep,
       PollReadStep, PollAllStep, TryLockStep, RestoreStep
<1>3. QED
  BY <1>1, <1>2

\* The slot, the threads and their handles agree at every step: IndInv, from
\* which the properties below follow, is kept by every critical section of
\* MultiEasySlot and every round of poll_until.
THEOREM InvariantHolds == Spec => []IndInv
BY IndInvInit, IndInvNext, PTL DEF Spec

\* Every field keeps its type, for any number of threads and requests; no caller
\* is given more pieces than a body has.
THEOREM TypeCorrect == Spec => []TypeOK
<1>1. IndInv => TypeOK
  BY DEF IndInv
<1>2. QED
  BY <1>1, InvariantHolds, PTL

\* However many threads race for the slot, a handle is in it or with one thread:
\* what the `Send` of the easy handle in MultiEasySlot relies on.
THEOREM OneOwner == Spec => []HandleHasOneOwner
<1>1. IndInv => HandleHasOneOwner
  BY DEF IndInv
<1>2. QED
  BY <1>1, InvariantHolds, PTL

\* A handle that comes from the slot carries nothing of its last user: header
\* and body given to a caller are those of its own request.
THEOREM ResponsesAreOwn == Spec => []ResponseIsOwn
<1>1. IndInv => ResponseIsOwn
  BY DEF IndInv
<1>2. QED
  BY <1>1, InvariantHolds, PTL

\* A body that ends is whole, whatever rounds of poll_until the caller made to get
\* it, unless its caller was told before that the transfer failed.
THEOREM EndsAreComplete == Spec => []EndIsComplete
<1>1. IndInv => EndIsComplete
  BY DEF IndInv
<1>2. QED
  BY <1>1, InvariantHolds, PTL

\* The handle in the slot can be used at once: reset_state put back only handles
\* with their easy handle in the set, and no transfer is left on it.
THEOREM SlotReady == Spec => []SlotIsReady
<1>1. IndInv => SlotIsReady
  BY DEF IndInv, PoolConsistent, Clean, SlotIsReady
<1>2. QED
  BY <1>1, InvariantHolds, PTL

===============================================================================
