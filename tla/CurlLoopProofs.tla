--------------------------- MODULE CurlLoopProofs ---------------------------
(***************************************************************************)
(* Proofs about CurlLoop, for any number of requests, loop threads and     *)
(* slab keys, and with every failure of the curl library allowed.          *)
(***************************************************************************)
EXTENDS CurlLoop, SequenceTheorems, TLAPS

-----------------------------------------------------------------------------
(* The two ways a task queue changes.                                      *)

\* Appending a task keeps the others where they are.
LEMMA AppendTask ==
  ASSUME NEW q \in Seq(LoopTask), NEW t \in LoopTask
  PROVE  /\ Append(q, t) \in Seq(LoopTask)
         /\ Len(Append(q, t)) = Len(q) + 1
         /\ DOMAIN Append(q, t) = 1..(Len(q) + 1)
         /\ DOMAIN q = 1..Len(q)
         /\ \A k \in DOMAIN q : Append(q, t)[k] = q[k]
         /\ Append(q, t)[Len(q) + 1] = t
BY DEF LoopTask

\* Taking the first task shifts the others by one.
LEMMA TailTask ==
  ASSUME NEW q \in Seq(LoopTask), Len(q) > 0
  PROVE  /\ Tail(q) \in Seq(LoopTask)
         /\ Len(Tail(q)) = Len(q) - 1
         /\ DOMAIN Tail(q) = 1..(Len(q) - 1)
         /\ DOMAIN q = 1..Len(q)
         /\ \A k \in DOMAIN Tail(q) : k + 1 \in DOMAIN q /\ Tail(q)[k] = q[k + 1]
         /\ Head(q) = q[1] /\ Head(q) \in LoopTask /\ 1 \in DOMAIN q
<1>1. q # << >>
  OBVIOUS
<1>2. /\ Head(q) \in LoopTask
      /\ Tail(q) \in Seq(LoopTask)
      /\ Len(Tail(q)) = Len(q) - 1
      /\ \A k \in 1..Len(Tail(q)) : Tail(q)[k] = q[k + 1]
  BY <1>1, HeadTailProperties
<1>3. QED
  BY <1>1, <1>2

LEMMA DispatchType ==
  ASSUME TypeOK, NEW l \in Loops \cup {NoLoop}, NEW t \in LoopTask, Dispatch(l, t)
  PROVE  /\ queue' \in [Loops -> Seq(LoopTask)]
         /\ wakeup' \in [Loops -> BOOLEAN]
         /\ \A k \in Loops : Len(queue'[k]) >= Len(queue[k])
<1>1. CASE Alive(l)
  <2>1. l \in Loops /\ queue[l] \in Seq(LoopTask)
    BY <1>1 DEF Alive, TypeOK
  <2>2. Append(queue[l], t) \in Seq(LoopTask) /\ Len(Append(queue[l], t)) = Len(queue[l]) + 1
    BY <2>1, AppendTask
  <2>3. /\ queue' = [queue EXCEPT ![l] = Append(queue[l], t)]
        /\ wakeup' = [wakeup EXCEPT ![l] = TRUE] \/ wakeup' = wakeup
    BY <1>1 DEF Dispatch, WakeThread
  <2>4. \A k \in Loops : queue[k] \in Seq(LoopTask) /\ Len(queue[k]) \in Nat
    BY DEF TypeOK
  <2>5. wakeup' \in [Loops -> BOOLEAN]
    BY <2>3 DEF TypeOK
  <2>6. queue' = [queue EXCEPT ![l] = Append(queue[l], t)] /\ queue \in [Loops -> Seq(LoopTask)]
    BY <2>3 DEF TypeOK
  <2>7. QED
    BY <2>1, <2>2, <2>4, <2>5, <2>6
<1>2. CASE ~Alive(l)
  <2>1. queue' = queue /\ wakeup' = wakeup
    BY <1>2 DEF Dispatch
  <2>2. \A k \in Loops : queue[k] \in Seq(LoopTask) /\ Len(queue[k]) \in Nat
    BY DEF TypeOK
  <2>3. QED
    BY <2>1, <2>2 DEF TypeOK
<1>3. QED
  BY <1>1, <1>2

LEMMA TakeType ==
  ASSUME TypeOK, NEW l \in Loops, lpc[l] = "drain", inBatch[l] > 0, Take(l)
  PROVE  /\ queue' \in [Loops -> Seq(LoopTask)]
         /\ inBatch' \in [Loops -> Nat]
         /\ wakeup' = wakeup
         /\ \A k \in Loops : lpc[k] # "dead" => inBatch'[k] <= Len(queue'[k])
<1>1. queue[l] \in Seq(LoopTask) /\ Len(queue[l]) \in Nat /\ inBatch[l] \in Nat
      /\ inBatch[l] <= Len(queue[l])
  BY DEF TypeOK
<1>2. Tail(queue[l]) \in Seq(LoopTask) /\ Len(Tail(queue[l])) = Len(queue[l]) - 1
  BY <1>1, TailTask
<1>3. /\ queue' = [queue EXCEPT ![l] = Tail(queue[l])]
      /\ inBatch' = [inBatch EXCEPT ![l] = inBatch[l] - 1]
      /\ wakeup' = wakeup
  BY DEF Take
<1>4. QED
  BY <1>1, <1>2, <1>3 DEF TypeOK

LEMMA TaskType ==
  ASSUME NEW kind \in {"Construct", "Query", "UnpauseRecv", "Drop", "Shutdown"},
         NEW r \in Req \cup {NoReq}, NEW i \in Ids \cup {NoId}
  PROVE  Task(kind, r, i) \in LoopTask
BY DEF Task, LoopTask

LEMMA LenNat ==
  ASSUME TypeOK
  PROVE  \A l \in Loops : /\ queue[l] \in Seq(LoopTask)
                          /\ Len(queue[l]) \in Nat
                          /\ inBatch[l] \in Nat
BY DEF TypeOK

LEMMA HeadTask ==
  ASSUME TypeOK, NEW l \in Loops, lpc[l] = "drain", inBatch[l] > 0
  PROVE  Head(queue[l]) \in LoopTask /\ Len(queue[l]) > 0
<1>1. inBatch[l] <= Len(queue[l])
  BY DEF TypeOK
<1>2. queue[l] \in Seq(LoopTask) /\ Len(queue[l]) \in Nat /\ inBatch[l] \in Nat
  BY LenNat
<1>3. Len(queue[l]) > 0
  BY <1>1, <1>2
<1>4. QED
  BY <1>2, <1>3, TailTask

-----------------------------------------------------------------------------
(* Type correctness.                                                       *)

LEMMA TypeInit == Init => TypeOK
<1> SUFFICES ASSUME Init PROVE TypeOK
  OBVIOUS
<1>1. queue \in [Loops -> Seq(LoopTask)] /\ \A l \in Loops : inBatch[l] <= Len(queue[l])
  BY DEF Init
<1>2. QED
  BY <1>1 DEF Init, TypeOK, RequestResult, FuturePc, BodyPc, FinalPc

LEMMA SpawnType ==
  ASSUME TypeOK, (\E l \in Loops : SpawnLoop(l)) \/ UNCHANGED <<mgr, lpc>>
  PROVE  /\ mgr' \in Loops \cup {NoLoop}
         /\ lpc' \in [Loops -> {"unborn", "poll", "drain", "perform", "exiting", "dead"}]
         /\ \A k \in Loops : lpc'[k] # "dead" => lpc[k] # "dead"
<1>1. ASSUME NEW l \in Loops, SpawnLoop(l)
      PROVE  /\ mgr' = l /\ lpc[l] = "unborn" /\ lpc' = [lpc EXCEPT ![l] = "poll"]
  BY <1>1 DEF SpawnLoop, Fresh
<1>2. QED
  BY <1>1 DEF TypeOK

LEMMA TypeStep == TypeOK /\ [Next]_vars => TypeOK'
<1> SUFFICES ASSUME TypeOK, [Next]_vars PROVE TypeOK'
  OBVIOUS
<1> USE DEF RequestResult, FuturePc, BodyPc, FinalPc, GoTo, Park, Wake, WakeAll,
            clientVars, loopVars, futureVars, sharedVars, ownerVars, curlVars
<1>1. ASSUME NEW r \in Req, Begin(r) PROVE TypeOK'
  BY <1>1 DEF Begin, TypeOK
<1>2. ASSUME NEW r \in Req, Acquire(r) PROVE TypeOK'
  <2>1. /\ mgr' \in Loops \cup {NoLoop}
        /\ lpc' \in [Loops -> {"unborn", "poll", "drain", "perform", "exiting", "dead"}]
        /\ \A l \in Loops : lpc'[l] # "dead" => lpc[l] # "dead"
    BY <1>2, SpawnType DEF Acquire, TypeOK
  <2>2. cm' = [cm EXCEPT ![r] = mgr'] /\ pc' = [pc EXCEPT ![r] = "submit"]
    BY <1>2 DEF Acquire
  <2>3. /\ cm' \in [Req -> Loops \cup {NoLoop}]
        /\ pc' \in [Req -> {"idle"} \cup FuturePc \cup BodyPc \cup FinalPc]
    BY <2>1, <2>2 DEF TypeOK
  <2>4. UNCHANGED <<clientGone, refused, queue, inBatch, lastCall, wakeup, slab, hid,
                    unpauseSent, parked, sharedVars, ownerVars, curlVars>>
    BY <1>2 DEF Acquire
  <2>5. QED
    BY <2>1, <2>3, <2>4 DEF TypeOK
<1>3. ASSUME NEW r \in Req, Submit(r) PROVE TypeOK'
  <2>1. cm[r] \in Loops \cup {NoLoop} /\ hid[r] \in Ids \cup {NoId}
    BY DEF TypeOK
  <2>2. /\ queue' \in [Loops -> Seq(LoopTask)]
        /\ wakeup' \in [Loops -> BOOLEAN]
        /\ \A k \in Loops : Len(queue'[k]) >= Len(queue[k])
    BY <2>1, <1>3, TaskType, DispatchType, LenNat DEF Submit, ReleaseHandle
  <2>3. \A k \in Loops : lpc'[k] # "dead" => inBatch'[k] <= Len(queue'[k])
    BY <1>3, <2>2, LenNat DEF Submit, TypeOK
  <2>4. /\ pc' \in [Req -> {"idle"} \cup FuturePc \cup BodyPc \cup FinalPc]
        /\ easy' \in [Req -> {"none", "client", "queue", "slab", "shared", "freed"}]
    <3>1. pc' = [pc EXCEPT ![r] = "starting"] \/ pc' = [pc EXCEPT ![r] = "replace"]
      BY <1>3 DEF Submit
    <3>2. easy' = easy \/ easy' = [easy EXCEPT ![r] = "queue"]
      BY <1>3 DEF Submit
    <3>3. pc' \in [Req -> {"idle"} \cup FuturePc \cup BodyPc \cup FinalPc]
      BY <3>1 DEF TypeOK
    <3>4. easy' \in [Req -> {"none", "client", "queue", "slab", "shared", "freed"}]
      BY <3>2 DEF TypeOK
    <3>5. QED
      BY <3>3, <3>4
  <2>5. UNCHANGED <<clientVars, lpc, inBatch, lastCall, slab, cm, hid, unpauseSent,
                    parked, sharedVars, handle, curlVars>>
    BY <1>3 DEF Submit
  <2>6. QED
    BY <2>2, <2>3, <2>4, <2>5 DEF TypeOK
<1>30. ASSUME NEW r \in Req, SubmitRefused(r) PROVE TypeOK'
  <2>1. cm[r] \in Loops
    BY <1>30 DEF SubmitRefused, Alive
  <2>2. QED
    BY <1>30, <2>1 DEF SubmitRefused, TypeOK
<1>4. ASSUME NEW r \in Req, PollStart(r) PROVE TypeOK'
  <2>1. CASE result[r] = "Init"
    BY <1>4, <2>1 DEF PollStart, TypeOK
  <2>2. CASE result[r] = "EasyLost"
    <3>1. /\ result' = [result EXCEPT ![r] = "Init"] /\ easy' = [easy EXCEPT ![r] = "client"]
          /\ pc' = [pc EXCEPT ![r] = "replace"]
          /\ UNCHANGED <<parked, hid, handle>>
          /\ UNCHANGED <<clientVars, loopVars, cm, unpauseSent, resId, header, buf,
                         curlVars>>
      BY <1>4, <2>2 DEF PollStart
    <3>2. pc' \in [Req -> {"idle"} \cup FuturePc \cup BodyPc \cup FinalPc]
      BY <3>1 DEF TypeOK
    <3>3. /\ result' \in [Req -> RequestResult]
          /\ easy' \in [Req -> {"none", "client", "queue", "slab", "shared", "freed"}]
      BY <3>1 DEF TypeOK
    <3>4. QED
      BY <3>1, <3>2, <3>3 DEF TypeOK
  <2>3. CASE result[r] \in {"InProgress", "DoneOk", "DoneErr"}
    <3>1. hid' = [hid EXCEPT ![r] = resId[r]]
      BY <1>4, <2>3 DEF PollStart
    <3>2. hid' \in [Req -> Ids \cup {NoId}]
      BY <3>1 DEF TypeOK
    <3>3. /\ handle' = [handle EXCEPT ![r] = "client"]
          /\ pc' = [pc EXCEPT ![r] = "wait1"]
          /\ UNCHANGED <<parked, result, easy>>
          /\ UNCHANGED <<clientVars, loopVars, cm, unpauseSent, resId, header, buf,
                         curlVars>>
      BY <1>4, <2>3 DEF PollStart
    <3>4. QED
      BY <3>2, <3>3 DEF TypeOK
  <2>4. QED
    BY <1>4, <2>1, <2>2, <2>3 DEF PollStart
<1>5. ASSUME NEW r \in Req, Replace(r) PROVE TypeOK'
  <2>1. /\ mgr' \in Loops \cup {NoLoop}
        /\ lpc' \in [Loops -> {"unborn", "poll", "drain", "perform", "exiting", "dead"}]
        /\ \A l \in Loops : lpc'[l] # "dead" => lpc[l] # "dead"
    BY <1>5, SpawnType DEF Replace, TypeOK
  <2>2. pc' \in [Req -> {"idle"} \cup FuturePc \cup BodyPc \cup FinalPc]
    BY <1>5 DEF Replace, TypeOK
  <2>3. UNCHANGED <<clientGone, refused, queue, inBatch, lastCall, wakeup, slab, cm, hid,
                    unpauseSent, parked, sharedVars, ownerVars, curlVars>>
    BY <1>5 DEF Replace
  <2>4. QED
    BY <2>1, <2>2, <2>3 DEF TypeOK
<1>6. ASSUME NEW r \in Req, PollWait1(r) PROVE TypeOK'
  <2>1. cm[r] \in Loops \cup {NoLoop} /\ hid[r] \in Ids \cup {NoId}
    BY DEF TypeOK
  <2>2. /\ queue' \in [Loops -> Seq(LoopTask)]
        /\ wakeup' \in [Loops -> BOOLEAN]
        /\ \A k \in Loops : Len(queue'[k]) >= Len(queue[k])
    <3>1. CASE UNCHANGED <<queue, wakeup>>
      BY <3>1, LenNat DEF TypeOK
    <3>2. ASSUME NEW kind \in {"Drop", "UnpauseRecv"},
                 Dispatch(cm[r], Task(kind, r, hid[r]))
          PROVE  /\ queue' \in [Loops -> Seq(LoopTask)]
                 /\ wakeup' \in [Loops -> BOOLEAN]
                 /\ \A k \in Loops : Len(queue'[k]) >= Len(queue[k])
      BY <2>1, <3>2, TaskType, DispatchType
    <3>3. QED
      BY <1>6, <3>1, <3>2 DEF PollWait1, ReleaseHandle
  <2>3. \A k \in Loops : lpc'[k] # "dead" => inBatch'[k] <= Len(queue'[k])
    BY <1>6, <2>2, LenNat DEF PollWait1, TypeOK
  <2>4. /\ pc' \in [Req -> {"idle"} \cup FuturePc \cup BodyPc \cup FinalPc]
        /\ parked' \in [Req -> BOOLEAN]
    <3>1. pc' = pc \/ pc' = [pc EXCEPT ![r] = "failed"] \/ pc' = [pc EXCEPT ![r] = "query"]
      BY <1>6 DEF PollWait1
    <3>2. parked' = parked \/ parked' = [parked EXCEPT ![r] = TRUE]
      BY <1>6 DEF PollWait1
    <3>3. pc' \in [Req -> {"idle"} \cup FuturePc \cup BodyPc \cup FinalPc]
      BY <3>1 DEF TypeOK
    <3>4. parked' \in [Req -> BOOLEAN]
      BY <3>2 DEF TypeOK
    <3>5. QED
      BY <3>3, <3>4
  <2>5. result' \in [Req -> RequestResult]
    <3>1. result' = result \/ result' = [result EXCEPT ![r] = "Init"]
      BY <1>6 DEF PollWait1
    <3>2. QED
      BY <3>1 DEF TypeOK
  <2>6. handle' \in [Req -> {"none", "client", "task", "shared", "gone"}]
    <3>1. handle' = handle \/ handle' = [handle EXCEPT ![r] = "gone"]
      BY <1>6 DEF PollWait1, ReleaseHandle
    <3>2. QED
      BY <3>1 DEF TypeOK
  <2>7. UNCHANGED <<clientVars, lpc, inBatch, lastCall, slab, cm, hid, unpauseSent,
                    resId, header, buf, easy, curlVars>>
    BY <1>6 DEF PollWait1
  <2>8. QED
    BY <2>2, <2>3, <2>4, <2>5, <2>6, <2>7 DEF TypeOK
<1>7. ASSUME NEW r \in Req, SendQuery(r) PROVE TypeOK'
  <2>1. cm[r] \in Loops \cup {NoLoop} /\ hid[r] \in Ids \cup {NoId}
    BY DEF TypeOK
  <2>2. /\ queue' \in [Loops -> Seq(LoopTask)]
        /\ wakeup' \in [Loops -> BOOLEAN]
        /\ \A k \in Loops : Len(queue'[k]) >= Len(queue[k])
    BY <2>1, <1>7, TaskType, DispatchType, LenNat DEF SendQuery, ReleaseHandle
  <2>3. \A k \in Loops : lpc'[k] # "dead" => inBatch'[k] <= Len(queue'[k])
    BY <1>7, <2>2, LenNat DEF SendQuery, TypeOK
  <2>4. /\ pc' \in [Req -> {"idle"} \cup FuturePc \cup BodyPc \cup FinalPc]
        /\ handle' \in [Req -> {"none", "client", "task", "shared", "gone"}]
    <3>1. pc' = [pc EXCEPT ![r] = "wait2"] \/ pc' = [pc EXCEPT ![r] = "failed"]
      BY <1>7 DEF SendQuery
    <3>2. handle' = [handle EXCEPT ![r] = "task"] \/ handle' = [handle EXCEPT ![r] = "gone"]
      BY <1>7 DEF SendQuery
    <3>3. pc' \in [Req -> {"idle"} \cup FuturePc \cup BodyPc \cup FinalPc]
      BY <3>1 DEF TypeOK
    <3>4. handle' \in [Req -> {"none", "client", "task", "shared", "gone"}]
      BY <3>2 DEF TypeOK
    <3>5. QED
      BY <3>3, <3>4
  <2>5. UNCHANGED <<clientVars, lpc, inBatch, lastCall, slab, cm, hid, unpauseSent,
                    parked, sharedVars, easy, curlVars>>
    BY <1>7 DEF SendQuery
  <2>6. QED
    BY <2>2, <2>3, <2>4, <2>5 DEF TypeOK
<1>8. ASSUME NEW r \in Req, PollWait2(r) PROVE TypeOK'
  <2>1. /\ pc' \in [Req -> {"idle"} \cup FuturePc \cup BodyPc \cup FinalPc]
        /\ parked' \in [Req -> BOOLEAN]
    <3>1. pc' = pc \/ pc' = [pc EXCEPT ![r] = "open"] \/ pc' = [pc EXCEPT ![r] = "failed"]
      BY <1>8 DEF PollWait2
    <3>2. parked' = parked \/ parked' = [parked EXCEPT ![r] = TRUE]
      BY <1>8 DEF PollWait2
    <3>3. pc' \in [Req -> {"idle"} \cup FuturePc \cup BodyPc \cup FinalPc]
      BY <3>1 DEF TypeOK
    <3>4. parked' \in [Req -> BOOLEAN]
      BY <3>2 DEF TypeOK
    <3>5. QED
      BY <3>3, <3>4
  <2>2. /\ result' \in [Req -> RequestResult]
        /\ handle' \in [Req -> {"none", "client", "task", "shared", "gone"}]
    <3>1. result' = result \/ result' = [result EXCEPT ![r] = "Init"]
      BY <1>8 DEF PollWait2
    <3>2. handle' = handle \/ handle' = [handle EXCEPT ![r] = "client"]
      BY <1>8 DEF PollWait2
    <3>3. QED
      BY <3>1, <3>2 DEF TypeOK
  <2>3. UNCHANGED <<clientVars, loopVars, cm, hid, unpauseSent, resId, header, buf,
                    easy, curlVars>>
    BY <1>8 DEF PollWait2
  <2>4. QED
    BY <2>1, <2>2, <2>3 DEF TypeOK
<1>9. ASSUME NEW r \in Req, Cancel(r) PROVE TypeOK'
  <2>1. cm[r] \in Loops \cup {NoLoop} /\ hid[r] \in Ids \cup {NoId}
    BY DEF TypeOK
  <2>2. /\ queue' \in [Loops -> Seq(LoopTask)]
        /\ wakeup' \in [Loops -> BOOLEAN]
        /\ \A k \in Loops : Len(queue'[k]) >= Len(queue[k])
    <3>1. CASE UNCHANGED <<queue, wakeup>>
      BY <3>1, LenNat DEF TypeOK
    <3>2. ASSUME NEW kind \in {"Drop", "UnpauseRecv"},
                 Dispatch(cm[r], Task(kind, r, hid[r]))
          PROVE  /\ queue' \in [Loops -> Seq(LoopTask)]
                 /\ wakeup' \in [Loops -> BOOLEAN]
                 /\ \A k \in Loops : Len(queue'[k]) >= Len(queue[k])
      BY <2>1, <3>2, TaskType, DispatchType
    <3>3. QED
      BY <1>9, <3>1, <3>2 DEF Cancel, ReleaseHandle
  <2>3. \A k \in Loops : lpc'[k] # "dead" => inBatch'[k] <= Len(queue'[k])
    BY <1>9, <2>2, LenNat DEF Cancel, TypeOK
  <2>4. QED
    BY <1>9, <2>2, <2>3 DEF Cancel, TypeOK, ReleaseHandle
<1>10. ASSUME NEW r \in Req, ReadData(r) PROVE TypeOK'
  <2>1. /\ buf' = buf \/ buf' = [buf EXCEPT ![r] = FALSE]
        /\ unpauseSent' = [unpauseSent EXCEPT ![r] = FALSE]
        /\ UNCHANGED <<clientVars, loopVars, cm, hid, parked, result, resId, header,
                       ownerVars, curlVars>>
    BY <1>10 DEF ReadData
  <2>2. pc' \in [Req -> {"idle"} \cup FuturePc \cup BodyPc \cup FinalPc]
    <3>1. pc' = [pc EXCEPT ![r] = "open"] \/ pc' = [pc EXCEPT ![r] = "broken"]
      BY <1>10 DEF ReadData
    <3>2. QED
      BY <3>1 DEF TypeOK
  <2>3. buf' \in [Req -> BOOLEAN] /\ unpauseSent' \in [Req -> BOOLEAN]
    BY <2>1 DEF TypeOK
  <2>4. QED
    BY <2>1, <2>2, <2>3 DEF TypeOK
<1>11. ASSUME NEW r \in Req, ReadEnd(r) PROVE TypeOK'
  BY <1>11 DEF ReadEnd, TypeOK
<1>12. ASSUME NEW r \in Req, ReadWait(r) PROVE TypeOK'
  <2>1. cm[r] \in Loops \cup {NoLoop} /\ hid[r] \in Ids \cup {NoId}
    BY DEF TypeOK
  <2>2. /\ queue' \in [Loops -> Seq(LoopTask)]
        /\ wakeup' \in [Loops -> BOOLEAN]
        /\ \A k \in Loops : Len(queue'[k]) >= Len(queue[k])
    <3>1. CASE UNCHANGED <<queue, wakeup>>
      BY <3>1, LenNat DEF TypeOK
    <3>2. ASSUME NEW kind \in {"Drop", "UnpauseRecv"},
                 Dispatch(cm[r], Task(kind, r, hid[r]))
          PROVE  /\ queue' \in [Loops -> Seq(LoopTask)]
                 /\ wakeup' \in [Loops -> BOOLEAN]
                 /\ \A k \in Loops : Len(queue'[k]) >= Len(queue[k])
      BY <2>1, <3>2, TaskType, DispatchType
    <3>3. QED
      BY <1>12, <3>1, <3>2 DEF ReadWait, ReleaseHandle
  <2>3. \A k \in Loops : lpc'[k] # "dead" => inBatch'[k] <= Len(queue'[k])
    BY <1>12, <2>2, LenNat DEF ReadWait, TypeOK
  <2>4. QED
    BY <1>12, <2>2, <2>3 DEF ReadWait, TypeOK, ReleaseHandle
<1>13. ASSUME NEW r \in Req, Close(r) PROVE TypeOK'
  <2>1. cm[r] \in Loops \cup {NoLoop} /\ hid[r] \in Ids \cup {NoId}
    BY DEF TypeOK
  <2>2. /\ queue' \in [Loops -> Seq(LoopTask)]
        /\ wakeup' \in [Loops -> BOOLEAN]
        /\ \A k \in Loops : Len(queue'[k]) >= Len(queue[k])
    BY <2>1, <1>13, TaskType, DispatchType, LenNat DEF Close, ReleaseHandle
  <2>3. \A k \in Loops : lpc'[k] # "dead" => inBatch'[k] <= Len(queue'[k])
    BY <1>13, <2>2, LenNat DEF Close, TypeOK
  <2>4. QED
    BY <1>13, <2>2, <2>3 DEF Close, TypeOK, ReleaseHandle
<1>14. ASSUME DropClient PROVE TypeOK'
  <2>1. mgr \in Loops \cup {NoLoop}
    BY DEF TypeOK
  <2>2. /\ queue' \in [Loops -> Seq(LoopTask)]
        /\ wakeup' \in [Loops -> BOOLEAN]
        /\ \A k \in Loops : Len(queue'[k]) >= Len(queue[k])
    BY <2>1, <1>14, TaskType, DispatchType, LenNat DEF DropClient, ReleaseHandle
  <2>3. \A k \in Loops : lpc'[k] # "dead" => inBatch'[k] <= Len(queue'[k])
    BY <1>14, <2>2, LenNat DEF DropClient, TypeOK
  <2>4. QED
    BY <1>14, <2>2, <2>3 DEF DropClient, TypeOK, ReleaseHandle
<1>15. ASSUME NEW l \in Loops, PollReturn(l) PROVE TypeOK'
  BY <1>15, LenNat DEF PollReturn, TypeOK
<1>16. ASSUME NEW l \in Loops, DrainDone(l) PROVE TypeOK'
  BY <1>16 DEF DrainDone, TypeOK
<1>17. ASSUME NEW l \in Loops, ConstructHandle(l) PROVE TypeOK'
  <2>1. lpc[l] = "drain" /\ inBatch[l] > 0 /\ Head(queue[l]) \in LoopTask
    BY <1>17, HeadTask DEF ConstructHandle, HasTask
  <2>2. /\ queue' \in [Loops -> Seq(LoopTask)]
        /\ inBatch' \in [Loops -> Nat]
        /\ wakeup' = wakeup
        /\ \A k \in Loops : lpc[k] # "dead" => inBatch'[k] <= Len(queue'[k])
    BY <1>17, <2>1, TakeType DEF ConstructHandle
  <2>3. QED
    <3> DEFINE r == Head(queue[l]).req
    <3>1. r \in Req \cup {NoReq}
      BY <2>1 DEF LoopTask
    <3>2. PICK i \in Ids : /\ slab' = [slab EXCEPT ![l][i] = r]
                           /\ resId' = [resId EXCEPT ![r] = i]
      BY <1>17 DEF ConstructHandle
    <3>3. /\ slab' \in [Loops -> [Ids -> Req \cup {NoReq}]]
          /\ resId' \in [Req -> Ids \cup {NoId}]
      BY <3>1, <3>2 DEF TypeOK
    <3> HIDE DEF r
    <3>4. QED
      BY <1>17, <2>1, <2>2, <3>3 DEF ConstructHandle, TypeOK, r
<1>18. ASSUME NEW l \in Loops, QueryStored(l) PROVE TypeOK'
  <2>1. lpc[l] = "drain" /\ inBatch[l] > 0 /\ Head(queue[l]) \in LoopTask
    BY <1>18, HeadTask DEF QueryStored, HasTask
  <2>2. /\ queue' \in [Loops -> Seq(LoopTask)]
        /\ inBatch' \in [Loops -> Nat]
        /\ wakeup' = wakeup
        /\ \A k \in Loops : lpc[k] # "dead" => inBatch'[k] <= Len(queue'[k])
    BY <1>18, <2>1, TakeType DEF QueryStored
  <2>3. QED
    BY <1>18, <2>1, <2>2 DEF QueryStored, TypeOK, LoopTask
<1>19. ASSUME NEW l \in Loops, QueryFailed(l) PROVE TypeOK'
  <2>1. lpc[l] = "drain" /\ inBatch[l] > 0 /\ Head(queue[l]) \in LoopTask
    BY <1>19, HeadTask DEF QueryFailed, HasTask
  <2> DEFINE t == Task("Drop", Head(queue[l]).req, Head(queue[l]).id)
  <2>2. t \in LoopTask
    BY <2>1, TaskType DEF LoopTask
  <2>3. /\ queue[l] \in Seq(LoopTask)
        /\ inBatch[l] \in Nat
        /\ Len(queue[l]) \in Nat
        /\ inBatch[l] <= Len(queue[l])
    BY <2>1, LenNat DEF TypeOK
  <2>4. /\ Tail(queue[l]) \in Seq(LoopTask)
        /\ Len(Tail(queue[l])) = Len(queue[l]) - 1
    BY <2>1, <2>3, TailTask
  <2>5. /\ Append(Tail(queue[l]), t) \in Seq(LoopTask)
        /\ Len(Append(Tail(queue[l]), t)) = Len(queue[l])
    BY <2>2, <2>3, <2>4, AppendTask
  <2>6. /\ queue' = [queue EXCEPT ![l] = Append(Tail(queue[l]), t)]
        /\ inBatch' = [inBatch EXCEPT ![l] = inBatch[l] - 1]
        /\ wakeup' = [wakeup EXCEPT ![l] = TRUE] \/ wakeup' = wakeup
    BY <1>19 DEF QueryFailed, TakeAndDispatch, WakeThread
  <2> HIDE DEF t
  <2>7. QED
    <3>1. /\ queue' \in [Loops -> Seq(LoopTask)]
          /\ inBatch' \in [Loops -> Nat]
          /\ \A k \in Loops : lpc[k] # "dead" => inBatch'[k] <= Len(queue'[k])
      BY <2>1, <2>3, <2>5, <2>6 DEF TypeOK
    <3>2. wakeup' \in [Loops -> BOOLEAN]
      BY <2>6 DEF TypeOK
    <3>3. QED
      BY <1>19, <2>1, <3>1, <3>2 DEF QueryFailed, TypeOK, LoopTask
<1>20. ASSUME NEW l \in Loops, UnpauseRecv(l) PROVE TypeOK'
  <2>1. lpc[l] = "drain" /\ inBatch[l] > 0 /\ Head(queue[l]) \in LoopTask
    BY <1>20, HeadTask DEF UnpauseRecv, HasTask
  <2>2. /\ queue' \in [Loops -> Seq(LoopTask)]
        /\ inBatch' \in [Loops -> Nat]
        /\ wakeup' = wakeup
        /\ \A k \in Loops : lpc[k] # "dead" => inBatch'[k] <= Len(queue'[k])
    BY <1>20, <2>1, TakeType DEF UnpauseRecv
  <2>3. QED
    <3>1. xfer' \in [Req -> {"none", "headers", "paused", "flowing", "okMsg",
                            "errMsg", "finished"}]
      <4> DEFINE o == slab[l][Head(queue[l]).id]
      <4>1. xfer' = xfer \/ xfer' = [xfer EXCEPT ![o] = "flowing"]
        BY <1>20 DEF UnpauseRecv
      <4> HIDE DEF o
      <4>2. QED
        BY <4>1 DEF TypeOK
    <3>2. QED
      BY <1>20, <2>2, <3>1 DEF UnpauseRecv, TypeOK
<1>21. ASSUME NEW l \in Loops, UnpauseRecvFailed(l) PROVE TypeOK'
  <2>1. lpc[l] = "drain" /\ inBatch[l] > 0 /\ Head(queue[l]) \in LoopTask
    BY <1>21, HeadTask DEF UnpauseRecvFailed, HasTask
  <2>2. /\ queue' \in [Loops -> Seq(LoopTask)]
        /\ inBatch' \in [Loops -> Nat]
        /\ wakeup' = wakeup
        /\ \A k \in Loops : lpc[k] # "dead" => inBatch'[k] <= Len(queue'[k])
    BY <1>21, <2>1, TakeType DEF UnpauseRecvFailed
  <2>3. QED
    BY <1>21, <2>1, <2>2 DEF UnpauseRecvFailed, TypeOK, LoopTask
<1>22. ASSUME NEW l \in Loops, DropHandle(l) PROVE TypeOK'
  <2>1. lpc[l] = "drain" /\ inBatch[l] > 0 /\ Head(queue[l]) \in LoopTask
    BY <1>22, HeadTask DEF DropHandle, HasTask
  <2>2. /\ queue' \in [Loops -> Seq(LoopTask)]
        /\ inBatch' \in [Loops -> Nat]
        /\ wakeup' = wakeup
        /\ \A k \in Loops : lpc[k] # "dead" => inBatch'[k] <= Len(queue'[k])
    BY <1>22, <2>1, TakeType DEF DropHandle
  <2>3. QED
    <3> DEFINE i == Head(queue[l]).id
    <3>1. CASE slab[l][i] \in Req
      <4> DEFINE o == slab[l][i]
      <4>1. /\ slab' = [slab EXCEPT ![l][i] = NoReq]
            /\ easy' = [easy EXCEPT ![o] = "freed"]
            /\ xfer' = [xfer EXCEPT ![o] = "none"]
        BY <1>22, <3>1 DEF DropHandle
      <4> HIDE DEF i, o
      <4>2. /\ slab' \in [Loops -> [Ids -> Req \cup {NoReq}]]
            /\ easy' \in [Req -> {"none", "client", "queue", "slab", "shared", "freed"}]
            /\ xfer' \in [Req -> {"none", "headers", "paused", "flowing", "okMsg",
                                  "errMsg", "finished"}]
        BY <4>1 DEF TypeOK
      <4>3. QED
        BY <1>22, <2>2, <4>2 DEF DropHandle, TypeOK
    <3>2. CASE slab[l][i] \notin Req
      BY <1>22, <2>2, <3>2 DEF DropHandle, TypeOK
    <3>3. QED
      BY <3>1, <3>2
<1>23. ASSUME NEW l \in Loops, Shutdown(l) PROVE TypeOK'
  <2>1. lpc[l] = "drain" /\ inBatch[l] > 0 /\ Head(queue[l]) \in LoopTask
    BY <1>23, HeadTask DEF Shutdown, HasTask
  <2>2. /\ queue' \in [Loops -> Seq(LoopTask)]
        /\ inBatch' \in [Loops -> Nat]
        /\ wakeup' = wakeup
        /\ \A k \in Loops : lpc[k] # "dead" => inBatch'[k] <= Len(queue'[k])
    BY <1>23, <2>1, TakeType DEF Shutdown
  <2>3. QED
    BY <1>23, <2>1, <2>2 DEF Shutdown, TypeOK, LoopTask
<1>24. ASSUME NEW l \in Loops, Messages(l) PROVE TypeOK'
  <2>1. resId' \in [Req -> Ids \cup {NoId}]
    BY <1>24 DEF Messages, Publish, Owned, TypeOK
  <2>2. /\ result' \in [Req -> RequestResult]
        /\ xfer' \in [Req -> {"none", "headers", "paused", "flowing", "okMsg", "errMsg",
                              "finished"}]
    BY <1>24 DEF Messages, Publish, TypeOK
  <2>3. parked' \in [Req -> BOOLEAN]
    BY <1>24 DEF Messages, TypeOK
  <2>4. /\ lpc' \in [Loops -> {"unborn", "poll", "drain", "perform", "exiting", "dead"}]
        /\ \A k \in Loops : lpc'[k] # "dead" => lpc[k] # "dead"
        /\ lastCall' \in [Loops -> BOOLEAN]
    <3>1. /\ lpc[l] = "perform"
          /\ \/ lpc' = [lpc EXCEPT ![l] = "exiting"]
             \/ lpc' = [lpc EXCEPT ![l] = "poll"]
          /\ lastCall' = lastCall \/ lastCall' = [lastCall EXCEPT ![l] = TRUE]
      BY <1>24 DEF Messages, EndOfRound
    <3>2. QED
      BY <3>1 DEF TypeOK
  <2>5. UNCHANGED <<clientVars, queue, inBatch, wakeup, slab, pc, cm, hid,
                    unpauseSent, header, buf, ownerVars, left>>
    BY <1>24 DEF Messages
  <2>6. QED
    BY <2>1, <2>2, <2>3, <2>4, <2>5 DEF TypeOK
<1>25. ASSUME NEW l \in Loops, LoopFail(l) PROVE TypeOK'
  <2>1. resId' \in [Req -> Ids \cup {NoId}]
    BY <1>25 DEF LoopFail, Owned, TypeOK
  <2>2. QED
    BY <1>25, <2>1 DEF LoopFail, TypeOK
<1>26. ASSUME NEW l \in Loops, DropInner(l) PROVE TypeOK'
  BY <1>26 DEF DropInner, GiveBack, TypeOK
<1>27. ASSUME NEW l \in Loops, NEW r \in Req, Perform(l, r) PROVE TypeOK'
  <2>1. CASE HeaderCallback(l, r)
    BY <2>1 DEF HeaderCallback, TypeOK
  <2>2. CASE WriteCallback(l, r) /\ buf[r]
    BY <2>2 DEF WriteCallback, TypeOK
  <2>3. CASE WriteCallback(l, r) /\ ~buf[r]
    <3>1. left' = [left EXCEPT ![r] = left[r] - 1] /\ left[r] > 0
      BY <2>3 DEF WriteCallback
    <3>2. left' \in [Req -> 0..MaxChunks]
      BY <3>1, ConstantsAssumption DEF TypeOK
    <3>3. /\ buf' = [buf EXCEPT ![r] = TRUE] /\ header' = [header EXCEPT ![r] = TRUE]
          /\ xfer' = [xfer EXCEPT ![r] = "flowing"]
          /\ parked' = [q \in Req |-> parked[q] /\ q \notin {r}]
      BY <2>3 DEF WriteCallback
    <3>4. /\ buf' \in [Req -> BOOLEAN] /\ header' \in [Req -> BOOLEAN]
          /\ parked' \in [Req -> BOOLEAN]
          /\ xfer' \in [Req -> {"none", "headers", "paused", "flowing", "okMsg",
                                "errMsg", "finished"}]
      BY <3>3 DEF TypeOK
    <3>5. UNCHANGED <<clientVars, loopVars, pc, cm, hid, unpauseSent, result, resId,
                      ownerVars>>
      BY <2>3 DEF WriteCallback
    <3>6. QED
      BY <3>2, <3>4, <3>5 DEF TypeOK
  <2>4. ASSUME NEW outcome \in {"okMsg", "errMsg"}, Complete(l, r, outcome)
        PROVE  TypeOK'
    BY <2>4 DEF Complete, TypeOK
  <2>5. QED
    BY <1>27, <2>1, <2>2, <2>3, <2>4 DEF Perform
<1>28. CASE UNCHANGED vars
  BY <1>28 DEF vars, TypeOK
<1>29. QED
  BY <1>1, <1>2, <1>3, <1>4, <1>5, <1>6, <1>7, <1>8, <1>9, <1>10, <1>11, <1>12, <1>13,
     <1>14, <1>15, <1>16, <1>17, <1>18, <1>19, <1>20, <1>21, <1>22, <1>23, <1>24, <1>25, <1>26, <1>27, <1>28, <1>30
     DEF Next, PollFuture, PollBody, LoopThread, DrainTask

\* Every variable keeps its type, and a loop thread never counts more tasks
\* in its batch than its queue holds.
THEOREM TypeCorrect == Spec => []TypeOK
BY TypeInit, TypeStep, PTL DEF Spec

=============================================================================
