-------------------------- MODULE CurlLoopInvariant --------------------------
(***************************************************************************)
(* IndInv is an inductive invariant of CurlLoop, and the safety properties *)
(* follow from it, some of them with a strengthening.                      *)
(***************************************************************************)
EXTENDS CurlLoopProofs

-----------------------------------------------------------------------------
(* What the queue operations do to the tasks and to their order.           *)

\* A task pushed behind tasks that may stand before it keeps a queue in order.
LEMMA AppendOrdered ==
  ASSUME NEW q \in Seq(LoopTask), NEW t \in LoopTask, Ordered(q),
         \A k \in DOMAIN q : Before(q[k], t)
  PROVE  /\ Ordered(Append(q, t))
         /\ \A k \in DOMAIN Append(q, t) :
              Append(q, t)[k] = t \/ \E j \in DOMAIN q : Append(q, t)[k] = q[j]
<1> DEFINE a == Append(q, t)
<1>1. /\ DOMAIN a = 1..(Len(q) + 1)
      /\ DOMAIN q = 1..Len(q)
      /\ \A k \in DOMAIN q : a[k] = q[k]
      /\ a[Len(q) + 1] = t
      /\ Len(q) \in Nat
  BY AppendTask
<1> HIDE DEF a
<1>2. \A j, k \in DOMAIN a : j < k => j \in DOMAIN q /\ (k \in DOMAIN q \/ k = Len(q) + 1)
  BY <1>1
<1>3. \A j, k \in DOMAIN a : j < k => Before(a[j], a[k])
  BY <1>1, <1>2 DEF Ordered
<1>4. \A k \in DOMAIN a : k \in DOMAIN q \/ k = Len(q) + 1
  BY <1>1
<1>5. QED
  BY <1>1, <1>3, <1>4 DEF Ordered, a

\* Without its first task a queue is in order, and what is left may follow it.
LEMMA TailOrdered ==
  ASSUME NEW q \in Seq(LoopTask), Len(q) > 0, Ordered(q)
  PROVE  /\ Ordered(Tail(q))
         /\ \A k \in DOMAIN Tail(q) : Before(Head(q), Tail(q)[k])
         /\ \A k \in DOMAIN Tail(q) : \E j \in DOMAIN q : Tail(q)[k] = q[j]
<1> DEFINE a == Tail(q)
<1>1. /\ DOMAIN a = 1..(Len(q) - 1)
      /\ DOMAIN q = 1..Len(q)
      /\ \A k \in DOMAIN a : k + 1 \in DOMAIN q /\ a[k] = q[k + 1]
      /\ Head(q) = q[1] /\ 1 \in DOMAIN q
      /\ Len(q) \in Nat
  BY TailTask
<1> HIDE DEF a
<1>2. \A j, k \in DOMAIN a : j < k => j + 1 < k + 1 /\ j + 1 \in DOMAIN q /\ k + 1 \in DOMAIN q
  BY <1>1
<1>3. \A k \in DOMAIN a : 1 < k + 1
  BY <1>1
<1>4. QED
  BY <1>1, <1>2, <1>3 DEF Ordered, a

LEMMA DispatchTasks ==
  ASSUME TypeOK, TaskOrder, NEW l \in Loops \cup {NoLoop}, NEW t \in LoopTask,
         Dispatch(l, t), Alive(l) => \A s \in Tasks(l) : Before(s, t)
  PROVE  /\ \A m \in Loops : \A s \in Tasks(m)' :
              s \in Tasks(m) \/ (m = l /\ Alive(l) /\ s = t)
         /\ TaskOrder'
<1>1. CASE Alive(l)
  <2>1. l \in Loops /\ queue[l] \in Seq(LoopTask)
    BY <1>1 DEF Alive, TypeOK
  <2>2. /\ Ordered(queue[l])
        /\ \A k \in DOMAIN queue[l] : Before(queue[l][k], t)
    BY <1>1, <2>1 DEF TaskOrder, Tasks
  <2>3. queue' = [queue EXCEPT ![l] = Append(queue[l], t)] /\ queue \in [Loops -> Seq(LoopTask)]
    BY <1>1 DEF Dispatch, TypeOK
  <2>4. queue'[l] = Append(queue[l], t) /\ \A m \in Loops : m # l => queue'[m] = queue[m]
    BY <2>1, <2>3
  <2>5. /\ Ordered(queue'[l])
        /\ \A k \in DOMAIN queue'[l] :
             queue'[l][k] = t \/ \E j \in DOMAIN queue[l] : queue'[l][k] = queue[l][j]
    BY <2>1, <2>2, <2>4, AppendOrdered
  <2>6. \A m \in Loops : Ordered(queue'[m])
    BY <2>4, <2>5 DEF TaskOrder
  <2>7. ASSUME NEW m \in Loops, NEW s \in Tasks(m)'
        PROVE  s \in Tasks(m) \/ (m = l /\ s = t)
    <3>1. PICK k \in DOMAIN queue'[m] : s = queue'[m][k]
      BY <2>7 DEF Tasks
    <3>2. CASE m = l
      BY <2>5, <3>1, <3>2 DEF Tasks
    <3>3. CASE m # l
      BY <2>4, <3>1, <3>3 DEF Tasks
    <3>4. QED
      BY <3>2, <3>3
  <2>8. QED
    BY <1>1, <2>6, <2>7 DEF TaskOrder
<1>2. CASE ~Alive(l)
  BY <1>2 DEF Dispatch, TaskOrder, Tasks, Ordered
<1>3. QED
  BY <1>1, <1>2

LEMMA TakeTasks ==
  ASSUME TypeOK, TaskOrder, NEW l \in Loops, lpc[l] = "drain", inBatch[l] > 0, Take(l)
  PROVE  /\ \A m \in Loops : Tasks(m)' \subseteq Tasks(m)
         /\ \A s \in Tasks(l)' : Before(Head(queue[l]), s)
         /\ TaskOrder'
<1>1. queue[l] \in Seq(LoopTask) /\ Len(queue[l]) > 0 /\ Ordered(queue[l])
  BY HeadTask DEF TypeOK, TaskOrder
<1>2. queue' = [queue EXCEPT ![l] = Tail(queue[l])] /\ queue \in [Loops -> Seq(LoopTask)]
  BY DEF Take, TypeOK
<1>3. queue'[l] = Tail(queue[l]) /\ \A m \in Loops : m # l => queue'[m] = queue[m]
  BY <1>2
<1>4. /\ Ordered(queue'[l])
      /\ \A k \in DOMAIN queue'[l] : Before(Head(queue[l]), queue'[l][k])
      /\ \A k \in DOMAIN queue'[l] : \E j \in DOMAIN queue[l] : queue'[l][k] = queue[l][j]
  BY <1>1, <1>3, TailOrdered
<1>5. \A m \in Loops : Ordered(queue'[m])
  BY <1>3, <1>4 DEF TaskOrder
<1>6. ASSUME NEW m \in Loops, NEW s \in Tasks(m)'
      PROVE  s \in Tasks(m) /\ (m = l => Before(Head(queue[l]), s))
  <2>1. PICK k \in DOMAIN queue'[m] : s = queue'[m][k]
    BY <1>6 DEF Tasks
  <2>2. CASE m = l
    BY <1>4, <2>1, <2>2 DEF Tasks
  <2>3. CASE m # l
    BY <1>3, <2>1, <2>3 DEF Tasks
  <2>4. QED
    BY <2>2, <2>3
<1>7. QED
  BY <1>5, <1>6 DEF TaskOrder

LEMMA TakeAndDispatchTasks ==
  ASSUME TypeOK, TaskOrder, NEW l \in Loops, lpc[l] = "drain", inBatch[l] > 0,
         NEW t \in LoopTask, TakeAndDispatch(l, t),
         \A k \in DOMAIN Tail(queue[l]) : Before(Tail(queue[l])[k], t)
  PROVE  /\ \A m \in Loops : \A s \in Tasks(m)' : s \in Tasks(m) \/ (m = l /\ s = t)
         /\ \A s \in Tasks(l)' : s = t \/ Before(Head(queue[l]), s)
         /\ TaskOrder'
<1>1. queue[l] \in Seq(LoopTask) /\ Len(queue[l]) > 0 /\ Ordered(queue[l])
  BY HeadTask DEF TypeOK, TaskOrder
<1>2. /\ queue' = [queue EXCEPT ![l] = Append(Tail(queue[l]), t)]
      /\ queue \in [Loops -> Seq(LoopTask)]
  BY DEF TakeAndDispatch, TypeOK
<1>3. /\ queue'[l] = Append(Tail(queue[l]), t)
      /\ \A m \in Loops : m # l => queue'[m] = queue[m]
  BY <1>2
<1> DEFINE q == Tail(queue[l])
<1>4. /\ q \in Seq(LoopTask)
      /\ Ordered(q)
      /\ \A k \in DOMAIN q : Before(Head(queue[l]), q[k])
      /\ \A k \in DOMAIN q : \E j \in DOMAIN queue[l] : q[k] = queue[l][j]
      /\ \A k \in DOMAIN q : Before(q[k], t)
  BY <1>1, TailOrdered, TailTask
<1>5. queue'[l] = Append(q, t)
  BY <1>3
<1> HIDE DEF q
<1>6. /\ Ordered(queue'[l])
      /\ \A k \in DOMAIN queue'[l] :
           queue'[l][k] = t \/ \E j \in DOMAIN q : queue'[l][k] = q[j]
  BY <1>4, <1>5, AppendOrdered
<1>7. \A m \in Loops : Ordered(queue'[m])
  BY <1>3, <1>6 DEF TaskOrder
<1>8. ASSUME NEW m \in Loops, NEW s \in Tasks(m)'
      PROVE  /\ s \in Tasks(m) \/ (m = l /\ s = t)
             /\ m = l => s = t \/ Before(Head(queue[l]), s)
  <2>1. PICK k \in DOMAIN queue'[m] : s = queue'[m][k]
    BY <1>8 DEF Tasks
  <2>2. CASE m = l
    BY <1>4, <1>6, <2>1, <2>2 DEF Tasks
  <2>3. CASE m # l
    BY <1>3, <2>1, <2>3 DEF Tasks
  <2>4. QED
    BY <2>2, <2>3
<1>9. QED
  BY <1>7, <1>8 DEF TaskOrder

-----------------------------------------------------------------------------
(* IndInv is inductive.                                                   *)

LEMMA IndInvInit == Init => IndInv
<1> SUFFICES ASSUME Init PROVE IndInv
  OBVIOUS
<1>1. TypeOK
  BY TypeInit
<1>2. \A l \in Loops : Tasks(l) = {} /\ Ordered(queue[l])
  BY DEF Init, Tasks, Ordered
<1>3. ManagersStarted /\ SlabConsistent /\ HandleConsistent /\ FutureConsistent
  BY ConstantsAssumption DEF Init, ManagersStarted, SlabConsistent, HandleConsistent,
     FutureConsistent, Held, FuturePc, BodyPc, FinalPc
<1>4. QED
  BY <1>1, <1>2, <1>3 DEF IndInv, TaskConsistent, TaskOrder

\* The steps that leave requests, keys and managers alone and add no task.
LEMMA FrameStep ==
  ASSUME IndInv, TypeOK',
         UNCHANGED <<mgr, slab, pc, cm, hid, result, resId, easy, handle>>,
         \A l \in Loops : /\ (lpc[l] = "unborn") <=> (lpc'[l] = "unborn")
                          /\ (lpc[l] = "dead") <=> (lpc'[l] = "dead")
                          /\ Tasks(l)' \subseteq Tasks(l),
         TaskOrder'
  PROVE  IndInv'
<1>1. \A l : Alive(l)' <=> Alive(l)
  BY DEF Alive
<1>2. ManagersStarted'
  BY DEF IndInv, ManagersStarted
<1>3. SlabConsistent'
  BY <1>1 DEF IndInv, SlabConsistent
<1>4. HandleConsistent'
  BY <1>1 DEF IndInv, HandleConsistent, Held
<1>5. FutureConsistent'
  BY <1>1 DEF IndInv, FutureConsistent
<1>6. TaskConsistent'
  BY <1>1 DEF IndInv, TaskConsistent, TaskOK
<1>7. QED
  BY <1>2, <1>3, <1>4, <1>5, <1>6 DEF IndInv

\* A step that puts no easy handle into a slab and takes none out.
LEMMA SlabFrame ==
  ASSUME TypeOK, SlabConsistent, slab' = slab,
         \A l \in Loops : Alive(l) => Alive(l)',
         \A r \in Req : /\ easy'[r] = "slab" <=> easy[r] = "slab"
                        /\ easy[r] = "slab" => cm'[r] = cm[r] /\ resId'[r] = resId[r]
  PROVE  SlabConsistent'
<1>1. ASSUME NEW r \in Req, easy'[r] = "slab"
      PROVE  (Alive(cm[r]) /\ resId[r] \in Ids /\ slab[cm[r]][resId[r]] = r)'
  <2>1. Alive(cm[r]) /\ resId[r] \in Ids /\ slab[cm[r]][resId[r]] = r
    BY <1>1 DEF SlabConsistent
  <2>2. cm'[r] = cm[r] /\ resId'[r] = resId[r]
    BY <1>1
  <2>3. Alive(cm[r])'
    BY <2>1, <2>2 DEF Alive
  <2>4. QED
    BY <2>1, <2>2, <2>3
<1>2. \A l \in Loops, i \in Ids : slab'[l][i] \in Req =>
        easy'[slab'[l][i]] = "slab" /\ cm'[slab'[l][i]] = l /\ resId'[slab'[l][i]] = i
  BY DEF SlabConsistent
<1>3. QED
  BY <1>1, <1>2 DEF SlabConsistent

\* A request has no task in a queue before it is submitted.
LEMMA NoTaskYet ==
  ASSUME IndInv, NEW r \in Req, easy[r] \in {"none", "client"}
  PROVE  \A l \in Loops : \A t \in Tasks(l) : t.kind # "Shutdown" => t.req # r
<1>1. handle[r] = "none"
  BY DEF IndInv, FutureConsistent
<1>2. ASSUME NEW l \in Loops, NEW t \in Tasks(l), t.kind # "Shutdown", t.req = r
      PROVE  FALSE
  <2>1. TaskOK(l, t)
    BY <1>2 DEF IndInv, TaskConsistent
  <2>2. t \in LoopTask
    BY <1>2 DEF IndInv, TypeOK, Tasks
  <2>3. t.kind \in {"Construct", "Query", "Drop", "UnpauseRecv"}
    BY <1>2, <2>2 DEF LoopTask
  <2>4. QED
    BY <1>1, <1>2, <2>1, <2>3 DEF TaskOK
<1>3. QED
  BY <1>2

\* Steps of a request future or of a body that leave the queues alone.

LEMMA BeginStep == ASSUME IndInv, TypeOK', NEW r \in Req, Begin(r) PROVE IndInv'
<1> USE DEF Begin, GoTo,
     clientVars, loopVars, futureVars, sharedVars, ownerVars, curlVars
<1>1. queue' = queue /\ slab' = slab
  BY DEF IndInv
<1>2. (\A l \in Loops : Tasks(l)' = Tasks(l)) /\ TaskOrder'
  BY <1>1 DEF IndInv, Tasks, TaskOrder, Ordered
<1>3. \A l \in Loops : Alive(l) => Alive(l)'
  BY DEF Alive, IndInv, TypeOK
<1>4. ManagersStarted'
  BY DEF IndInv, ManagersStarted, TypeOK
<1>5. SlabConsistent'
  <2>1. \A q \in Req : /\ easy'[q] = "slab" <=> easy[q] = "slab"
                       /\ easy[q] = "slab" => cm'[q] = cm[q] /\ resId'[q] = resId[q]
    BY DEF IndInv, FutureConsistent, TypeOK
  <2>2. QED
    BY <1>1, <1>3, <2>1, SlabFrame DEF IndInv
<1>6. HandleConsistent'
  BY <1>1
  DEF IndInv, HandleConsistent, Held, FutureConsistent, TypeOK, ManagersStarted, Alive
<1>7. FutureConsistent'
  BY <1>1
  DEF IndInv, HandleConsistent, Held, FutureConsistent, TypeOK, ManagersStarted, Alive,
     FuturePc, BodyPc, FinalPc
<1>8. TaskConsistent'
  BY <1>2, <1>3
  DEF IndInv, TaskConsistent, TaskOK, FutureConsistent, TypeOK, SlabConsistent
<1>9. QED
  BY <1>2, <1>4, <1>5, <1>6, <1>7, <1>8 DEF IndInv

LEMMA AcquireStep == ASSUME IndInv, TypeOK', NEW r \in Req, Acquire(r) PROVE IndInv'
<1> USE DEF Acquire, GoTo, SpawnLoop, Fresh,
     clientVars, loopVars, futureVars, sharedVars, ownerVars, curlVars
<1>1. queue' = queue /\ slab' = slab
  BY DEF IndInv
<1>2. (\A l \in Loops : Tasks(l)' = Tasks(l)) /\ TaskOrder'
  BY <1>1 DEF IndInv, Tasks, TaskOrder, Ordered
<1>3. \A l \in Loops : Alive(l) => Alive(l)'
  BY DEF Alive, IndInv, TypeOK
<1>4. ManagersStarted'
  BY DEF IndInv, ManagersStarted, TypeOK
<1>5. SlabConsistent'
  <2>1. \A q \in Req : /\ easy'[q] = "slab" <=> easy[q] = "slab"
                       /\ easy[q] = "slab" => cm'[q] = cm[q] /\ resId'[q] = resId[q]
    BY DEF IndInv, FutureConsistent, TypeOK
  <2>2. QED
    BY <1>1, <1>3, <2>1, SlabFrame DEF IndInv
<1>6. HandleConsistent'
  BY <1>1
  DEF IndInv, HandleConsistent, Held, FutureConsistent, TypeOK, ManagersStarted, Alive
<1>7. FutureConsistent'
  BY <1>1
  DEF IndInv, HandleConsistent, Held, FutureConsistent, TypeOK, ManagersStarted, Alive,
     FuturePc, BodyPc, FinalPc
<1>8. TaskConsistent'
  <2>1. \A l \in Loops : \A t \in Tasks(l) : t.kind # "Shutdown" => t.req # r
    BY NoTaskYet DEF IndInv, FutureConsistent
  <2>2. \A q \in Req : q # r => cm'[q] = cm[q]
    BY DEF IndInv, TypeOK
  <2>3. UNCHANGED <<easy, handle, hid, resId>>
    OBVIOUS
  <2>4. ASSUME NEW l \in Loops, NEW t \in Tasks(l)
        PROVE  TaskOK(l, t)'
    <3>1. TaskOK(l, t) /\ t \in LoopTask
      BY DEF IndInv, TaskConsistent, TypeOK, Tasks
    <3>2. Alive(l)'
      BY <1>3, <3>1 DEF TaskOK
    <3>3. QED
      BY <2>1, <2>2, <2>3, <3>1, <3>2 DEF TaskOK, LoopTask
  <2>5. QED
    BY <1>2, <2>4 DEF TaskConsistent
<1>9. QED
  BY <1>2, <1>4, <1>5, <1>6, <1>7, <1>8 DEF IndInv

LEMMA PollStartStep == ASSUME IndInv, TypeOK', NEW r \in Req, PollStart(r) PROVE IndInv'
<1> USE DEF PollStart, GoTo, Park,
     clientVars, loopVars, futureVars, sharedVars, ownerVars, curlVars
<1>1. queue' = queue /\ slab' = slab
  BY DEF IndInv
<1>2. (\A l \in Loops : Tasks(l)' = Tasks(l)) /\ TaskOrder'
  BY <1>1 DEF IndInv, Tasks, TaskOrder, Ordered
<1>3. \A l \in Loops : Alive(l) => Alive(l)'
  BY DEF Alive, IndInv, TypeOK
<1>4. ManagersStarted'
  BY DEF IndInv, ManagersStarted, TypeOK
<1>5. SlabConsistent'
  <2>1. \A q \in Req : /\ easy'[q] = "slab" <=> easy[q] = "slab"
                       /\ easy[q] = "slab" => cm'[q] = cm[q] /\ resId'[q] = resId[q]
    BY DEF IndInv, FutureConsistent, TypeOK
  <2>2. QED
    BY <1>1, <1>3, <2>1, SlabFrame DEF IndInv
<1>6. HandleConsistent'
  <2>1. \A l : Alive(l)' <=> Alive(l)
    BY DEF Alive
  <2>2. \A q \in Req : q # r => handle'[q] = handle[q] /\ hid'[q] = hid[q] /\ easy'[q] = easy[q]
    BY DEF IndInv, TypeOK
  <2>3. CASE result[r] \in {"InProgress", "DoneOk", "DoneErr"}
    <3>1. handle[r] = "none" /\ easy' = easy /\ hid'[r] = resId[r]
      BY <2>3 DEF IndInv, TypeOK, FutureConsistent
    <3>2. Alive(cm[r]) => easy[r] = "slab"
      BY <2>3, <3>1 DEF IndInv, FutureConsistent
    <3>3. QED
      BY <2>1, <2>2, <3>1, <3>2 DEF IndInv, HandleConsistent, Held
  <2>4. CASE result[r] \in {"Init", "EasyLost"}
    <3>1. handle' = handle /\ hid' = hid /\ handle[r] = "none"
      BY <2>4 DEF IndInv, FutureConsistent
    <3>2. QED
      BY <2>1, <2>2, <3>1 DEF IndInv, HandleConsistent, Held
  <2>5. QED
    BY <2>3, <2>4 DEF IndInv, TypeOK, RequestResult
<1>7. FutureConsistent'
  BY <1>1
  DEF IndInv, HandleConsistent, Held, FutureConsistent, TypeOK, ManagersStarted, Alive,
     FuturePc, BodyPc, FinalPc
<1>8. TaskConsistent'
  BY <1>2, <1>3
  DEF IndInv, TaskConsistent, TaskOK, FutureConsistent, TypeOK, SlabConsistent
<1>9. QED
  BY <1>2, <1>4, <1>5, <1>6, <1>7, <1>8 DEF IndInv

LEMMA ReplaceStep == ASSUME IndInv, TypeOK', NEW r \in Req, Replace(r) PROVE IndInv'
<1> USE DEF Replace, GoTo, SpawnLoop, Fresh,
     clientVars, loopVars, futureVars, sharedVars, ownerVars, curlVars
<1>1. queue' = queue /\ slab' = slab
  BY DEF IndInv
<1>2. (\A l \in Loops : Tasks(l)' = Tasks(l)) /\ TaskOrder'
  BY <1>1 DEF IndInv, Tasks, TaskOrder, Ordered
<1>3. \A l \in Loops : Alive(l) => Alive(l)'
  BY DEF Alive, IndInv, TypeOK
<1>4. ManagersStarted'
  BY DEF IndInv, ManagersStarted, TypeOK
<1>5. SlabConsistent'
  <2>1. \A q \in Req : /\ easy'[q] = "slab" <=> easy[q] = "slab"
                       /\ easy[q] = "slab" => cm'[q] = cm[q] /\ resId'[q] = resId[q]
    BY DEF IndInv, FutureConsistent, TypeOK
  <2>2. QED
    BY <1>1, <1>3, <2>1, SlabFrame DEF IndInv
<1>6. HandleConsistent'
  BY <1>1
  DEF IndInv, HandleConsistent, Held, FutureConsistent, TypeOK, ManagersStarted, Alive
<1>7. FutureConsistent'
  BY <1>1
  DEF IndInv, HandleConsistent, Held, FutureConsistent, TypeOK, ManagersStarted, Alive,
     FuturePc, BodyPc, FinalPc
<1>8. TaskConsistent'
  BY <1>2, <1>3
  DEF IndInv, TaskConsistent, TaskOK, FutureConsistent, TypeOK, SlabConsistent
<1>9. QED
  BY <1>2, <1>4, <1>5, <1>6, <1>7, <1>8 DEF IndInv

LEMMA PollWait2Step == ASSUME IndInv, TypeOK', NEW r \in Req, PollWait2(r) PROVE IndInv'
<1> USE DEF PollWait2, GoTo, Park,
     clientVars, loopVars, futureVars, sharedVars, ownerVars, curlVars
<1>1. queue' = queue /\ slab' = slab
  BY DEF IndInv
<1>2. (\A l \in Loops : Tasks(l)' = Tasks(l)) /\ TaskOrder'
  BY <1>1 DEF IndInv, Tasks, TaskOrder, Ordered
<1>3. \A l \in Loops : Alive(l) => Alive(l)'
  BY DEF Alive, IndInv, TypeOK
<1>4. ManagersStarted'
  BY DEF IndInv, ManagersStarted, TypeOK
<1>5. SlabConsistent'
  <2>1. \A q \in Req : /\ easy'[q] = "slab" <=> easy[q] = "slab"
                       /\ easy[q] = "slab" => cm'[q] = cm[q] /\ resId'[q] = resId[q]
    BY DEF IndInv, FutureConsistent, TypeOK
  <2>2. QED
    BY <1>1, <1>3, <2>1, SlabFrame DEF IndInv
<1>6. HandleConsistent'
  BY <1>1
  DEF IndInv, HandleConsistent, Held, FutureConsistent, TypeOK, ManagersStarted, Alive
<1>7. FutureConsistent'
  BY <1>1
  DEF IndInv, HandleConsistent, Held, FutureConsistent, TypeOK, ManagersStarted, Alive,
     FuturePc, BodyPc, FinalPc
<1>8. TaskConsistent'
  BY <1>2, <1>3
  DEF IndInv, TaskConsistent, TaskOK, FutureConsistent, TypeOK, SlabConsistent
<1>9. QED
  BY <1>2, <1>4, <1>5, <1>6, <1>7, <1>8 DEF IndInv

LEMMA ReadDataStep == ASSUME IndInv, TypeOK', NEW r \in Req, ReadData(r) PROVE IndInv'
<1> USE DEF ReadData, GoTo, CanRead,
     clientVars, loopVars, futureVars, sharedVars, ownerVars, curlVars
<1>1. queue' = queue /\ slab' = slab
  BY DEF IndInv
<1>2. (\A l \in Loops : Tasks(l)' = Tasks(l)) /\ TaskOrder'
  BY <1>1 DEF IndInv, Tasks, TaskOrder, Ordered
<1>3. \A l \in Loops : Alive(l) => Alive(l)'
  BY DEF Alive, IndInv, TypeOK
<1>4. ManagersStarted'
  BY DEF IndInv, ManagersStarted, TypeOK
<1>5. SlabConsistent'
  <2>1. \A q \in Req : /\ easy'[q] = "slab" <=> easy[q] = "slab"
                       /\ easy[q] = "slab" => cm'[q] = cm[q] /\ resId'[q] = resId[q]
    BY DEF IndInv, FutureConsistent, TypeOK
  <2>2. QED
    BY <1>1, <1>3, <2>1, SlabFrame DEF IndInv
<1>6. HandleConsistent'
  BY <1>1
  DEF IndInv, HandleConsistent, Held, FutureConsistent, TypeOK, ManagersStarted, Alive
<1>7. FutureConsistent'
  BY <1>1
  DEF IndInv, HandleConsistent, Held, FutureConsistent, TypeOK, ManagersStarted, Alive,
     FuturePc, BodyPc, FinalPc
<1>8. TaskConsistent'
  BY <1>2, <1>3
  DEF IndInv, TaskConsistent, TaskOK, FutureConsistent, TypeOK, SlabConsistent
<1>9. QED
  BY <1>2, <1>4, <1>5, <1>6, <1>7, <1>8 DEF IndInv

LEMMA ReadEndStep == ASSUME IndInv, TypeOK', NEW r \in Req, ReadEnd(r) PROVE IndInv'
<1> USE DEF ReadEnd, GoTo, CanRead, IsDone,
     clientVars, loopVars, futureVars, sharedVars, ownerVars, curlVars
<1>1. queue' = queue /\ slab' = slab
  BY DEF IndInv
<1>2. (\A l \in Loops : Tasks(l)' = Tasks(l)) /\ TaskOrder'
  BY <1>1 DEF IndInv, Tasks, TaskOrder, Ordered
<1>3. \A l \in Loops : Alive(l) => Alive(l)'
  BY DEF Alive, IndInv, TypeOK
<1>4. ManagersStarted'
  BY DEF IndInv, ManagersStarted, TypeOK
<1>5. SlabConsistent'
  <2>1. \A q \in Req : /\ easy'[q] = "slab" <=> easy[q] = "slab"
                       /\ easy[q] = "slab" => cm'[q] = cm[q] /\ resId'[q] = resId[q]
    BY DEF IndInv, FutureConsistent, TypeOK
  <2>2. QED
    BY <1>1, <1>3, <2>1, SlabFrame DEF IndInv
<1>6. HandleConsistent'
  BY <1>1
  DEF IndInv, HandleConsistent, Held, FutureConsistent, TypeOK, ManagersStarted, Alive
<1>7. FutureConsistent'
  BY <1>1
  DEF IndInv, HandleConsistent, Held, FutureConsistent, TypeOK, ManagersStarted, Alive,
     FuturePc, BodyPc, FinalPc
<1>8. TaskConsistent'
  BY <1>2, <1>3
  DEF IndInv, TaskConsistent, TaskOK, FutureConsistent, TypeOK, SlabConsistent
<1>9. QED
  BY <1>2, <1>4, <1>5, <1>6, <1>7, <1>8 DEF IndInv

\* Steps of a request future or of a body that push a task.

\* While the caller's side has the handle, only a request to unpause receiving
\* can be queued for it.
LEMMA ClientTasks ==
  ASSUME IndInv, NEW r \in Req, handle[r] = "client"
  PROVE  \A l \in Loops : \A t \in Tasks(l) :
           t.req = r => t.kind \in {"UnpauseRecv", "Shutdown"}
<1>1. easy[r] # "queue"
  BY DEF IndInv, FutureConsistent
<1>2. ASSUME NEW l \in Loops, NEW t \in Tasks(l), t.req = r
      PROVE  t.kind \in {"UnpauseRecv", "Shutdown"}
  <2>1. TaskOK(l, t) /\ t \in LoopTask
    BY DEF IndInv, TaskConsistent, TypeOK, Tasks
  <2>2. QED
    BY <1>1, <1>2, <2>1 DEF TaskOK, LoopTask
<1>3. QED
  BY <1>2

\* Pushing a task that agrees with its request behind tasks it may follow.
LEMMA PushTask ==
  ASSUME IndInv, NEW l \in Loops \cup {NoLoop}, NEW t \in LoopTask, Dispatch(l, t),
         Alive(l) => TaskOK(l, t)' /\ \A s \in Tasks(l) : Before(s, t),
         \A m \in Loops : \A s \in Tasks(m) : TaskOK(m, s) => TaskOK(m, s)'
  PROVE  TaskConsistent' /\ TaskOrder'
<1>1. TypeOK /\ TaskOrder /\ TaskConsistent
  BY DEF IndInv
<1>2. /\ \A m \in Loops : \A s \in Tasks(m)' :
           s \in Tasks(m) \/ (m = l /\ Alive(l) /\ s = t)
      /\ TaskOrder'
  BY <1>1, DispatchTasks
<1>3. ASSUME NEW m \in Loops, NEW s \in Tasks(m)'
      PROVE  TaskOK(m, s)'
  <2>1. CASE s \in Tasks(m)
    BY <1>1, <2>1 DEF TaskConsistent
  <2>2. CASE m = l /\ Alive(l) /\ s = t
    BY <2>2
  <2>3. QED
    BY <1>2, <2>1, <2>2
<1>4. QED
  BY <1>2, <1>3 DEF TaskConsistent

\* RequestHandle::drop on the caller's side.
LEMMA ReleaseTask ==
  ASSUME IndInv, NEW r \in Req, handle[r] = "client", ReleaseHandle(r),
         UNCHANGED <<lpc, slab, cm, hid, resId, easy>>
  PROVE  TaskConsistent' /\ TaskOrder'
<1>1. PICK l \in Loops \cup {NoLoop}, t \in LoopTask :
        l = cm[r] /\ t = Task("Drop", r, hid[r])
  BY TaskType DEF IndInv, TypeOK
<1>2. Dispatch(l, t) /\ t.kind = "Drop" /\ t.req = r /\ t.id = hid[r]
  BY <1>1 DEF ReleaseHandle, Task
<1>3. /\ handle'[r] = "gone"
      /\ \A q \in Req : q # r => handle'[q] = handle[q]
  BY DEF IndInv, TypeOK, ReleaseHandle
<1>4. \A m \in Loops : \A s \in Tasks(m) : s.req = r => s.kind \in {"UnpauseRecv", "Shutdown"}
  BY ClientTasks
<1>5. \A m : Alive(m)' <=> Alive(m)
  BY DEF Alive
<1>6. ASSUME Alive(l)
      PROVE  TaskOK(l, t)' /\ \A s \in Tasks(l) : Before(s, t)
  <2>1. easy[r] = "slab" /\ hid[r] = resId[r] /\ l \in Loops
    BY <1>1, <1>6 DEF IndInv, HandleConsistent, Held, Alive
  <2>2. Alive(l)' /\ cm'[r] = l
    BY <1>1, <1>5, <1>6
  <2>3. TaskOK(l, t)'
    BY <1>2, <1>3, <2>1, <2>2 DEF TaskOK
  <2>4. QED
    BY <1>2, <1>4, <2>1, <2>3 DEF Before
<1>7. ASSUME NEW m \in Loops, NEW s \in Tasks(m), TaskOK(m, s)
      PROVE  TaskOK(m, s)'
  <2>1. s \in LoopTask
    BY DEF IndInv, TypeOK, Tasks
  <2>2. CASE s.req = r
    BY <1>3, <1>4, <1>5, <1>7, <2>2 DEF TaskOK
  <2>3. CASE s.req # r
    BY <1>3, <1>5, <1>7, <2>1, <2>3 DEF TaskOK, LoopTask
  <2>4. QED
    BY <2>2, <2>3
<1>8. QED
  BY <1>2, <1>6, <1>7, PushTask

LEMMA CloseStep == ASSUME IndInv, TypeOK', NEW r \in Req, Close(r) PROVE IndInv'
<1> USE DEF Close, GoTo,
     clientVars, loopVars, futureVars, sharedVars, ownerVars, curlVars
<1>1. slab' = slab
  OBVIOUS
<1>2. TaskConsistent' /\ TaskOrder'
  <2>1. handle[r] = "client" /\ ReleaseHandle(r)
    BY DEF IndInv, FutureConsistent, TypeOK, BodyPc
  <2>2. UNCHANGED <<lpc, slab, cm, hid, resId, easy>>
    OBVIOUS
  <2>3. QED
    BY <2>1, <2>2, ReleaseTask
<1>3. \A l \in Loops : Alive(l)' <=> Alive(l)
  BY DEF Alive
<1>4. ManagersStarted'
  BY DEF IndInv, ManagersStarted, TypeOK
<1>5. SlabConsistent'
  <2>1. \A q \in Req : /\ easy'[q] = "slab" <=> easy[q] = "slab"
                       /\ easy[q] = "slab" => cm'[q] = cm[q] /\ resId'[q] = resId[q]
    BY DEF IndInv, FutureConsistent, TypeOK
  <2>2. QED
    BY <1>1, <1>3, <2>1, SlabFrame DEF IndInv
<1>6. HandleConsistent'
  BY DEF IndInv, HandleConsistent, Held, FutureConsistent, TypeOK, Alive, ReleaseHandle
<1>7. FutureConsistent'
  BY DEF IndInv, HandleConsistent, Held, FutureConsistent, TypeOK, Alive, ReleaseHandle,
     FuturePc, BodyPc, FinalPc
<1>8. QED
  BY <1>2, <1>4, <1>5, <1>6, <1>7 DEF IndInv

LEMMA PollWait1Step == ASSUME IndInv, TypeOK', NEW r \in Req, PollWait1(r) PROVE IndInv'
<1> USE DEF PollWait1, GoTo, Park, IsDone,
     clientVars, loopVars, futureVars, sharedVars, ownerVars, curlVars
<1>1. slab' = slab
  OBVIOUS
<1>2. TaskConsistent' /\ TaskOrder'
  <2>1. CASE result[r] = "DoneErr"
    <3>1. handle[r] = "client" /\ ReleaseHandle(r)
      BY <2>1 DEF IndInv, FutureConsistent, TypeOK, BodyPc
    <3>2. UNCHANGED <<lpc, slab, cm, hid, resId, easy>>
      BY <2>1
    <3>3. QED
      BY <3>1, <3>2, ReleaseTask
  <2>2. CASE UNCHANGED <<queue, handle>>
    <3>1. \A l \in Loops : Tasks(l)' = Tasks(l)
      BY <2>2 DEF Tasks
    <3>2. TaskOrder'
      BY <2>2 DEF IndInv, TaskOrder, Ordered
    <3>3. TaskConsistent'
      BY <2>2, <3>1 DEF IndInv, TaskConsistent, TaskOK, Alive, FutureConsistent, TypeOK
    <3>4. QED
      BY <3>2, <3>3
  <2>3. QED
    BY <2>1, <2>2
<1>3. \A l \in Loops : Alive(l)' <=> Alive(l)
  BY DEF Alive
<1>4. ManagersStarted'
  BY DEF IndInv, ManagersStarted, TypeOK
<1>5. SlabConsistent'
  <2>1. \A q \in Req : /\ easy'[q] = "slab" <=> easy[q] = "slab"
                       /\ easy[q] = "slab" => cm'[q] = cm[q] /\ resId'[q] = resId[q]
    BY DEF IndInv, FutureConsistent, TypeOK
  <2>2. QED
    BY <1>1, <1>3, <2>1, SlabFrame DEF IndInv
<1>6. HandleConsistent'
  BY DEF IndInv, HandleConsistent, Held, FutureConsistent, TypeOK, Alive, ReleaseHandle
<1>7. FutureConsistent'
  BY DEF IndInv, HandleConsistent, Held, FutureConsistent, TypeOK, Alive, ReleaseHandle,
     FuturePc, BodyPc, FinalPc
<1>8. QED
  BY <1>2, <1>4, <1>5, <1>6, <1>7 DEF IndInv

LEMMA CancelStep == ASSUME IndInv, TypeOK', NEW r \in Req, Cancel(r) PROVE IndInv'
<1> USE DEF Cancel, GoTo,
     clientVars, loopVars, futureVars, sharedVars, ownerVars, curlVars
<1>1. slab' = slab
  OBVIOUS
<1>2. TaskConsistent' /\ TaskOrder'
  <2>1. CASE pc[r] = "wait1"
    <3>1. handle[r] = "client" /\ ReleaseHandle(r)
      BY <2>1 DEF IndInv, FutureConsistent, TypeOK, BodyPc
    <3>2. UNCHANGED <<lpc, slab, cm, hid, resId, easy>>
      BY <2>1
    <3>3. QED
      BY <3>1, <3>2, ReleaseTask
  <2>2. CASE pc[r] # "wait1"
    <3>1. \A l \in Loops : Tasks(l)' = Tasks(l)
      BY <2>2 DEF Tasks
    <3>2. TaskOrder'
      BY <2>2 DEF IndInv, TaskOrder, Ordered
    <3>3. TaskConsistent'
      BY <2>2, <3>1 DEF IndInv, TaskConsistent, TaskOK, Alive, FutureConsistent, TypeOK
    <3>4. QED
      BY <3>2, <3>3
  <2>3. QED
    BY <2>1, <2>2
<1>3. \A l \in Loops : Alive(l)' <=> Alive(l)
  BY DEF Alive
<1>4. ManagersStarted'
  BY DEF IndInv, ManagersStarted, TypeOK
<1>5. SlabConsistent'
  <2>1. \A q \in Req : /\ easy'[q] = "slab" <=> easy[q] = "slab"
                       /\ easy[q] = "slab" => cm'[q] = cm[q] /\ resId'[q] = resId[q]
    BY DEF IndInv, FutureConsistent, TypeOK
  <2>2. QED
    BY <1>1, <1>3, <2>1, SlabFrame DEF IndInv
<1>6. HandleConsistent'
  BY DEF IndInv, HandleConsistent, Held, FutureConsistent, TypeOK, Alive, ReleaseHandle
<1>7. FutureConsistent'
  BY DEF IndInv, HandleConsistent, Held, FutureConsistent, TypeOK, Alive, ReleaseHandle,
     FuturePc, BodyPc, FinalPc
<1>8. QED
  BY <1>2, <1>4, <1>5, <1>6, <1>7 DEF IndInv

LEMMA SubmitStep == ASSUME IndInv, TypeOK', NEW r \in Req, Submit(r) PROVE IndInv'
<1> USE DEF Submit, GoTo,
     clientVars, loopVars, futureVars, sharedVars, ownerVars, curlVars
<1>1. slab' = slab
  OBVIOUS
<1>2. TaskConsistent' /\ TaskOrder'
  <2>1. PICK l \in Loops \cup {NoLoop}, t \in LoopTask :
          l = cm[r] /\ t = Task("Construct", r, NoId)
    BY TaskType DEF IndInv, TypeOK
  <2>2. /\ Dispatch(l, t)
        /\ t.kind = "Construct" /\ t.req = r /\ t.id = NoId
    BY <2>1 DEF Task
  <2>3. \A m \in Loops : \A s \in Tasks(m) : s.kind # "Shutdown" => s.req # r
    BY NoTaskYet DEF IndInv, FutureConsistent
  <2>4. \A m : Alive(m)' <=> Alive(m)
    BY DEF Alive
  <2>5. ASSUME Alive(l)
        PROVE  TaskOK(l, t)' /\ \A s \in Tasks(l) : Before(s, t)
    BY <2>1, <2>2, <2>3, <2>4, <2>5 DEF TaskOK, Before, Alive, IndInv, TypeOK
  <2>6. ASSUME NEW m \in Loops, NEW s \in Tasks(m), TaskOK(m, s)
        PROVE  TaskOK(m, s)'
    <3>1. s \in LoopTask
      BY DEF IndInv, TypeOK, Tasks
    <3>2. CASE s.req = r
      BY <2>3, <2>4, <2>6, <3>1, <3>2 DEF TaskOK, LoopTask
    <3>3. CASE s.req # r
      BY <2>4, <2>6, <3>1, <3>3 DEF TaskOK, LoopTask, IndInv, TypeOK
    <3>4. QED
      BY <3>2, <3>3
  <2>7. QED
    BY <2>2, <2>5, <2>6, PushTask
<1>3. \A l \in Loops : Alive(l)' <=> Alive(l)
  BY DEF Alive
<1>4. ManagersStarted'
  BY DEF IndInv, ManagersStarted, TypeOK
<1>5. SlabConsistent'
  <2>1. \A q \in Req : /\ easy'[q] = "slab" <=> easy[q] = "slab"
                       /\ easy[q] = "slab" => cm'[q] = cm[q] /\ resId'[q] = resId[q]
    BY DEF IndInv, FutureConsistent, TypeOK
  <2>2. QED
    BY <1>1, <1>3, <2>1, SlabFrame DEF IndInv
<1>6. HandleConsistent'
  BY DEF IndInv, HandleConsistent, Held, FutureConsistent, TypeOK, Alive, ReleaseHandle
<1>7. FutureConsistent'
  BY DEF IndInv, HandleConsistent, Held, FutureConsistent, TypeOK, Alive, ReleaseHandle,
     FuturePc, BodyPc, FinalPc
<1>8. QED
  BY <1>2, <1>4, <1>5, <1>6, <1>7 DEF IndInv

LEMMA SubmitRefusedStep ==
  ASSUME IndInv, TypeOK', NEW r \in Req, SubmitRefused(r)
  PROVE  IndInv'
<1> USE DEF SubmitRefused, GoTo,
     clientVars, loopVars, futureVars, sharedVars, ownerVars, curlVars
<1>1. /\ pc[r] = "submit" /\ pc'[r] = "replace"
      /\ \A q \in Req : q # r => pc'[q] = pc[q]
      /\ UNCHANGED <<mgr, loopVars, cm, hid, sharedVars, ownerVars>>
  BY DEF IndInv, TypeOK
<1>2. /\ \A l \in Loops : Tasks(l)' \subseteq Tasks(l)
      /\ TaskOrder'
  BY <1>1 DEF Tasks, IndInv, TaskOrder
<1>3. ManagersStarted' /\ SlabConsistent' /\ HandleConsistent' /\ TaskConsistent'
  BY <1>1, <1>2 DEF IndInv, ManagersStarted, SlabConsistent, HandleConsistent, Held,
     Alive, TaskConsistent, TaskOK, Tasks
<1>4. FutureConsistent'
  BY <1>1 DEF IndInv, FutureConsistent, Alive, FuturePc, BodyPc, FinalPc
<1>5. QED
  BY <1>2, <1>3, <1>4 DEF IndInv

LEMMA SendQueryStep == ASSUME IndInv, TypeOK', NEW r \in Req, SendQuery(r) PROVE IndInv'
<1> USE DEF SendQuery, GoTo,
     clientVars, loopVars, futureVars, sharedVars, ownerVars, curlVars
<1>1. slab' = slab
  OBVIOUS
<1>2. TaskConsistent' /\ TaskOrder'
  <2>1. PICK l \in Loops \cup {NoLoop}, t \in LoopTask :
          l = cm[r] /\ t = Task("Query", r, hid[r])
    BY TaskType DEF IndInv, TypeOK
  <2>2. /\ Dispatch(l, t)
        /\ t.kind = "Query" /\ t.req = r /\ t.id = hid[r]
    BY <2>1 DEF Task
  <2>3. \A m \in Loops : \A s \in Tasks(m) : s.req = r => s.kind \in {"UnpauseRecv", "Shutdown"}
    BY ClientTasks DEF IndInv, FutureConsistent
  <2>4. \A m : Alive(m)' <=> Alive(m)
    BY DEF Alive
  <2>5. ASSUME Alive(l)
        PROVE  TaskOK(l, t)' /\ \A s \in Tasks(l) : Before(s, t)
    <3>1. /\ Alive(cm[r]) /\ l \in Loops /\ Alive(l)'
          /\ handle'[r] = "task" /\ hid'[r] = hid[r] /\ cm'[r] = l
      BY <2>1, <2>4, <2>5 DEF IndInv, TypeOK, Alive
    <3>2. TaskOK(l, t)'
      BY <2>2, <3>1 DEF TaskOK
    <3>3. QED
      BY <2>2, <2>3, <3>1, <3>2 DEF Before
  <2>6. ASSUME NEW m \in Loops, NEW s \in Tasks(m), TaskOK(m, s)
        PROVE  TaskOK(m, s)'
    <3>1. s \in LoopTask
      BY DEF IndInv, TypeOK, Tasks
    <3>2. CASE s.req = r
      BY <2>3, <2>4, <2>6, <3>1, <3>2 DEF TaskOK, LoopTask
    <3>3. CASE s.req # r
      BY <2>4, <2>6, <3>1, <3>3 DEF TaskOK, LoopTask, IndInv, TypeOK
    <3>4. QED
      BY <3>2, <3>3
  <2>7. QED
    BY <2>2, <2>5, <2>6, PushTask
<1>3. \A l \in Loops : Alive(l)' <=> Alive(l)
  BY DEF Alive
<1>4. ManagersStarted'
  BY DEF IndInv, ManagersStarted, TypeOK
<1>5. SlabConsistent'
  <2>1. \A q \in Req : /\ easy'[q] = "slab" <=> easy[q] = "slab"
                       /\ easy[q] = "slab" => cm'[q] = cm[q] /\ resId'[q] = resId[q]
    BY DEF IndInv, FutureConsistent, TypeOK
  <2>2. QED
    BY <1>1, <1>3, <2>1, SlabFrame DEF IndInv
<1>6. HandleConsistent'
  BY DEF IndInv, HandleConsistent, Held, FutureConsistent, TypeOK, Alive, ReleaseHandle
<1>7. FutureConsistent'
  BY DEF IndInv, HandleConsistent, Held, FutureConsistent, TypeOK, Alive, ReleaseHandle,
     FuturePc, BodyPc, FinalPc
<1>8. QED
  BY <1>2, <1>4, <1>5, <1>6, <1>7 DEF IndInv

LEMMA ReadWaitStep == ASSUME IndInv, TypeOK', NEW r \in Req, ReadWait(r) PROVE IndInv'
<1> USE DEF ReadWait, GoTo, Park, CanRead, IsDone,
     clientVars, loopVars, futureVars, sharedVars, ownerVars, curlVars
<1>1. slab' = slab
  OBVIOUS
<1>2. TaskConsistent' /\ TaskOrder'
  <2>1. CASE unpauseSent[r]
    <3>1. queue' = queue /\ \A l \in Loops : Tasks(l)' = Tasks(l)
      BY <2>1 DEF Tasks
    <3>2. TaskOrder'
      BY <3>1 DEF IndInv, TaskOrder, Ordered
    <3>3. TaskConsistent'
      BY <3>1 DEF IndInv, TaskConsistent, TaskOK, Alive
    <3>4. QED
      BY <3>2, <3>3
  <2>2. CASE ~unpauseSent[r]
    <3>1. PICK l \in Loops \cup {NoLoop}, t \in LoopTask :
            l = cm[r] /\ t = Task("UnpauseRecv", r, hid[r])
      BY TaskType DEF IndInv, TypeOK
    <3>2. /\ Dispatch(l, t)
          /\ t.kind = "UnpauseRecv" /\ t.req = r /\ t.id = hid[r]
      BY <2>2, <3>1 DEF Task
    <3>3. \A m \in Loops : \A s \in Tasks(m) : s.req = r => s.kind \in {"UnpauseRecv", "Shutdown"}
      BY ClientTasks DEF IndInv, FutureConsistent, BodyPc
    <3>4. \A m : Alive(m)' <=> Alive(m)
      BY DEF Alive
    <3>5. ASSUME Alive(l)
          PROVE  TaskOK(l, t)' /\ \A s \in Tasks(l) : Before(s, t)
      <4>1. easy[r] = "slab" /\ hid[r] = resId[r]
        BY <3>1, <3>5 DEF IndInv, FutureConsistent, HandleConsistent, Held, BodyPc
      <4>2. QED
        BY <3>1, <3>2, <3>3, <3>4, <3>5, <4>1 DEF TaskOK, Before, Alive, IndInv, TypeOK
    <3>6. ASSUME NEW m \in Loops, NEW s \in Tasks(m), TaskOK(m, s)
          PROVE  TaskOK(m, s)'
      <4>1. s \in LoopTask
        BY DEF IndInv, TypeOK, Tasks
      <4>2. CASE s.req = r
        BY <3>3, <3>4, <3>6, <4>1, <4>2 DEF TaskOK, LoopTask
      <4>3. CASE s.req # r
        BY <3>4, <3>6, <4>1, <4>3 DEF TaskOK, LoopTask, IndInv, TypeOK
      <4>4. QED
        BY <4>2, <4>3
    <3>7. QED
      BY <3>2, <3>5, <3>6, PushTask
  <2>3. QED
    BY <2>1, <2>2
<1>3. \A l \in Loops : Alive(l)' <=> Alive(l)
  BY DEF Alive
<1>4. ManagersStarted'
  BY DEF IndInv, ManagersStarted, TypeOK
<1>5. SlabConsistent'
  <2>1. \A q \in Req : /\ easy'[q] = "slab" <=> easy[q] = "slab"
                       /\ easy[q] = "slab" => cm'[q] = cm[q] /\ resId'[q] = resId[q]
    BY DEF IndInv, FutureConsistent, TypeOK
  <2>2. QED
    BY <1>1, <1>3, <2>1, SlabFrame DEF IndInv
<1>6. HandleConsistent'
  BY DEF IndInv, HandleConsistent, Held, FutureConsistent, TypeOK, Alive, ReleaseHandle
<1>7. FutureConsistent'
  BY DEF IndInv, HandleConsistent, Held, FutureConsistent, TypeOK, Alive, ReleaseHandle,
     FuturePc, BodyPc, FinalPc
<1>8. QED
  BY <1>2, <1>4, <1>5, <1>6, <1>7 DEF IndInv

LEMMA DropClientStep == ASSUME IndInv, TypeOK', DropClient PROVE IndInv'
<1> USE DEF DropClient, GoTo,
     clientVars, loopVars, futureVars, sharedVars, ownerVars, curlVars
<1>1. slab' = slab
  OBVIOUS
<1>2. TaskConsistent' /\ TaskOrder'
  <2>1. PICK l \in Loops \cup {NoLoop}, t \in LoopTask :
          l = mgr /\ t = Task("Shutdown", NoReq, NoId)
    BY TaskType DEF IndInv, TypeOK
  <2>2. /\ Dispatch(l, t)
        /\ t.kind = "Shutdown" /\ t.req = NoReq /\ t.id = NoId
    BY <2>1 DEF Task
  <2>3. \A m \in Loops : \A s \in Tasks(m) : s.kind # "Shutdown" => s.req # NoReq
    BY ConstantsAssumption DEF IndInv, TaskConsistent, TaskOK
  <2>4. \A m : Alive(m)' <=> Alive(m)
    BY DEF Alive
  <2>5. ASSUME Alive(l)
        PROVE  TaskOK(l, t)' /\ \A s \in Tasks(l) : Before(s, t)
    BY <2>1, <2>2, <2>3, <2>4, <2>5 DEF TaskOK, Before, Alive
  <2>6. ASSUME NEW m \in Loops, NEW s \in Tasks(m), TaskOK(m, s)
        PROVE  TaskOK(m, s)'
    <3>1. s \in LoopTask
      BY DEF IndInv, TypeOK, Tasks
    <3>2. CASE s.req = NoReq
      BY <2>3, <2>4, <2>6, <3>2 DEF TaskOK
    <3>3. CASE s.req # NoReq
      BY <2>4, <2>6, <3>1, <3>3 DEF TaskOK, LoopTask, IndInv, TypeOK
    <3>4. QED
      BY <3>2, <3>3
  <2>7. QED
    BY <2>2, <2>5, <2>6, PushTask
<1>3. \A l \in Loops : Alive(l)' <=> Alive(l)
  BY DEF Alive
<1>4. ManagersStarted'
  BY DEF IndInv, ManagersStarted, TypeOK
<1>5. SlabConsistent'
  <2>1. \A q \in Req : /\ easy'[q] = "slab" <=> easy[q] = "slab"
                       /\ easy[q] = "slab" => cm'[q] = cm[q] /\ resId'[q] = resId[q]
    BY DEF IndInv, FutureConsistent, TypeOK
  <2>2. QED
    BY <1>1, <1>3, <2>1, SlabFrame DEF IndInv
<1>6. HandleConsistent'
  BY DEF IndInv, HandleConsistent, Held, FutureConsistent, TypeOK, Alive, ReleaseHandle
<1>7. FutureConsistent'
  BY DEF IndInv, HandleConsistent, Held, FutureConsistent, TypeOK, Alive, ReleaseHandle,
     FuturePc, BodyPc, FinalPc
<1>8. QED
  BY <1>2, <1>4, <1>5, <1>6, <1>7 DEF IndInv

\* Steps of a loop thread.

\* What the task at the head of the batch says, and what may follow it.
LEMMA TakeHead ==
  ASSUME IndInv, NEW l \in Loops, lpc[l] = "drain", inBatch[l] > 0, Take(l)
  PROVE  /\ Head(queue[l]) \in LoopTask
         /\ TaskOK(l, Head(queue[l]))
         /\ \A m \in Loops : \A s \in Tasks(m)' : TaskOK(m, s) /\ s \in LoopTask
         /\ \A s \in Tasks(l)' : Before(Head(queue[l]), s)
         /\ \A m \in Loops : Tasks(m)' \subseteq Tasks(m)
         /\ TaskOrder'
<1>1. TypeOK /\ TaskOrder /\ TaskConsistent
  BY DEF IndInv
<1>2. queue[l] \in Seq(LoopTask) /\ Len(queue[l]) > 0
  BY <1>1, HeadTask DEF TypeOK
<1>3. Head(queue[l]) \in Tasks(l)
  BY <1>2, TailTask DEF Tasks
<1>4. \A m \in Loops : \A s \in Tasks(m) : s \in LoopTask
  BY <1>1 DEF TypeOK, Tasks
<1>5. QED
  BY <1>1, <1>3, <1>4, TakeTasks DEF TaskConsistent

\* Steps that publish an outcome for easy handles in the slab of the thread.
LEMMA PublishStep ==
  ASSUME IndInv, TypeOK', NEW l \in Loops, NEW S \in SUBSET Owned(l),
         UNCHANGED <<mgr, slab, pc, cm, hid, easy, handle>>,
         \A r \in Req : r \in S => result'[r] \in {"DoneOk", "DoneErr"}
                                   /\ resId'[r] \in Ids /\ slab[l][resId'[r]] = r,
         \A r \in Req : r \notin S => result'[r] = result[r] /\ resId'[r] = resId[r],
         \A k \in Loops : /\ (lpc[k] = "unborn") <=> (lpc'[k] = "unborn")
                          /\ (lpc[k] = "dead") <=> (lpc'[k] = "dead")
                          /\ Tasks(k)' \subseteq Tasks(k),
         TaskOrder'
  PROVE  IndInv'
<1>1. \A r \in S : r \in Req /\ easy[r] = "slab" /\ cm[r] = l
  BY DEF IndInv, SlabConsistent, Owned
<1>2. \A r \in Req : r \in S => resId'[r] = resId[r]
  BY DEF IndInv, SlabConsistent
<1>3. \A r \in Req : resId'[r] = resId[r]
  BY <1>2
<1>4. \A k : Alive(k)' <=> Alive(k)
  BY DEF Alive
<1>5. ManagersStarted'
  BY DEF IndInv, ManagersStarted
<1>6. SlabConsistent'
  BY <1>3, <1>4, SlabFrame DEF IndInv
<1>7. HandleConsistent'
  BY <1>3, <1>4 DEF IndInv, HandleConsistent, Held
<1>8. FutureConsistent'
  BY <1>1, <1>4 DEF IndInv, FutureConsistent
<1>9. TaskConsistent'
  <2>1. ASSUME NEW m \in Loops, NEW t \in Tasks(m)' PROVE TaskOK(m, t)'
    <3>1. t \in Tasks(m)
      BY <2>1
    <3>2. TaskOK(m, t) /\ t \in LoopTask
      BY <3>1 DEF IndInv, TaskConsistent, TypeOK, Tasks
    <3>3. QED
      BY <1>3, <1>4, <3>2 DEF TaskOK, LoopTask
  <2>2. QED
    BY <2>1 DEF TaskConsistent
<1>10. QED
  BY <1>5, <1>6, <1>7, <1>8, <1>9 DEF IndInv

LEMMA PollReturnStep == ASSUME IndInv, TypeOK', NEW l \in Loops, PollReturn(l) PROVE IndInv'
<1> USE DEF PollReturn, clientVars, loopVars, futureVars, sharedVars, ownerVars, curlVars
<1>1. (\A k \in Loops : Tasks(k)' \subseteq Tasks(k)) /\ TaskOrder'
  BY DEF Tasks, IndInv, TaskOrder, Ordered
<1>2. \A k \in Loops : /\ (lpc[k] = "unborn") <=> (lpc'[k] = "unborn")
                       /\ (lpc[k] = "dead") <=> (lpc'[k] = "dead")
  BY DEF IndInv, TypeOK
<1>3. QED
  BY <1>1, <1>2, FrameStep

LEMMA DrainDoneStep == ASSUME IndInv, TypeOK', NEW l \in Loops, DrainDone(l) PROVE IndInv'
<1> USE DEF DrainDone, clientVars, loopVars, futureVars, sharedVars, ownerVars, curlVars
<1>1. (\A k \in Loops : Tasks(k)' \subseteq Tasks(k)) /\ TaskOrder'
  BY DEF Tasks, IndInv, TaskOrder, Ordered
<1>2. \A k \in Loops : /\ (lpc[k] = "unborn") <=> (lpc'[k] = "unborn")
                       /\ (lpc[k] = "dead") <=> (lpc'[k] = "dead")
  BY DEF IndInv, TypeOK
<1>3. QED
  BY <1>1, <1>2, FrameStep

LEMMA UnpauseRecvStep == ASSUME IndInv, TypeOK', NEW l \in Loops, UnpauseRecv(l) PROVE IndInv'
<1> USE DEF UnpauseRecv, clientVars, loopVars, futureVars, sharedVars, ownerVars, curlVars
<1>1. (\A k \in Loops : Tasks(k)' \subseteq Tasks(k)) /\ TaskOrder'
  BY TakeHead DEF HasTask
<1>2. \A k \in Loops : /\ (lpc[k] = "unborn") <=> (lpc'[k] = "unborn")
                       /\ (lpc[k] = "dead") <=> (lpc'[k] = "dead")
  BY DEF IndInv, TypeOK
<1>3. QED
  BY <1>1, <1>2, FrameStep

LEMMA ShutdownStep == ASSUME IndInv, TypeOK', NEW l \in Loops, Shutdown(l) PROVE IndInv'
<1> USE DEF Shutdown, clientVars, loopVars, futureVars, sharedVars, ownerVars, curlVars
<1>1. (\A k \in Loops : Tasks(k)' \subseteq Tasks(k)) /\ TaskOrder'
  BY TakeHead DEF HasTask
<1>2. \A k \in Loops : /\ (lpc[k] = "unborn") <=> (lpc'[k] = "unborn")
                       /\ (lpc[k] = "dead") <=> (lpc'[k] = "dead")
  BY DEF IndInv, TypeOK
<1>3. QED
  BY <1>1, <1>2, FrameStep

LEMMA PerformStep == ASSUME IndInv, TypeOK', NEW l \in Loops, NEW r \in Req, Perform(l, r) PROVE IndInv'
<1> USE DEF Perform, HeaderCallback, WriteCallback, Complete, clientVars, loopVars, futureVars, sharedVars, ownerVars, curlVars
<1>1. (\A k \in Loops : Tasks(k)' \subseteq Tasks(k)) /\ TaskOrder'
  BY DEF Tasks, IndInv, TaskOrder, Ordered
<1>2. \A k \in Loops : /\ (lpc[k] = "unborn") <=> (lpc'[k] = "unborn")
                       /\ (lpc[k] = "dead") <=> (lpc'[k] = "dead")
  BY DEF IndInv, TypeOK
<1>3. QED
  BY <1>1, <1>2, FrameStep

LEMMA UnpauseRecvFailedStep ==
  ASSUME IndInv, TypeOK', NEW l \in Loops, UnpauseRecvFailed(l) PROVE IndInv'
<1> USE DEF UnpauseRecvFailed, HasTask, clientVars, loopVars, futureVars, sharedVars, ownerVars, curlVars
<1>1. Take(l) /\ lpc[l] = "drain" /\ inBatch[l] > 0
  OBVIOUS
<1>2. PICK i \in Ids \cup {NoId} : i = Head(queue[l]).id
  BY HeadTask DEF IndInv, LoopTask
<1>3. PICK o \in Req : o = slab[l][i]
  BY <1>2
<1>4. /\ result' = [result EXCEPT ![o] = "DoneErr"]
      /\ resId' = [resId EXCEPT ![o] = i]
  BY <1>2, <1>3
<1>5. i \in Ids
  <2>1. TaskOK(l, Head(queue[l])) /\ Head(queue[l]).kind = "UnpauseRecv"
    BY <1>1, TakeHead
  <2> DEFINE q == Head(queue[l]).req
  <2>2. q \in Req /\ easy[q] = "slab" /\ i = resId[q]
    BY <1>2, <2>1 DEF TaskOK
  <2>3. \A r \in Req : easy[r] = "slab" => resId[r] \in Ids
    BY DEF IndInv, SlabConsistent
  <2>4. QED
    BY ONLY <2>2, <2>3
<1>6. {o} \in SUBSET Owned(l)
  BY <1>3, <1>5 DEF Owned
<1>7. (\A k \in Loops : Tasks(k)' \subseteq Tasks(k)) /\ TaskOrder'
  BY <1>1, TakeHead
<1>8. /\ result'[o] = "DoneErr" /\ resId'[o] = i
      /\ \A r \in Req : r # o => result'[r] = result[r] /\ resId'[r] = resId[r]
  <2>1. result \in [Req -> RequestResult] /\ resId \in [Req -> Ids \cup {NoId}] /\ o \in Req
    BY <1>3 DEF IndInv, TypeOK
  <2>2. QED
    BY ONLY <1>4, <2>1
<1>9. \A k \in Loops : /\ (lpc[k] = "unborn") <=> (lpc'[k] = "unborn")
                       /\ (lpc[k] = "dead") <=> (lpc'[k] = "dead")
                       /\ Tasks(k)' \subseteq Tasks(k)
  BY <1>7
<1>10. PICK S \in SUBSET Owned(l) : S = {o}
  BY <1>6
<1>11. /\ \A r \in Req : r \in S => result'[r] \in {"DoneOk", "DoneErr"}
                                    /\ resId'[r] \in Ids /\ slab[l][resId'[r]] = r
       /\ \A r \in Req : r \notin S => result'[r] = result[r] /\ resId'[r] = resId[r]
  BY <1>3, <1>5, <1>8, <1>10
<1>12. UNCHANGED <<mgr, slab, pc, cm, hid, easy, handle>> /\ TaskOrder'
  BY <1>7
<1> HIDE DEF UnpauseRecvFailed, HasTask
<1>13. QED
  BY <1>9, <1>11, <1>12, PublishStep

LEMMA MessagesStep == ASSUME IndInv, TypeOK', NEW l \in Loops, Messages(l) PROVE IndInv'
<1> USE DEF Messages, Publish, EndOfRound, clientVars, loopVars, futureVars, sharedVars, ownerVars, curlVars
<1>1. PICK S \in SUBSET Owned(l) : S = {r \in Owned(l) : xfer[r] \in {"okMsg", "errMsg"}}
  OBVIOUS
<1>2. \A r \in Req : r \in S =>
        result'[r] \in {"DoneOk", "DoneErr"} /\ resId'[r] = CHOOSE i \in Ids : slab[l][i] = r
  BY <1>1
<1>3. \A r \in Req : r \in S => \E i \in Ids : slab[l][i] = r
  BY DEF Owned
<1>4. \A r \in Req : r \in S => resId'[r] \in Ids /\ slab[l][resId'[r]] = r
  BY <1>2, <1>3
<1>5. \A r \in Req : r \notin S => result'[r] = result[r] /\ resId'[r] = resId[r]
  BY <1>1
<1>6. (\A k \in Loops : Tasks(k)' \subseteq Tasks(k)) /\ TaskOrder'
  BY DEF Tasks, IndInv, TaskOrder, Ordered
<1>7. \A k \in Loops : /\ (lpc[k] = "unborn") <=> (lpc'[k] = "unborn")
                       /\ (lpc[k] = "dead") <=> (lpc'[k] = "dead")
  BY DEF IndInv, TypeOK
<1>8. UNCHANGED <<mgr, slab, pc, cm, hid, easy, handle>>
  OBVIOUS
<1>9. \A k \in Loops : /\ (lpc[k] = "unborn") <=> (lpc'[k] = "unborn")
                       /\ (lpc[k] = "dead") <=> (lpc'[k] = "dead")
                       /\ Tasks(k)' \subseteq Tasks(k)
  BY <1>6, <1>7
<1>10. \A r \in Req : r \in S => result'[r] \in {"DoneOk", "DoneErr"}
                                /\ resId'[r] \in Ids /\ slab[l][resId'[r]] = r
  BY <1>2, <1>4
<1> HIDE DEF Messages, Publish, EndOfRound
<1>11. QED
  BY <1>5, <1>6, <1>8, <1>9, <1>10, PublishStep

LEMMA LoopFailStep == ASSUME IndInv, TypeOK', NEW l \in Loops, LoopFail(l) PROVE IndInv'
<1> USE DEF LoopFail, clientVars, loopVars, futureVars, sharedVars, ownerVars, curlVars
<1>1. PICK S \in SUBSET Owned(l) : S = {r \in Owned(l) : ~IsDone(r)}
  OBVIOUS
<1>2. \A r \in Req : r \in S =>
        result'[r] = "DoneErr" /\ resId'[r] = CHOOSE i \in Ids : slab[l][i] = r
  BY <1>1
<1>3. \A r \in Req : r \in S => \E i \in Ids : slab[l][i] = r
  BY DEF Owned
<1>4. \A r \in Req : r \in S => resId'[r] \in Ids /\ slab[l][resId'[r]] = r
  BY <1>2, <1>3
<1>5. \A r \in Req : r \notin S => result'[r] = result[r] /\ resId'[r] = resId[r]
  BY <1>1
<1>6. (\A k \in Loops : Tasks(k)' \subseteq Tasks(k)) /\ TaskOrder'
  BY DEF Tasks, IndInv, TaskOrder, Ordered
<1>7. \A k \in Loops : /\ (lpc[k] = "unborn") <=> (lpc'[k] = "unborn")
                       /\ (lpc[k] = "dead") <=> (lpc'[k] = "dead")
  BY DEF IndInv, TypeOK
<1>8. UNCHANGED <<mgr, slab, pc, cm, hid, easy, handle>>
  OBVIOUS
<1>9. \A k \in Loops : /\ (lpc[k] = "unborn") <=> (lpc'[k] = "unborn")
                       /\ (lpc[k] = "dead") <=> (lpc'[k] = "dead")
                       /\ Tasks(k)' \subseteq Tasks(k)
  BY <1>6, <1>7
<1>10. \A r \in Req : r \in S => result'[r] \in {"DoneOk", "DoneErr"}
                                /\ resId'[r] \in Ids /\ slab[l][resId'[r]] = r
  BY <1>2, <1>4
<1> HIDE DEF LoopFail
<1>11. QED
  BY <1>5, <1>6, <1>8, <1>9, <1>10, PublishStep

\* ConstructHandle: the easy handle moves from its task into the slab.
LEMMA ConstructHandleStep ==
  ASSUME IndInv, TypeOK', NEW l \in Loops, ConstructHandle(l) PROVE IndInv'
<1> USE DEF clientVars, loopVars, futureVars, sharedVars, ownerVars, curlVars
<1>1. Take(l) /\ lpc[l] = "drain" /\ inBatch[l] > 0 /\ Head(queue[l]).kind = "Construct"
  BY DEF ConstructHandle, HasTask
<1>2. /\ TaskOK(l, Head(queue[l]))
      /\ \A m \in Loops : \A s \in Tasks(m)' : TaskOK(m, s) /\ s \in LoopTask
      /\ \A s \in Tasks(l)' : Before(Head(queue[l]), s)
      /\ TaskOrder'
  BY <1>1, TakeHead
<1>3. PICK r \in Req : r = Head(queue[l]).req
  BY <1>1, <1>2 DEF TaskOK
<1>4. /\ easy[r] = "queue" /\ cm[r] = l /\ Alive(l)
      /\ handle[r] = "none" /\ result[r] = "Init"
      /\ pc[r] \notin {"acquire", "submit", "replace", "idle", "wait1", "query"} \cup BodyPc
  BY <1>1, <1>2, <1>3 DEF TaskOK, IndInv, FutureConsistent
<1>5. PICK i \in Ids : /\ slab[l][i] = NoReq
                       /\ slab' = [slab EXCEPT ![l][i] = r]
                       /\ resId' = [resId EXCEPT ![r] = i]
  BY <1>3 DEF ConstructHandle
<1>6. /\ result' = [result EXCEPT ![r] = "InProgress"]
      /\ easy' = [easy EXCEPT ![r] = "slab"]
      /\ UNCHANGED <<mgr, lpc, pc, cm, hid, handle>>
  BY <1>3 DEF ConstructHandle
<1>7. /\ slab'[l][i] = r
      /\ \A m \in Loops, k \in Ids : <<m, k>> # <<l, i>> => slab'[m][k] = slab[m][k]
      /\ resId'[r] = i /\ \A q \in Req : q # r => resId'[q] = resId[q]
      /\ result'[r] = "InProgress" /\ \A q \in Req : q # r => result'[q] = result[q]
      /\ easy'[r] = "slab" /\ \A q \in Req : q # r => easy'[q] = easy[q]
  BY <1>5, <1>6 DEF IndInv, TypeOK
<1>8. \A m : Alive(m)' <=> Alive(m)
  BY <1>6 DEF Alive
<1>9. ManagersStarted'
  BY <1>6 DEF IndInv, ManagersStarted
<1>10. SlabConsistent'
  <2>1. ASSUME NEW q \in Req, easy'[q] = "slab"
        PROVE  (Alive(cm[q]) /\ resId[q] \in Ids /\ slab[cm[q]][resId[q]] = q)'
    <3>1. CASE q = r
      BY <1>4, <1>6, <1>7, <1>8, <3>1
    <3>2. CASE q # r
      <4>1. Alive(cm[q]) /\ resId[q] \in Ids /\ slab[cm[q]][resId[q]] = q /\ cm[q] \in Loops
        BY <1>7, <2>1, <3>2 DEF IndInv, SlabConsistent, Alive
      <4>2. <<cm[q], resId[q]>> # <<l, i>>
        BY <1>5, <4>1, ConstantsAssumption
      <4>3. slab'[cm[q]][resId[q]] = q
        BY <1>7, <4>1, <4>2
      <4>4. QED
        BY <1>6, <1>7, <1>8, <3>2, <4>1, <4>3
    <3>3. QED
      BY <3>1, <3>2
  <2>2. ASSUME NEW m \in Loops, NEW k \in Ids, slab'[m][k] \in Req
        PROVE  (easy[slab[m][k]] = "slab" /\ cm[slab[m][k]] = m /\ resId[slab[m][k]] = k)'
    <3>1. CASE <<m, k>> = <<l, i>>
      BY <1>4, <1>6, <1>7, <3>1
    <3>2. CASE <<m, k>> # <<l, i>>
      <4>1. slab'[m][k] = slab[m][k]
        BY <1>7, <3>2
      <4>2. easy[slab[m][k]] = "slab" /\ cm[slab[m][k]] = m /\ resId[slab[m][k]] = k
        BY <2>2, <4>1 DEF IndInv, SlabConsistent
      <4>3. slab[m][k] # r
        BY <1>4, <4>2
      <4>4. QED
        BY <1>6, <1>7, <2>2, <4>1, <4>2, <4>3
    <3>3. QED
      BY <3>1, <3>2
  <2>3. QED
    BY <2>1, <2>2 DEF SlabConsistent
<1>11. HandleConsistent'
  BY <1>4, <1>6, <1>7, <1>8 DEF IndInv, HandleConsistent, Held
<1>12. FutureConsistent'
  <2>1. ASSUME NEW q \in Req, q # r
        PROVE  easy'[q] = easy[q] /\ result'[q] = result[q]
    BY <1>7, <2>1
  <2>2. QED
    BY <1>4, <1>6, <1>7, <1>8, <2>1 DEF IndInv, FutureConsistent
<1>13. TaskConsistent'
  <2>1. ASSUME NEW m \in Loops, NEW t \in Tasks(m)' PROVE TaskOK(m, t)'
    <3>1. TaskOK(m, t) /\ t \in LoopTask
      BY <1>2
    <3>2. CASE t.req # r
      BY <1>6, <1>7, <1>8, <3>1, <3>2 DEF TaskOK, LoopTask
    <3>3. CASE t.req = r /\ t.kind # "Shutdown"
      <4>1. m = l /\ t.kind # "Construct"
        BY <1>1, <1>2, <1>3, <1>4, <3>1, <3>3 DEF TaskOK, Before
      <4>2. FALSE
        BY <1>4, <3>1, <3>3, <4>1 DEF TaskOK, LoopTask
      <4>3. QED
        BY <4>2
    <3>4. CASE t.kind = "Shutdown"
      BY <1>8, <3>1, <3>4 DEF TaskOK
    <3>5. QED
      BY <3>2, <3>3, <3>4
  <2>2. QED
    BY <2>1 DEF TaskConsistent
<1>14. QED
  BY <1>2, <1>9, <1>10, <1>11, <1>12, <1>13 DEF IndInv

\* QueryHandleResponse: the handle goes to the shared state, or is dropped by
\* the thread itself.
LEMMA QueryStoredStep ==
  ASSUME IndInv, TypeOK', NEW l \in Loops, QueryStored(l) PROVE IndInv'
<1> USE DEF clientVars, loopVars, futureVars, sharedVars, ownerVars, curlVars
<1>1. Take(l) /\ lpc[l] = "drain" /\ inBatch[l] > 0 /\ Head(queue[l]).kind = "Query"
  BY DEF QueryStored, HasTask
<1>2. /\ TaskOK(l, Head(queue[l]))
      /\ \A m \in Loops : \A s \in Tasks(m)' : TaskOK(m, s) /\ s \in LoopTask
      /\ \A s \in Tasks(l)' : Before(Head(queue[l]), s)
      /\ TaskOrder'
  BY <1>1, TakeHead
<1>3. PICK r \in Req : r = Head(queue[l]).req
  BY <1>1, <1>2 DEF TaskOK
<1>4. handle[r] = "task" /\ cm[r] = l
  BY <1>1, <1>2, <1>3 DEF TaskOK
<1>5. /\ handle' = [handle EXCEPT ![r] = "shared"]
      /\ UNCHANGED <<mgr, lpc, slab, pc, cm, hid, result, resId, easy>>
  BY <1>3 DEF QueryStored
<1>6. handle'[r] = "shared" /\ \A q \in Req : q # r => handle'[q] = handle[q]
  BY <1>5 DEF IndInv, TypeOK
<1>7. \A m : Alive(m)' <=> Alive(m)
  BY <1>5 DEF Alive
<1>8. ManagersStarted' /\ SlabConsistent'
  BY <1>5, <1>7, SlabFrame DEF IndInv, ManagersStarted
<1>9. HandleConsistent'
  BY <1>4, <1>5, <1>6, <1>7 DEF IndInv, HandleConsistent, Held
<1>10. FutureConsistent'
  BY <1>4, <1>5, <1>6, <1>7 DEF IndInv, FutureConsistent
<1>11. TaskConsistent'
  <2>1. ASSUME NEW m \in Loops, NEW t \in Tasks(m)' PROVE TaskOK(m, t)'
    <3>1. TaskOK(m, t) /\ t \in LoopTask
      BY <1>2
    <3>2. CASE t.req # r
      BY <1>5, <1>6, <1>7, <3>1, <3>2 DEF TaskOK, LoopTask
    <3>3. CASE t.req = r /\ t.kind # "Shutdown"
      <4>1. m = l /\ t.kind # "Query"
        BY <1>1, <1>2, <1>3, <1>4, <3>1, <3>3 DEF TaskOK, Before
      <4>2. t.kind # "Drop"
        BY <1>4, <3>1, <3>3 DEF TaskOK
      <4>3. QED
        BY <1>5, <1>6, <1>7, <3>1, <3>3, <4>1, <4>2 DEF TaskOK
    <3>4. CASE t.kind = "Shutdown"
      BY <1>7, <3>1, <3>4 DEF TaskOK
    <3>5. QED
      BY <3>2, <3>3, <3>4
  <2>2. QED
    BY <2>1 DEF TaskConsistent
<1>12. QED
  BY <1>2, <1>8, <1>9, <1>10, <1>11 DEF IndInv

LEMMA QueryFailedStep ==
  ASSUME IndInv, TypeOK', NEW l \in Loops, QueryFailed(l) PROVE IndInv'
<1> USE DEF clientVars, loopVars, futureVars, sharedVars, ownerVars, curlVars
<1>1. /\ lpc[l] = "drain" /\ inBatch[l] > 0 /\ Head(queue[l]).kind = "Query"
      /\ TypeOK /\ TaskOrder /\ TaskConsistent
  BY DEF QueryFailed, HasTask, IndInv
<1>2. queue[l] \in Seq(LoopTask) /\ Len(queue[l]) > 0
  BY <1>1, HeadTask DEF TypeOK
<1>3. Head(queue[l]) \in Tasks(l) /\ Head(queue[l]) \in LoopTask
  BY <1>2, TailTask DEF Tasks
<1>4. PICK h \in LoopTask : h = Head(queue[l])
  BY <1>3
<1>5. TaskOK(l, h) /\ h.kind = "Query"
  BY <1>1, <1>3, <1>4 DEF TaskConsistent
<1>6. PICK r \in Req : r = h.req
  BY <1>5 DEF TaskOK
<1>7. handle[r] = "task" /\ cm[r] = l /\ h.id = hid[r] /\ Alive(l)
  BY <1>5, <1>6 DEF TaskOK
<1>8. easy[r] = "slab" /\ hid[r] = resId[r]
  BY <1>7 DEF IndInv, HandleConsistent, Held
<1>9. PICK t \in LoopTask : t = Task("Drop", r, h.id)
  BY <1>4, TaskType DEF LoopTask
<1>10. t.kind = "Drop" /\ t.req = r /\ t.id = h.id
  BY <1>9 DEF Task
<1>11. /\ result' = [result EXCEPT ![r] = "DoneErr"]
       /\ resId' = [resId EXCEPT ![r] = h.id]
       /\ handle' = [handle EXCEPT ![r] = "gone"]
       /\ TakeAndDispatch(l, t)
       /\ UNCHANGED <<mgr, lpc, slab, pc, cm, hid, easy>>
  BY <1>4, <1>6, <1>9 DEF QueryFailed
<1>12. /\ handle'[r] = "gone" /\ \A q \in Req : q # r => handle'[q] = handle[q]
       /\ result'[r] = "DoneErr" /\ \A q \in Req : q # r => result'[q] = result[q]
       /\ \A q \in Req : resId'[q] = resId[q]
  BY <1>7, <1>8, <1>11 DEF IndInv, TypeOK
<1>13. \A k \in DOMAIN Tail(queue[l]) :
         Tail(queue[l])[k] \in Tasks(l) /\ Before(h, Tail(queue[l])[k])
  <2>1. Ordered(queue[l])
    BY <1>1 DEF TaskOrder
  <2>2. QED
    BY <1>2, <1>4, <2>1, TailOrdered DEF Tasks
<1>14. \A s \in Tasks(l) : s.req = r => s.kind \notin {"Drop", "Construct"}
  BY <1>7, <1>8, <1>1 DEF TaskConsistent, TaskOK
<1>15. \A k \in DOMAIN Tail(queue[l]) : Before(Tail(queue[l])[k], t)
  BY <1>10, <1>13, <1>14 DEF Before
<1>16. /\ \A m \in Loops : \A s \in Tasks(m)' : s \in Tasks(m) \/ (m = l /\ s = t)
       /\ \A s \in Tasks(l)' : s = t \/ Before(h, s)
       /\ TaskOrder'
  BY <1>1, <1>4, <1>11, <1>15, TakeAndDispatchTasks
<1>17. \A m : Alive(m)' <=> Alive(m)
  BY <1>11 DEF Alive
<1>18. ManagersStarted'
  BY <1>11 DEF IndInv, ManagersStarted
<1>19. SlabConsistent'
  <2>1. \A q \in Req : /\ easy'[q] = "slab" <=> easy[q] = "slab"
                       /\ easy[q] = "slab" => cm'[q] = cm[q] /\ resId'[q] = resId[q]
    BY <1>11, <1>12
  <2>2. QED
    BY <1>11, <1>17, <2>1, SlabFrame DEF IndInv
<1>20. HandleConsistent'
  BY <1>11, <1>12, <1>17 DEF IndInv, HandleConsistent, Held
<1>21. FutureConsistent'
  BY <1>7, <1>8, <1>11, <1>12, <1>17 DEF IndInv, FutureConsistent
<1>22. TaskConsistent'
  <2>1. ASSUME NEW m \in Loops, NEW s \in Tasks(m)' PROVE TaskOK(m, s)'
    <3>1. CASE s = t
      <4>1. m = l
        BY <1>1, <1>7, <1>10, <1>14, <1>16, <2>1, <3>1 DEF TaskConsistent, TaskOK
      <4>2. QED
        BY <1>7, <1>8, <1>10, <1>11, <1>12, <1>17, <3>1, <4>1 DEF TaskOK
    <3>2. CASE s # t
      <4>1. s \in Tasks(m) /\ (m = l => Before(h, s))
        BY <1>16, <2>1, <3>2
      <4>2. TaskOK(m, s) /\ s \in LoopTask
        BY <1>1, <4>1 DEF TaskConsistent, TypeOK, Tasks
      <4>3. CASE s.req # r \/ s.kind = "Shutdown"
        BY <1>11, <1>12, <1>17, <4>2, <4>3 DEF TaskOK, LoopTask
      <4>4. CASE s.req = r /\ s.kind # "Shutdown"
        <5>1. m = l /\ s.kind # "Query"
          BY <1>5, <1>6, <1>7, <4>1, <4>2, <4>4 DEF TaskOK, Before
        <5>2. QED
          BY <1>11, <1>12, <1>17, <4>2, <4>4, <5>1 DEF TaskOK
      <4>5. QED
        BY <4>3, <4>4
    <3>3. QED
      BY <3>1, <3>2
  <2>2. QED
    BY <2>1 DEF TaskConsistent
<1>23. QED
  BY <1>16, <1>18, <1>19, <1>20, <1>21, <1>22 DEF IndInv

\* DropHandle: the key of a released handle still is that of its request.
LEMMA DropHandleStep ==
  ASSUME IndInv, TypeOK', NEW l \in Loops, DropHandle(l) PROVE IndInv'
<1> USE DEF clientVars, loopVars, futureVars, sharedVars, ownerVars, curlVars
<1>1. Take(l) /\ lpc[l] = "drain" /\ inBatch[l] > 0 /\ Head(queue[l]).kind = "Drop"
  BY DEF DropHandle, HasTask
<1>2. /\ TaskOK(l, Head(queue[l]))
      /\ \A m \in Loops : \A s \in Tasks(m)' : TaskOK(m, s) /\ s \in LoopTask
      /\ \A s \in Tasks(l)' : Before(Head(queue[l]), s)
      /\ TaskOrder'
  BY <1>1, TakeHead
<1>3. PICK h : h = Head(queue[l])
  OBVIOUS
<1>4. PICK r \in Req : r = h.req
  BY <1>1, <1>2, <1>3 DEF TaskOK
<1>5. /\ easy[r] = "slab" /\ h.id = hid[r] /\ hid[r] = resId[r] /\ handle[r] = "gone"
      /\ cm[r] = l /\ Alive(l)
  BY <1>1, <1>2, <1>3, <1>4 DEF TaskOK
<1>6. PICK i \in Ids : i = h.id
  BY <1>5 DEF IndInv, SlabConsistent
<1>7. slab[l][i] = r /\ resId[r] = i
  BY <1>5, <1>6 DEF IndInv, SlabConsistent
<1>8. /\ slab' = [slab EXCEPT ![l][i] = NoReq]
      /\ easy' = [easy EXCEPT ![r] = "freed"]
      /\ UNCHANGED <<mgr, lpc, pc, cm, hid, result, resId, handle>>
  BY <1>3, <1>6, <1>7 DEF DropHandle
<1>9. /\ slab'[l][i] = NoReq
      /\ \A m \in Loops, k \in Ids : <<m, k>> # <<l, i>> => slab'[m][k] = slab[m][k]
      /\ easy'[r] = "freed" /\ \A q \in Req : q # r => easy'[q] = easy[q]
  BY <1>8 DEF IndInv, TypeOK
<1>10. \A m : Alive(m)' <=> Alive(m)
  BY <1>8 DEF Alive
<1>11. ManagersStarted'
  BY <1>8 DEF IndInv, ManagersStarted
<1>12. SlabConsistent'
  <2>1. ASSUME NEW q \in Req, easy'[q] = "slab"
        PROVE  (Alive(cm[q]) /\ resId[q] \in Ids /\ slab[cm[q]][resId[q]] = q)'
    <3>1. q # r /\ easy[q] = "slab"
      BY <1>9, <2>1
    <3>2. Alive(cm[q]) /\ resId[q] \in Ids /\ slab[cm[q]][resId[q]] = q /\ cm[q] \in Loops
      BY <3>1 DEF IndInv, SlabConsistent, Alive
    <3>3. <<cm[q], resId[q]>> # <<l, i>>
      BY <1>7, <3>1, <3>2
    <3>4. slab'[cm[q]][resId[q]] = q
      BY <1>9, <3>2, <3>3
    <3>5. QED
      BY <1>8, <1>10, <3>2, <3>4
  <2>2. ASSUME NEW m \in Loops, NEW k \in Ids, slab'[m][k] \in Req
        PROVE  (easy[slab[m][k]] = "slab" /\ cm[slab[m][k]] = m /\ resId[slab[m][k]] = k)'
    <3>1. <<m, k>> # <<l, i>>
      BY <1>9, <2>2, ConstantsAssumption
    <3>2. slab'[m][k] = slab[m][k]
      BY <1>9, <3>1
    <3>3. easy[slab[m][k]] = "slab" /\ cm[slab[m][k]] = m /\ resId[slab[m][k]] = k
      BY <2>2, <3>2 DEF IndInv, SlabConsistent
    <3>4. slab[m][k] # r
      BY <1>5, <1>7, <3>1, <3>3
    <3>5. QED
      BY <1>8, <1>9, <2>2, <3>2, <3>3, <3>4
  <2>3. QED
    BY <2>1, <2>2 DEF SlabConsistent
<1>13. HandleConsistent'
  BY <1>5, <1>8, <1>9, <1>10 DEF IndInv, HandleConsistent, Held
<1>14. FutureConsistent'
  <2>1. \A q \in Req : q # r => easy'[q] = easy[q]
    BY <1>9
  <2>2. QED
    BY <1>5, <1>8, <1>9, <1>10, <2>1 DEF IndInv, FutureConsistent
<1>15. TaskConsistent'
  <2>1. ASSUME NEW m \in Loops, NEW t \in Tasks(m)' PROVE TaskOK(m, t)'
    <3>1. TaskOK(m, t) /\ t \in LoopTask
      BY <1>2
    <3>2. CASE t.req # r \/ t.kind = "Shutdown"
      BY <1>8, <1>9, <1>10, <3>1, <3>2 DEF TaskOK, LoopTask
    <3>3. CASE t.req = r /\ t.kind # "Shutdown"
      <4>1. m = l
        BY <1>5, <3>1, <3>3 DEF TaskOK
      <4>2. FALSE
        BY <1>1, <1>2, <1>3, <1>4, <3>3, <4>1 DEF Before
      <4>3. QED
        BY <4>2
    <3>4. QED
      BY <3>2, <3>3
  <2>2. QED
    BY <2>1 DEF TaskConsistent
<1>16. QED
  BY <1>2, <1>11, <1>12, <1>13, <1>14, <1>15 DEF IndInv

\* LoopManagerInner::drop: queued easy handles go back, the slab is freed.
LEMMA DropInnerStep ==
  ASSUME IndInv, TypeOK', NEW l \in Loops, DropInner(l) PROVE IndInv'
<1> USE DEF clientVars, loopVars, futureVars, sharedVars, ownerVars, curlVars
<1>1. lpc[l] = "exiting" /\ lpc' = [lpc EXCEPT ![l] = "dead"] /\ Alive(l)
  BY DEF DropInner, GiveBack, Alive
<1>2. /\ ~Alive(l)'
      /\ \A m \in Loops : m # l => (Alive(m)' <=> Alive(m))
      /\ \A m \in Loops : lpc'[m] = "unborn" => lpc[m] = "unborn"
      /\ \A m : Alive(m)' => Alive(m) /\ m # l /\ m \in Loops
  BY <1>1 DEF Alive, IndInv, TypeOK
<1>3. /\ Tasks(l)' = {} /\ Ordered(queue[l])'
      /\ \A m \in Loops : m # l => Tasks(m)' = Tasks(m) /\ (Ordered(queue[m])' <=> Ordered(queue[m]))
  BY DEF DropInner, GiveBack, Tasks, Ordered, IndInv, TypeOK
<1>4. PICK lost \in SUBSET Req, gone \in SUBSET Req, own \in SUBSET Req :
        lost = Queued(l, "Construct") /\ gone = Queued(l, "Query") /\ own = Owned(l)
  BY DEF Queued, Owned
<1>5. /\ \A r \in Req : result'[r] = IF r \in lost THEN "EasyLost" ELSE result[r]
      /\ \A r \in Req : easy'[r] = IF r \in lost THEN "shared"
                                   ELSE IF r \in own THEN "freed" ELSE easy[r]
      /\ \A r \in Req : handle'[r] = IF r \in gone THEN "gone" ELSE handle[r]
      /\ UNCHANGED <<mgr, pc, cm, hid, resId>>
  BY <1>4 DEF DropInner, GiveBack
<1>6. /\ \A i \in Ids : slab'[l][i] = NoReq
      /\ \A m \in Loops : m # l => slab'[m] = slab[m]
  BY DEF DropInner, GiveBack, IndInv, TypeOK
<1>7. \A r \in lost : easy[r] = "queue" /\ cm[r] = l /\ handle[r] = "none"
  BY <1>4 DEF IndInv, TaskConsistent, TaskOK, Queued, FutureConsistent
<1>8. \A r \in gone : handle[r] = "task" /\ cm[r] = l
  BY <1>4 DEF IndInv, TaskConsistent, TaskOK, Queued
<1>9. \A r \in own : easy[r] = "slab" /\ cm[r] = l
  BY <1>4 DEF IndInv, SlabConsistent, Owned
<1>10. \A r \in Req : easy[r] = "slab" /\ cm[r] = l => r \in own
  BY <1>4 DEF IndInv, SlabConsistent, Owned
<1>11. ManagersStarted'
  BY <1>2, <1>5 DEF IndInv, ManagersStarted
<1>12. SlabConsistent'
  <2>1. ASSUME NEW q \in Req, easy'[q] = "slab"
        PROVE  (Alive(cm[q]) /\ resId[q] \in Ids /\ slab[cm[q]][resId[q]] = q)'
    <3>1. easy[q] = "slab" /\ q \notin own
      BY <1>5, <2>1
    <3>2. Alive(cm[q]) /\ resId[q] \in Ids /\ slab[cm[q]][resId[q]] = q
      BY <3>1 DEF IndInv, SlabConsistent
    <3>3. cm[q] # l /\ cm[q] \in Loops
      BY <1>10, <3>1, <3>2 DEF Alive
    <3>4. QED
      BY <1>2, <1>5, <1>6, <3>2, <3>3
  <2>2. ASSUME NEW m \in Loops, NEW k \in Ids, slab'[m][k] \in Req
        PROVE  (easy[slab[m][k]] = "slab" /\ cm[slab[m][k]] = m /\ resId[slab[m][k]] = k)'
    <3>1. m # l
      BY <1>6, <2>2, ConstantsAssumption
    <3>2. slab'[m][k] = slab[m][k]
      BY <1>6, <3>1
    <3>3. easy[slab[m][k]] = "slab" /\ cm[slab[m][k]] = m /\ resId[slab[m][k]] = k
      BY <2>2, <3>2 DEF IndInv, SlabConsistent
    <3>4. slab[m][k] \notin lost /\ slab[m][k] \notin own
      BY <1>7, <1>9, <3>1, <3>3
    <3>5. QED
      BY <1>5, <2>2, <3>2, <3>3, <3>4
  <2>3. QED
    BY <2>1, <2>2 DEF SlabConsistent
<1>13. HandleConsistent'
  <2>1. ASSUME NEW q \in Req, Held(q)', Alive(cm[q])'
        PROVE  easy'[q] = "slab" /\ hid'[q] = resId'[q]
    <3>1. Alive(cm[q]) /\ cm[q] # l
      BY <1>2, <1>5, <2>1
    <3>2. q \notin lost /\ q \notin own /\ q \notin gone
      BY <1>7, <1>8, <1>9, <3>1
    <3>3. Held(q)
      BY <1>5, <2>1, <3>2 DEF Held
    <3>4. QED
      BY <1>5, <3>1, <3>2, <3>3 DEF IndInv, HandleConsistent
  <2>2. QED
    BY <2>1 DEF HandleConsistent
<1>14. FutureConsistent'
  <2>1. ASSUME NEW q \in Req, Alive(cm[q])'
        PROVE  Alive(cm[q]) /\ q \notin lost /\ q \notin own /\ q \notin gone
    BY <1>2, <1>5, <1>7, <1>8, <1>9, <2>1
  <2>2. \A q \in Req : q \in lost => easy[q] = "queue" /\ handle[q] = "none"
    BY <1>7
  <2>3. \A q \in Req : q \in own => easy[q] = "slab"
    BY <1>9
  <2>4. \A q \in Req : q \in gone => handle[q] = "task"
    BY <1>8
  <2>5. QED
    BY <1>5, <2>1, <2>2, <2>3, <2>4 DEF IndInv, FutureConsistent, BodyPc
<1>15. TaskConsistent'
  <2>1. ASSUME NEW m \in Loops, NEW t \in Tasks(m)' PROVE TaskOK(m, t)'
    <3>1. m # l /\ t \in Tasks(m)
      BY <1>3, <2>1
    <3>2. TaskOK(m, t) /\ t \in LoopTask
      BY <3>1 DEF IndInv, TaskConsistent, TypeOK, Tasks
    <3>3. t.kind # "Shutdown" => t.req \notin lost /\ t.req \notin own /\ t.req \notin gone
      BY <1>7, <1>8, <1>9, <3>1, <3>2 DEF TaskOK
    <3>4. QED
      BY <1>2, <1>5, <3>1, <3>2, <3>3 DEF TaskOK, LoopTask
  <2>2. QED
    BY <2>1 DEF TaskConsistent
<1>16. TaskOrder'
  BY <1>3 DEF IndInv, TaskOrder
<1>17. QED
  BY <1>11, <1>12, <1>13, <1>14, <1>15, <1>16 DEF IndInv

LEMMA IndInvStep == IndInv /\ [Next]_vars => IndInv'
<1> SUFFICES ASSUME IndInv, [Next]_vars PROVE IndInv'
  OBVIOUS
<1>1. TypeOK'
  BY TypeStep DEF IndInv
<1>2. CASE UNCHANGED vars
  <2>1. (\A l \in Loops : Tasks(l)' \subseteq Tasks(l)) /\ TaskOrder'
    BY <1>2 DEF vars, loopVars, IndInv, Tasks, TaskOrder, Ordered
  <2>2. QED
    BY <1>1, <1>2, <2>1, FrameStep
    DEF vars, clientVars, loopVars, futureVars, sharedVars, ownerVars, curlVars
<1>3. ASSUME NEW r \in Req, Begin(r) \/ PollFuture(r) \/ Cancel(r) \/ PollBody(r) \/ Close(r)
      PROVE  IndInv'
  BY <1>1, <1>3, BeginStep, AcquireStep, SubmitStep, SubmitRefusedStep, PollStartStep, ReplaceStep,
     PollWait1Step, SendQueryStep, PollWait2Step, CancelStep, ReadDataStep, ReadEndStep,
     ReadWaitStep, CloseStep
     DEF PollFuture, PollBody
<1>4. ASSUME NEW l \in Loops, PollReturn(l) \/ LoopThread(l) \/ LoopFail(l)
      PROVE  IndInv'
  BY <1>1, <1>4, PollReturnStep, DrainDoneStep, ConstructHandleStep, QueryStoredStep,
     QueryFailedStep, UnpauseRecvStep, UnpauseRecvFailedStep, DropHandleStep,
     ShutdownStep,
     MessagesStep, LoopFailStep, DropInnerStep
     DEF LoopThread, DrainTask
<1>5. QED
  BY <1>1, <1>2, <1>3, <1>4, DropClientStep, PerformStep DEF Next

\* The invariant holds in every reachable state: easy handles, keys, request
\* handles and queued tasks agree however requests, cancellations, failing
\* transfers and dying threads interleave.
THEOREM InvariantHolds == Spec => []IndInv
BY IndInvInit, IndInvStep, PTL DEF Spec

-----------------------------------------------------------------------------
(* The safety properties.                                                  *)

\* A request handle addresses its own easy handle as long as its thread lives:
\* "handle not found" in QueryHandleResponse is unreachable.
THEOREM HandlesFindTheirEasy == Spec => []HandleFindsItsEasy
<1>1. IndInv => HandleFindsItsEasy
  BY DEF IndInv, HandleFindsItsEasy, HandleConsistent, SlabConsistent
<1>2. QED
  BY <1>1, InvariantHolds, PTL

\* DropHandle never removes the easy handle of a request whose handle is in
\* use, although slab keys are reused at once.
THEOREM DropsTargetReleased == Spec => []DropTargetsReleased
<1>1. IndInv => DropTargetsReleased
  <2> SUFFICES ASSUME IndInv, NEW l \in Loops, NEW k \in DOMAIN queue[l],
                      queue[l][k].kind = "Drop"
               PROVE  /\ queue[l][k].id \in Ids
                      /\ slab[l][queue[l][k].id] = queue[l][k].req
                      /\ handle[queue[l][k].req] = "gone"
                      /\ \A j \in DOMAIN queue[l] :
                           queue[l][j].kind = "Drop" /\ queue[l][j].id = queue[l][k].id
                             => j = k
    BY DEF DropTargetsReleased
  <2>1. \A j \in DOMAIN queue[l] : TaskOK(l, queue[l][j])
    BY DEF IndInv, TaskConsistent, Tasks
  <2>2. \A j \in DOMAIN queue[l] : queue[l][j].kind = "Drop" =>
          /\ queue[l][j].id \in Ids
          /\ slab[l][queue[l][j].id] = queue[l][j].req
          /\ handle[queue[l][j].req] = "gone"
    BY <2>1 DEF TaskOK, IndInv, SlabConsistent
  <2>3. queue[l] \in Seq(LoopTask)
    BY DEF IndInv, TypeOK
  <2>4. \A j \in DOMAIN queue[l] : j \in Nat
    BY <2>3
  <2>5. ASSUME NEW j \in DOMAIN queue[l], queue[l][j].kind = "Drop",
               queue[l][j].id = queue[l][k].id
        PROVE  j = k
    <3>1. queue[l][j].req = queue[l][k].req
      BY <2>2, <2>5
    <3>2. ~(j < k) /\ ~(k < j)
      BY <2>5, <3>1 DEF IndInv, TaskOrder, Ordered, Before
    <3>3. QED
      BY <2>4, <3>2
  <2>6. QED
    BY <2>2, <2>5
<1>2. QED
  BY <1>1, InvariantHolds, PTL

\* UnpauseRecvHandle never resumes another request's transfer.
THEOREM UnpausesTargetSender == Spec => []UnpauseTargetsSender
<1>1. IndInv => UnpauseTargetsSender
  BY DEF IndInv, UnpauseTargetsSender, TaskConsistent, TaskOK, Tasks, SlabConsistent
<1>2. QED
  BY <1>1, InvariantHolds, PTL

\* No slab key outlives the request it was given to, in a handle or in a task.
THEOREM KeysAreCurrent == Spec => []HandlesAreCurrent
<1>1. HandleFindsItsEasy /\ DropTargetsReleased /\ UnpauseTargetsSender
        => HandlesAreCurrent
  BY DEF HandlesAreCurrent
<1>2. QED
  BY <1>1, HandlesFindTheirEasy, DropsTargetReleased, UnpausesTargetSender, PTL

-----------------------------------------------------------------------------
(* No transfer is dropped under a request that waits for it.                *)

\* A thread that ends has told every request it still owns.
AllTold == \A l \in Loops : lpc[l] = "exiting" => \A r \in Owned(l) : Told(r)

\* What a request has been told it keeps, until its easy handle is dropped.
LEMMA ToldKept ==
  ASSUME ~MayRereadEnd, IndInv, Next,
         NEW l \in Loops, lpc[l] = "exiting", NEW r \in Owned(l), Told(r)
  PROVE  Told(r)'
<1> USE DEF clientVars, loopVars, futureVars, sharedVars, ownerVars, curlVars
<1>1. r \in Req /\ easy[r] = "slab" /\ cm[r] = l
  BY DEF Owned, IndInv, SlabConsistent
<1>2. pc[r] \notin {"idle", "acquire", "submit", "replace"} /\ result[r] # "EasyLost"
  BY <1>1 DEF IndInv, FutureConsistent
<1>3. /\ pc[r] = "starting" => handle[r] = "none"
      /\ pc[r] \in {"wait1", "query"} \cup BodyPc => handle[r] = "client"
  BY <1>1 DEF IndInv, FutureConsistent
<1>4. ASSUME NEW q \in Req, Begin(q) \/ PollFuture(q) \/ Cancel(q) \/ PollBody(q) \/ Close(q)
      PROVE  Told(r)'
  <2>1. CASE q # r
    <3>1. pc'[r] = pc[r] /\ handle'[r] = handle[r] /\ result'[r] = result[r]
      BY <1>1, <1>4, <2>1
      DEF PollFuture, PollBody, Begin, Acquire, Submit, SubmitRefused, PollStart, Replace,
         PollWait1, SendQuery, PollWait2, Cancel, ReadData, ReadEnd, ReadWait, Close,
         ReleaseHandle, GoTo, IndInv, TypeOK
    <3>2. QED
      BY <3>1 DEF Told, IsDone
  <2>2. CASE q = r
    <3>1. CASE PollStart(r)
      BY <1>1, <1>2, <1>3, <3>1 DEF PollStart, Told, IsDone, IndInv, TypeOK, GoTo, FinalPc
    <3>2. CASE PollWait1(r)
      BY <1>1, <1>3, <3>2
         DEF PollWait1, ReleaseHandle, Told, IsDone, IndInv, TypeOK, GoTo, FinalPc
    <3>3. CASE SendQuery(r)
      BY <1>1, <1>3, <3>3 DEF SendQuery, Told, IsDone, IndInv, TypeOK, GoTo, FinalPc
    <3>4. CASE PollWait2(r)
      BY <1>1, <3>4 DEF PollWait2, Told, IsDone, IndInv, TypeOK, GoTo, FinalPc
    <3>5. CASE Cancel(r) \/ Close(r)
      BY <1>1, <3>5 DEF Cancel, Close, Told, IsDone, IndInv, TypeOK, GoTo, FinalPc
    <3>6. CASE ReadData(r) \/ ReadEnd(r)
      BY <1>1, <1>3, <3>6
         DEF ReadData, ReadEnd, CanRead, Told, IsDone, IndInv, TypeOK, GoTo, FinalPc,
             BodyPc
    <3>7. CASE ReadWait(r)
      BY <1>1, <1>3, <3>7
         DEF ReadWait, CanRead, Told, IsDone, IndInv, TypeOK, GoTo, FinalPc, BodyPc
    <3>8. CASE Begin(r) \/ Acquire(r) \/ Submit(r) \/ SubmitRefused(r) \/ Replace(r)
      BY <1>2, <3>8 DEF Begin, Acquire, Submit, SubmitRefused, Replace
    <3>9. QED
      BY <1>4, <2>2, <3>1, <3>2, <3>3, <3>4, <3>5, <3>6, <3>7, <3>8
      DEF PollFuture, PollBody
  <2>3. QED
    BY <2>1, <2>2
<1>5. ASSUME NEW k \in Loops, PollReturn(k) \/ LoopThread(k) \/ LoopFail(k)
      PROVE  Told(r)'
  <2>1. pc' = pc
    BY <1>5 DEF PollReturn, LoopThread, LoopFail, DrainTask, DrainDone, ConstructHandle,
       QueryStored, QueryFailed, UnpauseRecv, UnpauseRecvFailed, DropHandle, Shutdown,
       Messages, DropInner
  <2>2. CASE \/ PollReturn(k) \/ DrainDone(k) \/ UnpauseRecv(k) \/ DropHandle(k) \/ Shutdown(k)
    BY <2>1, <2>2
    DEF PollReturn, DrainDone, UnpauseRecv, DropHandle, Shutdown, Told, IsDone
  <2>3. CASE ConstructHandle(k) \/ QueryStored(k) \/ QueryFailed(k)
    <3>1. k # l /\ lpc[k] = "drain" /\ inBatch[k] > 0
      BY <2>3 DEF ConstructHandle, QueryStored, QueryFailed, HasTask
    <3>2. PICK h \in LoopTask : h = Head(queue[k]) /\ h.kind \in {"Construct", "Query"}
      BY <2>3, <3>1, HeadTask
      DEF ConstructHandle, QueryStored, QueryFailed, HasTask, IndInv
    <3>3. h \in Tasks(k)
      <4>1. queue[k] \in Seq(LoopTask) /\ Len(queue[k]) > 0
        BY <3>1, HeadTask DEF IndInv, TypeOK
      <4>2. QED
        BY <3>2, <4>1, TailTask DEF Tasks
    <3>4. h.req # r
      BY <1>1, <3>1, <3>2, <3>3 DEF IndInv, TaskConsistent, TaskOK
    <3>5. /\ \/ handle' = handle
             \/ handle' = [handle EXCEPT ![h.req] = "shared"]
             \/ handle' = [handle EXCEPT ![h.req] = "gone"]
          /\ \/ result' = result
             \/ result' = [result EXCEPT ![h.req] = "InProgress"]
             \/ result' = [result EXCEPT ![h.req] = "DoneErr"]
      BY <2>3, <3>2 DEF ConstructHandle, QueryStored, QueryFailed
    <3>6. handle'[r] = handle[r] /\ result'[r] = result[r]
      BY <1>1, <3>4, <3>5 DEF IndInv, TypeOK
    <3>7. QED
      BY <2>1, <3>6 DEF Told, IsDone
  <2>4. CASE UnpauseRecvFailed(k)
    <3>1. PICK o \in Req : result' = [result EXCEPT ![o] = "DoneErr"] /\ handle' = handle
      BY <2>4 DEF UnpauseRecvFailed
    <3>2. result'[r] = "DoneErr" \/ result'[r] = result[r]
      BY <1>1, <3>1 DEF IndInv, TypeOK
    <3>3. QED
      BY <2>1, <3>1, <3>2 DEF Told, IsDone
  <2>5. CASE Messages(k) \/ LoopFail(k)
    <3>1. /\ handle' = handle
          /\ result'[r] \in {"DoneOk", "DoneErr"} \/ result'[r] = result[r]
      BY <1>1, <2>5 DEF Messages, Publish, LoopFail
    <3>2. QED
      BY <2>1, <3>1 DEF Told, IsDone
  <2>6. CASE DropInner(k)
    <3>1. r \notin Queued(k, "Construct")
      BY <1>1 DEF Queued, IndInv, TaskConsistent, TaskOK
    <3>2. result'[r] = result[r] /\ (handle'[r] = handle[r] \/ handle'[r] = "gone")
      BY <1>1, <2>6, <3>1 DEF DropInner, GiveBack
    <3>3. QED
      BY <2>1, <3>2 DEF Told, IsDone
  <2>7. QED
    BY <1>5, <2>2, <2>3, <2>4, <2>5, <2>6 DEF LoopThread, DrainTask
<1>6. ASSUME NEW k \in Loops, NEW q \in Req, Perform(k, q) PROVE Told(r)'
  BY <1>6 DEF Perform, HeaderCallback, WriteCallback, Complete, Told, IsDone
<1>7. CASE DropClient
  BY <1>7 DEF DropClient, Told, IsDone
<1>8. QED
  BY <1>4, <1>5, <1>6, <1>7 DEF Next

\* A thread finds its slab empty, or fails and tells everyone, before it ends.
LEMMA AllToldStep ==
  ASSUME ~MayRereadEnd, IndInv, AllTold, [Next]_vars
  PROVE  AllTold'
<1> USE DEF clientVars, loopVars, futureVars, sharedVars, ownerVars, curlVars
<1>1. CASE UNCHANGED vars
  BY <1>1 DEF vars, AllTold, Told, IsDone, Owned
<1>2. ASSUME Next, NEW l \in Loops, lpc'[l] = "exiting", NEW r \in Owned(l)'
      PROVE  Told(r)'
  <2>1. r \in Req /\ \E i \in Ids : slab'[l][i] = r
    BY DEF Owned
  <2>2. CASE lpc[l] = "exiting"
    <3>1. slab'[l] = slab[l]
      <4>1. ASSUME NEW q \in Req, Begin(q) \/ PollFuture(q) \/ Cancel(q) \/ PollBody(q) \/ Close(q)
            PROVE  slab' = slab
        BY <4>1 DEF PollFuture, PollBody, Begin, Acquire, Submit, SubmitRefused, PollStart, Replace,
           PollWait1, SendQuery, PollWait2, Cancel, ReadData, ReadEnd, ReadWait, Close
      <4>2. ASSUME NEW k \in Loops, PollReturn(k) \/ LoopThread(k) \/ LoopFail(k)
            PROVE  slab'[l] = slab[l]
        <5>1. CASE ConstructHandle(k) \/ DropHandle(k)
          <6>1. k # l
            BY <2>2, <5>1 DEF ConstructHandle, DropHandle, HasTask
          <6>2. \/ slab' = slab
                \/ \E i, v : slab' = [slab EXCEPT ![k][i] = v]
            BY <5>1 DEF ConstructHandle, DropHandle
          <6>3. QED
            BY <6>1, <6>2 DEF IndInv, TypeOK
        <5>2. CASE DropInner(k)
          <6>1. k # l
            BY <1>2, <5>2 DEF DropInner, IndInv, TypeOK
          <6>2. QED
            BY <5>2, <6>1 DEF DropInner, IndInv, TypeOK
        <5>3. QED
          BY <4>2, <5>1, <5>2 DEF PollReturn, LoopThread, LoopFail, DrainTask, DrainDone,
             QueryStored, QueryFailed, UnpauseRecv, UnpauseRecvFailed, Shutdown, Messages
      <4>3. ASSUME NEW k \in Loops, NEW q \in Req, Perform(k, q) PROVE slab' = slab
        BY <4>3 DEF Perform, HeaderCallback, WriteCallback, Complete
      <4>4. DropClient => slab' = slab
        BY DEF DropClient
      <4>5. QED
        BY <1>2, <4>1, <4>2, <4>3, <4>4 DEF Next
    <3>2. r \in Owned(l) /\ Told(r)
      BY <2>1, <2>2, <3>1 DEF Owned, AllTold
    <3>3. QED
      BY <1>2, <2>2, <3>2, ToldKept
  <2>3. CASE lpc[l] # "exiting"
    <3>1. Messages(l) \/ LoopFail(l)
      <4>1. ASSUME NEW q \in Req, Begin(q) \/ PollFuture(q) \/ Cancel(q) \/ PollBody(q) \/ Close(q)
            PROVE  FALSE
        <5>1. lpc' = lpc \/ \E k \in Loops : lpc' = [lpc EXCEPT ![k] = "poll"]
          BY <4>1
          DEF PollFuture, PollBody, Begin, Acquire, Submit, SubmitRefused, PollStart, Replace, SpawnLoop,
             PollWait1, SendQuery, PollWait2, Cancel, ReadData, ReadEnd, ReadWait, Close
        <5>2. QED
          BY <1>2, <2>3, <5>1 DEF IndInv, TypeOK
      <4>2. ASSUME NEW k \in Loops, PollReturn(k) \/ LoopThread(k) \/ LoopFail(k)
            PROVE  Messages(l) \/ LoopFail(l)
        <5>1. CASE Messages(k) \/ LoopFail(k)
          <6>1. \E v : lpc' = [lpc EXCEPT ![k] = v]
            BY <5>1 DEF Messages, EndOfRound, LoopFail
          <6>2. k = l
            BY <1>2, <2>3, <6>1 DEF IndInv, TypeOK
          <6>3. QED
            BY <5>1, <6>2
        <5>2. CASE PollReturn(k) \/ DrainTask(k) \/ DrainDone(k) \/ DropInner(k)
          <6>1. lpc' = lpc \/ \E v \in {"drain", "perform", "dead"} : lpc' = [lpc EXCEPT ![k] = v]
            BY <5>2 DEF PollReturn, DrainTask, DrainDone, DropInner, ConstructHandle,
               QueryStored, QueryFailed, UnpauseRecv, UnpauseRecvFailed, DropHandle,
               Shutdown
          <6>2. QED
            BY <1>2, <2>3, <6>1 DEF IndInv, TypeOK
        <5>3. QED
          BY <4>2, <5>1, <5>2 DEF LoopThread
      <4>3. ASSUME NEW k \in Loops, NEW q \in Req, Perform(k, q) PROVE FALSE
        BY <1>2, <2>3, <4>3 DEF Perform, HeaderCallback, WriteCallback, Complete
      <4>4. ~DropClient
        BY <1>2, <2>3 DEF DropClient
      <4>5. QED
        BY <1>2, <4>1, <4>2, <4>3, <4>4 DEF Next
    <3>2. CASE Messages(l)
      <4>1. slab' = slab /\ Owned(l) # {} => lpc'[l] = "poll"
        BY <3>2 DEF Messages, EndOfRound, IndInv, TypeOK
      <4>2. slab' = slab
        BY <3>2 DEF Messages
      <4>3. QED
        BY <1>2, <2>1, <4>1, <4>2 DEF Owned
    <3>3. CASE LoopFail(l)
      <4>1. r \in Owned(l)
        BY <2>1, <3>3 DEF LoopFail, Owned
      <4>2. result'[r] \in {"DoneOk", "DoneErr"}
        BY <2>1, <3>3, <4>1 DEF LoopFail, IsDone
      <4>3. QED
        BY <4>2 DEF Told, IsDone
    <3>4. QED
      BY <3>1, <3>2, <3>3
  <2>4. QED
    BY <2>2, <2>3
<1>3. QED
  BY <1>1, <1>2 DEF AllTold

\* A loop thread drops the easy handle of a request only after the request has
\* released it or has been told its outcome, unless callers read on after the
\* end of a body.
THEOREM NoTransferLost == ASSUME ~MayRereadEnd PROVE Spec => NoLiveTransferLost
<1> DEFINE Kept == \A r \in Req : easy[r] = "slab" /\ easy'[r] = "freed" => Told(r)
<1>1. IndInv /\ AllTold /\ [Next]_vars => [Kept]_vars
  <2> SUFFICES ASSUME IndInv, AllTold, Next, NEW r \in Req, easy[r] = "slab", easy'[r] = "freed"
               PROVE  Told(r)
    BY DEF vars
  <2> USE DEF clientVars, loopVars, futureVars, sharedVars, ownerVars, curlVars
  <2>1. PICK l \in Loops : DropHandle(l) \/ DropInner(l)
    <3>1. pc[r] \notin {"acquire", "submit", "replace"}
      BY DEF IndInv, FutureConsistent, TypeOK
    <3>2. ASSUME NEW q \in Req, Begin(q) \/ PollFuture(q) \/ Cancel(q) \/ PollBody(q) \/ Close(q)
          PROVE  FALSE
      BY <3>1, <3>2 DEF PollFuture, PollBody, Begin, Acquire, Submit, SubmitRefused, PollStart, Replace,
         PollWait1, SendQuery, PollWait2, Cancel, ReadData, ReadEnd, ReadWait, Close,
         IndInv, TypeOK
    <3>3. ~DropClient
      BY DEF DropClient
    <3>4. ASSUME NEW k \in Loops, NEW q \in Req, Perform(k, q) PROVE FALSE
      BY <3>4 DEF Perform, HeaderCallback, WriteCallback, Complete
    <3>5. ASSUME NEW k \in Loops, PollReturn(k) \/ LoopThread(k) \/ LoopFail(k)
          PROVE  DropHandle(k) \/ DropInner(k)
      <4>1. CASE ConstructHandle(k)
        <5>1. \E q : easy' = [easy EXCEPT ![q] = "slab"]
          BY <4>1 DEF ConstructHandle
        <5>2. easy'[r] # "freed"
          BY <5>1 DEF IndInv, TypeOK
        <5>3. QED
          BY <5>2
      <4>2. ASSUME UNCHANGED easy PROVE FALSE
        BY <4>2
      <4>3. QED
        BY <3>5, <4>1, <4>2 DEF PollReturn, LoopThread, LoopFail, DrainTask, DrainDone,
           QueryStored, QueryFailed, UnpauseRecv, UnpauseRecvFailed, Shutdown, Messages
    <3>6. QED
      BY <3>2, <3>3, <3>4, <3>5 DEF Next
  <2>2. CASE DropHandle(l)
    <3>1. lpc[l] = "drain" /\ inBatch[l] > 0 /\ Head(queue[l]).kind = "Drop" /\ Take(l)
      BY <2>2 DEF DropHandle, HasTask
    <3>2. PICK h : h = Head(queue[l])
      OBVIOUS
    <3>3. TaskOK(l, h) /\ h.kind = "Drop"
      BY <3>1, <3>2, TakeHead
    <3>4. h.req \in Req /\ slab[l][h.id] = h.req /\ handle[h.req] = "gone"
      BY <3>3 DEF TaskOK, IndInv, SlabConsistent
    <3>5. easy' = [easy EXCEPT ![h.req] = "freed"]
      BY <2>2, <3>2, <3>4 DEF DropHandle
    <3>6. r = h.req
      BY <3>5 DEF IndInv, TypeOK
    <3>7. QED
      BY <3>4, <3>6 DEF Told
  <2>3. CASE DropInner(l)
    <3>1. r \in Owned(l)
      BY <2>3 DEF DropInner
    <3>2. QED
      BY <2>3, <3>1 DEF DropInner, AllTold
  <2>4. QED
    BY <2>1, <2>2, <2>3
<1>2. Init => AllTold
  BY DEF Init, AllTold
<1>3. IndInv /\ AllTold /\ [Next]_vars => AllTold'
  BY AllToldStep
<1>4. QED
  BY <1>1, <1>2, <1>3, InvariantHolds, PTL DEF Spec, NoLiveTransferLost

-----------------------------------------------------------------------------
(* Where the easy handle of a request is, on which thread a transfer is in *)
(* progress, and what may follow a success: the properties that need more  *)
(* than IndInv.  The strengthening, in four parts.                         *)

\* An easy handle that waits in a queue has its task there.
WaitingQueued ==
  \A r \in Req : easy[r] = "queue" =>
    cm[r] \in Loops /\ r \in Queued(cm[r], "Construct")

\* A live thread a request holds is the client's, or was refused; a request that
\* asks for a new thread holds a dead one or a refused one, and one that has its
\* easy handle back a dead one.
OneLiveLoop ==
  \A r \in Req :
    /\ Alive(cm[r]) => cm[r] = mgr \/ cm[r] \in refused
    /\ pc[r] = "replace" => ~Alive(cm[r]) \/ cm[r] \in refused
    /\ easy[r] = "shared" => ~Alive(cm[r])

\* A transfer in progress under a waiting request is in the slab, of a thread
\* that is not ending, and its handle has not been dropped by a failed query.
ProgressInSlab ==
  \A r \in Req : result[r] = "InProgress" =>
    /\ pc[r] \in {"starting", "wait1", "query", "wait2"} => easy[r] = "slab"
    /\ pc[r] = "wait2" => handle[r] # "gone"
    /\ \A l \in Loops : lpc[l] = "exiting" => r \notin Owned(l)

\* A success is published when the transfer is finished.
SuccessFinished ==
  \A r \in Req : result[r] = "DoneOk" => xfer[r] \in {"finished", "none"}

-----------------------------------------------------------------------------
(* The tasks that stay in the queues.                                       *)

\* A push loses no task, and the task pushed is there if the thread lives.
LEMMA DispatchKeeps ==
  ASSUME TypeOK, NEW l \in Loops \cup {NoLoop}, NEW t \in LoopTask, Dispatch(l, t)
  PROVE  /\ \A m \in Loops : Tasks(m) \subseteq Tasks(m)'
         /\ Alive(l) => t \in Tasks(l)'
<1>1. CASE Alive(l)
  <2>1. l \in Loops /\ queue[l] \in Seq(LoopTask) /\ queue \in [Loops -> Seq(LoopTask)]
    BY <1>1 DEF Alive, TypeOK
  <2>2. queue' = [queue EXCEPT ![l] = Append(queue[l], t)]
    BY <1>1 DEF Dispatch
  <2>3. queue'[l] = Append(queue[l], t) /\ \A m \in Loops : m # l => queue'[m] = queue[m]
    BY <2>1, <2>2
  <2>4. /\ DOMAIN queue'[l] = 1..(Len(queue[l]) + 1)
        /\ DOMAIN queue[l] = 1..Len(queue[l])
        /\ \A k \in DOMAIN queue[l] : queue'[l][k] = queue[l][k]
        /\ queue'[l][Len(queue[l]) + 1] = t
        /\ Len(queue[l]) \in Nat
    BY <2>1, <2>3, AppendTask
  <2>5. Tasks(l) \subseteq Tasks(l)' /\ t \in Tasks(l)'
    <3>1. DOMAIN queue[l] \subseteq DOMAIN queue'[l] /\ Len(queue[l]) + 1 \in DOMAIN queue'[l]
      BY <2>4
    <3>2. QED
      BY <2>4, <3>1 DEF Tasks
  <2>6. QED
    BY <2>3, <2>5 DEF Tasks
<1>2. CASE ~Alive(l)
  BY <1>2 DEF Dispatch, Tasks
<1>3. QED
  BY <1>1, <1>2

\* Taking the head of a queue loses only that task, also when another is pushed.
LEMMA TakeKeeps ==
  ASSUME TypeOK, NEW l \in Loops, lpc[l] = "drain", inBatch[l] > 0,
         Take(l) \/ \E t \in LoopTask : TakeAndDispatch(l, t)
  PROVE  \A m \in Loops : \A s \in Tasks(m) :
           s \in Tasks(m)' \/ (m = l /\ s = Head(queue[l]))
<1>1. queue[l] \in Seq(LoopTask) /\ Len(queue[l]) > 0 /\ queue \in [Loops -> Seq(LoopTask)]
  BY HeadTask DEF TypeOK
<1> DEFINE q == Tail(queue[l])
<1>2. /\ DOMAIN q = 1..(Len(queue[l]) - 1)
      /\ DOMAIN queue[l] = 1..Len(queue[l])
      /\ \A k \in DOMAIN q : q[k] = queue[l][k + 1]
      /\ Head(queue[l]) = queue[l][1]
      /\ Len(queue[l]) \in Nat
      /\ q \in Seq(LoopTask)
  BY <1>1, TailTask
<1> HIDE DEF q
<1>3. \A m \in Loops : m # l => queue'[m] = queue[m]
  BY <1>1 DEF Take, TakeAndDispatch
<1>4. DOMAIN q \subseteq DOMAIN queue'[l] /\ \A k \in DOMAIN q : queue'[l][k] = q[k]
  <2>1. CASE Take(l)
    BY <1>1, <2>1 DEF Take, q
  <2>2. ASSUME NEW t \in LoopTask, TakeAndDispatch(l, t)
        PROVE  DOMAIN q \subseteq DOMAIN queue'[l] /\ \A k \in DOMAIN q : queue'[l][k] = q[k]
    <3>1. queue'[l] = Append(q, t)
      BY <1>1, <2>2 DEF TakeAndDispatch, q
    <3>2. /\ DOMAIN Append(q, t) = 1..(Len(q) + 1)
          /\ DOMAIN q = 1..Len(q)
          /\ \A k \in DOMAIN q : Append(q, t)[k] = q[k]
          /\ Len(q) \in Nat
      BY <1>2, AppendTask
    <3>3. QED
      BY <3>1, <3>2
  <2>3. QED
    BY <2>1, <2>2
<1>5. ASSUME NEW k \in DOMAIN queue[l], k # 1
      PROVE  queue[l][k] \in Tasks(l)'
  <2>1. k - 1 \in DOMAIN q /\ q[k - 1] = queue[l][k]
    BY <1>2, <1>5
  <2>2. QED
    BY <1>4, <2>1 DEF Tasks
<1>6. QED
  BY <1>2, <1>3, <1>5 DEF Tasks

-----------------------------------------------------------------------------
(* EasyInOnePlace.                                                          *)

LEMMA WaitingQueuedStep ==
  ASSUME IndInv, WaitingQueued, Next
  PROVE  WaitingQueued'
<1> USE DEF clientVars, loopVars, futureVars, sharedVars, ownerVars, curlVars
<1>1. TypeOK
  BY DEF IndInv
<1>2. ASSUME NEW r \in Req, easy[r] = "queue"
      PROVE  /\ cm[r] \in Loops
             /\ \E t \in Tasks(cm[r]) : t.kind = "Construct" /\ t.req = r
  BY <1>2 DEF WaitingQueued, Queued
<1>3. ASSUME \A r \in Req : easy'[r] = "queue" => easy[r] = "queue" /\ cm'[r] = cm[r],
             \A m \in Loops : \A s \in Tasks(m) :
               s.kind = "Construct" /\ s.req \in Req /\ easy'[s.req] = "queue" => s \in Tasks(m)'
      PROVE  WaitingQueued'
  BY <1>2, <1>3 DEF WaitingQueued, Queued
<1>4. ASSUME NEW r \in Req, Begin(r) \/ PollFuture(r) \/ Cancel(r) \/ PollBody(r) \/ Close(r)
      PROVE  WaitingQueued'
  <2>1. CASE Acquire(r)
    <3>1. easy[r] = "client" /\ queue' = queue /\ easy' = easy
      BY <2>1 DEF Acquire, IndInv, FutureConsistent
    <3>2. \A q \in Req : q # r => cm'[q] = cm[q]
      BY <1>1, <2>1 DEF Acquire, TypeOK
    <3>3. QED
      BY <1>3, <3>1, <3>2 DEF Tasks
  <2>2. CASE Begin(r) \/ PollStart(r) \/ Replace(r) \/ PollWait2(r) \/ ReadData(r) \/ ReadEnd(r)
    <3>1. queue' = queue /\ cm' = cm
      BY <2>2 DEF Begin, PollStart, Replace, PollWait2, ReadData, ReadEnd
    <3>2. \A q \in Req : easy'[q] = "queue" => easy[q] = "queue"
      BY <1>1, <2>2 DEF Begin, PollStart, Replace, PollWait2, ReadData, ReadEnd, TypeOK
    <3>3. QED
      BY <1>3, <3>1, <3>2 DEF Tasks
  <2>6. CASE SubmitRefused(r)
    <3>1. queue' = queue /\ cm' = cm /\ easy' = easy
      BY <2>6 DEF SubmitRefused
    <3>2. QED
      BY <1>3, <3>1 DEF Tasks
  <2>3. CASE Submit(r)
    <3>1. PICK l \in Loops \cup {NoLoop}, t \in LoopTask :
            l = cm[r] /\ t = Task("Construct", r, NoId)
      BY TaskType DEF IndInv, TypeOK
    <3>2. /\ \A m \in Loops : Tasks(m) \subseteq Tasks(m)'
          /\ Alive(l) => t \in Tasks(l)'
          /\ t.kind = "Construct" /\ t.req = r
      BY <1>1, <2>3, <3>1, DispatchKeeps DEF Submit, Task
    <3>3. \A q \in Req : easy'[q] = "queue" => easy[q] = "queue" \/ (q = r /\ Alive(l))
      BY <1>1, <2>3, <3>1 DEF Submit, TypeOK
    <3>4. cm' = cm
      BY <2>3 DEF Submit
    <3>5. ASSUME NEW q \in Req, easy'[q] = "queue", NEW m, m = cm[q]
          PROVE  m \in Loops /\ \E s \in Tasks(m)' : s.kind = "Construct" /\ s.req = q
      <4>1. CASE easy[q] = "queue"
        <5>1. m \in Loops /\ \E s \in Tasks(m) : s.kind = "Construct" /\ s.req = q
          BY <1>2, <3>5, <4>1
        <5>2. QED
          BY <3>2, <5>1
      <4>2. CASE q = r /\ Alive(l)
        BY <3>1, <3>2, <3>5, <4>2 DEF Alive
      <4>3. QED
        BY <3>3, <3>5, <4>1, <4>2
    <3>6. ASSUME NEW q \in Req, easy'[q] = "queue"
          PROVE  cm'[q] \in Loops /\ q \in Queued(cm[q], "Construct")'
      <4>1. PICK m : m = cm[q]
        OBVIOUS
      <4>2. m \in Loops /\ q \in Queued(m, "Construct")'
        BY <3>5, <3>6, <4>1 DEF Queued
      <4>3. QED
        BY <3>4, <4>1, <4>2 DEF Queued, Tasks
    <3>7. QED
      BY <3>6 DEF WaitingQueued
  <2>4. CASE PollWait1(r) \/ SendQuery(r) \/ Cancel(r) \/ ReadWait(r) \/ Close(r)
    <3>1. PICK l \in Loops \cup {NoLoop}, i \in Ids \cup {NoId} : l = cm[r] /\ i = hid[r]
      BY DEF IndInv, TypeOK
    <3>2. \/ queue' = queue
          \/ Dispatch(l, Task("Drop", r, i))
          \/ Dispatch(l, Task("Query", r, i))
          \/ Dispatch(l, Task("UnpauseRecv", r, i))
      BY <2>4, <3>1 DEF PollWait1, SendQuery, Cancel, ReadWait, Close, ReleaseHandle
    <3>3. \A m \in Loops : Tasks(m) \subseteq Tasks(m)'
      BY <1>1, <3>2, DispatchKeeps, TaskType DEF Tasks
    <3>4. cm' = cm
      BY <2>4 DEF PollWait1, SendQuery, Cancel, ReadWait, Close
    <3>5. \A q \in Req : easy'[q] = "queue" => easy[q] = "queue"
      BY <1>1, <2>4 DEF PollWait1, SendQuery, Cancel, ReadWait, Close, TypeOK
    <3>6. QED
      BY <1>3, <3>3, <3>4, <3>5
  <2>5. QED
    BY <1>4, <2>1, <2>2, <2>3, <2>4, <2>6 DEF PollFuture, PollBody
<1>5. ASSUME NEW l \in Loops, PollReturn(l) \/ LoopThread(l) \/ LoopFail(l)
      PROVE  WaitingQueued'
  <2>1. cm' = cm
    BY <1>5 DEF PollReturn, LoopThread, LoopFail, DrainTask, DrainDone, ConstructHandle,
       QueryStored, QueryFailed, UnpauseRecv, UnpauseRecvFailed, DropHandle, Shutdown,
       Messages, DropInner
  <2>2. CASE PollReturn(l) \/ DrainDone(l) \/ Messages(l) \/ LoopFail(l)
    <3>1. queue' = queue /\ easy' = easy
      BY <2>2 DEF PollReturn, DrainDone, Messages, LoopFail
    <3>2. QED
      BY <1>3, <2>1, <3>1 DEF Tasks
  <2>3. CASE DrainTask(l)
    <3>1. lpc[l] = "drain" /\ inBatch[l] > 0
      BY <2>3 DEF DrainTask, ConstructHandle, QueryStored, QueryFailed, UnpauseRecv,
         UnpauseRecvFailed, DropHandle, Shutdown, HasTask
    <3>2. PICK h \in LoopTask : h = Head(queue[l])
      BY <1>1, <3>1, HeadTask
    <3>3. h \in Tasks(l)
      <4>1. queue[l] \in Seq(LoopTask) /\ Len(queue[l]) > 0
        BY <1>1, <3>1, HeadTask DEF TypeOK
      <4>2. QED
        BY <3>2, <4>1, TailTask DEF Tasks
    <3>4. TaskOK(l, h)
      BY <3>3 DEF IndInv, TaskConsistent
    <3>5. Take(l) \/ \E t \in LoopTask : TakeAndDispatch(l, t)
      <4>1. CASE QueryFailed(l)
        <5>1. h.kind = "Query"
          BY <3>2, <4>1 DEF QueryFailed, HasTask
        <5>2. h.req \in Req \cup {NoReq} /\ h.id \in Ids \cup {NoId}
          BY <3>2 DEF LoopTask
        <5>3. Task("Drop", h.req, h.id) \in LoopTask
          BY <5>2, TaskType
        <5>4. QED
          BY <3>2, <4>1, <5>3 DEF QueryFailed
      <4>2. CASE ~QueryFailed(l)
        BY <2>3, <4>2 DEF DrainTask, ConstructHandle, QueryStored, UnpauseRecv,
           UnpauseRecvFailed, DropHandle, Shutdown
      <4>3. QED
        BY <4>1, <4>2
    <3>6. \A m \in Loops : \A s \in Tasks(m) : s \in Tasks(m)' \/ s = h
      BY <1>1, <3>1, <3>2, <3>5, TakeKeeps
    <3>7. \A q \in Req : easy'[q] = "queue" => easy[q] = "queue"
      <4>1. \/ easy' = easy
            \/ \E q, v : v \in {"slab", "freed"} /\ easy' = [easy EXCEPT ![q] = v]
        BY <2>3 DEF DrainTask, ConstructHandle, QueryStored, QueryFailed, UnpauseRecv,
           UnpauseRecvFailed, DropHandle, Shutdown
      <4>2. QED
        BY <1>1, <4>1 DEF TypeOK
    <3>8. h.kind = "Construct" => h.req \in Req /\ easy'[h.req] = "slab"
      <4>1. ASSUME h.kind = "Construct" PROVE easy'[h.req] = "slab" /\ h.req \in Req
        <5>1. ConstructHandle(l)
          BY <2>3, <3>2, <4>1 DEF DrainTask, QueryStored, QueryFailed, UnpauseRecv,
             UnpauseRecvFailed, DropHandle, Shutdown, HasTask
        <5>2. h.req \in Req
          BY <3>4, <4>1 DEF TaskOK
        <5>3. QED
          BY <1>1, <3>2, <5>1, <5>2 DEF ConstructHandle, TypeOK
      <4>2. QED
        BY <4>1
    <3>9. QED
      BY <1>3, <2>1, <3>6, <3>7, <3>8
  <2>4. CASE DropInner(l)
    <3>1. \A q \in Req : easy'[q] = "queue" => easy[q] = "queue" /\ q \notin Queued(l, "Construct")
      BY <2>4 DEF DropInner
    <3>2. \A m \in Loops : m # l => queue'[m] = queue[m]
      BY <1>1, <2>4 DEF DropInner, TypeOK
    <3>3. \A m \in Loops : \A s \in Tasks(m) : m # l => s \in Tasks(m)'
      BY <3>2 DEF Tasks
    <3>4. QED
      BY <1>3, <2>1, <3>1, <3>3 DEF Queued
  <2>5. QED
    BY <1>5, <2>2, <2>3, <2>4 DEF LoopThread
<1>6. ASSUME NEW l \in Loops, NEW r \in Req, Perform(l, r) PROVE WaitingQueued'
  <2>1. queue' = queue /\ easy' = easy /\ cm' = cm
    BY <1>6 DEF Perform, HeaderCallback, WriteCallback, Complete
  <2>2. QED
    BY <1>3, <2>1 DEF Tasks
<1>7. CASE DropClient
  <2>1. PICK l \in Loops \cup {NoLoop} : l = mgr
    BY <1>1 DEF TypeOK
  <2>2. Task("Shutdown", NoReq, NoId) \in LoopTask
    BY TaskType
  <2>3. \A m \in Loops : Tasks(m) \subseteq Tasks(m)'
    BY <1>1, <1>7, <2>1, <2>2, DispatchKeeps DEF DropClient
  <2>4. easy' = easy /\ cm' = cm
    BY <1>7 DEF DropClient
  <2>5. QED
    BY <1>3, <2>3, <2>4
<1>8. QED
  BY <1>4, <1>5, <1>6, <1>7 DEF Next

\* An easy handle is never in two places nor lost: with its future, in one
\* queued task, under one key of one slab, handed back, or freed.
THEOREM EasyHasOneOwner == Spec => []EasyInOnePlace
<1>1. Init => WaitingQueued
  BY DEF Init, WaitingQueued
<1>2. IndInv /\ WaitingQueued /\ [Next]_vars => WaitingQueued'
  <2>1. UNCHANGED vars /\ WaitingQueued => WaitingQueued'
    BY DEF vars, clientVars, loopVars, futureVars, ownerVars, WaitingQueued, Queued, Tasks
  <2>2. QED
    BY <2>1, WaitingQueuedStep
<1>3. IndInv /\ WaitingQueued => EasyInOnePlace
  <2> SUFFICES ASSUME IndInv, WaitingQueued, NEW r \in Req
               PROVE  /\ easy[r] = "client" <=> pc[r] \in {"acquire", "submit", "replace"}
                      /\ easy[r] = "shared" <=> result[r] = "EasyLost"
                      /\ \A l \in Loops :
                           /\ r \in Queued(l, "Construct") <=> easy[r] = "queue" /\ l = cm[r]
                           /\ r \in Owned(l) <=> easy[r] = "slab" /\ l = cm[r]
                           /\ \A i, j \in Ids : slab[l][i] = r /\ slab[l][j] = r => i = j
    BY DEF EasyInOnePlace
  <2>1. /\ easy[r] = "client" <=> pc[r] \in {"acquire", "submit", "replace"}
        /\ easy[r] = "shared" <=> result[r] = "EasyLost"
    BY DEF IndInv, FutureConsistent
  <2>2. \A l \in Loops : r \in Queued(l, "Construct") <=> easy[r] = "queue" /\ l = cm[r]
    BY DEF IndInv, TaskConsistent, TaskOK, WaitingQueued, Queued
  <2>3. \A l \in Loops : r \in Owned(l) <=> easy[r] = "slab" /\ l = cm[r]
    BY DEF IndInv, SlabConsistent, Owned
  <2>4. \A l \in Loops : \A i, j \in Ids : slab[l][i] = r /\ slab[l][j] = r => i = j
    BY DEF IndInv, SlabConsistent
  <2>5. QED
    BY <2>1, <2>2, <2>3, <2>4
<1>4. QED
  BY <1>1, <1>2, <1>3, InvariantHolds, PTL DEF Spec

-----------------------------------------------------------------------------
(* One live thread.                                                        *)

LEMMA OneLiveLoopStep ==
  ASSUME IndInv, OneLiveLoop, Next
  PROVE  OneLiveLoop'
<1> USE DEF clientVars, loopVars, futureVars, sharedVars, ownerVars, curlVars
<1>1. TypeOK
  BY DEF IndInv
<1>2. ASSUME cm' = cm, mgr' = mgr, refused \subseteq refused',
             \A l \in Loops : Alive(l)' => Alive(l),
             \A r \in Req : easy'[r] = "shared" =>
               easy[r] = "shared" \/ \A l \in Loops : l = cm[r] => ~Alive(l)',
             \A r \in Req : pc'[r] = "replace" =>
               pc[r] = "replace" \/ easy[r] = "shared"
                 \/ \A l \in Loops : l = cm[r] => ~Alive(l)' \/ l \in refused'
      PROVE  OneLiveLoop'
  <2>1. \A r \in Req : Alive(cm[r])' => Alive(cm[r]) /\ cm[r] \in Loops
    BY <1>2 DEF Alive
  <2>2. ASSUME NEW r \in Req, Alive(cm[r])'
        PROVE  cm'[r] = mgr' \/ cm'[r] \in refused'
    BY <1>2, <2>1, <2>2 DEF OneLiveLoop
  <2>3. ASSUME NEW r \in Req, pc'[r] = "replace", Alive(cm[r])'
        PROVE  cm'[r] \in refused'
    BY <1>2, <2>1, <2>3 DEF OneLiveLoop, Alive
  <2>4. ASSUME NEW r \in Req, easy'[r] = "shared"
        PROVE  ~Alive(cm[r])'
    BY <1>2, <2>1, <2>4 DEF OneLiveLoop, Alive
  <2>5. QED
    BY <2>2, <2>3, <2>4 DEF OneLiveLoop
<1>3. ASSUME NEW r \in Req, Acquire(r) \/ Replace(r)
      PROVE  OneLiveLoop'
  <2>1. /\ easy' = easy
        /\ pc'[r] # "replace" /\ \A q \in Req : q # r => pc'[q] = pc[q]
        /\ Acquire(r) => easy[r] = "client"
        /\ \A q \in Req : q # r => cm'[q] = cm[q]
        /\ IF Acquire(r) THEN cm'[r] = mgr' ELSE cm'[r] = cm[r]
    BY <1>1, <1>3 DEF Acquire, Replace, GoTo, TypeOK, IndInv, FutureConsistent
  <2>2. UNCHANGED refused
    BY <1>3 DEF Acquire, Replace
  <2>3. CASE UNCHANGED <<mgr, lpc>>
    <3>1. \A l : Alive(l)' <=> Alive(l)
      BY <2>3 DEF Alive
    <3>2. ASSUME NEW q \in Req, cm'[q] = cm[q], pc'[q] = "replace" => pc[q] = "replace"
          PROVE  /\ Alive(cm'[q]) => cm'[q] = mgr' \/ cm'[q] \in refused'
                 /\ pc'[q] = "replace" => ~Alive(cm'[q]) \/ cm'[q] \in refused'
                 /\ easy'[q] = "shared" => ~Alive(cm'[q])
      BY <2>1, <2>2, <2>3, <3>2 DEF OneLiveLoop
    <3>3. Acquire(r) => easy'[r] # "shared"
      BY <2>1
    <3>4. \A q \in Req : /\ Alive(cm'[q]) => cm'[q] = mgr' \/ cm'[q] \in refused'
                         /\ pc'[q] = "replace" => ~Alive(cm'[q]) \/ cm'[q] \in refused'
                         /\ easy'[q] = "shared" => ~Alive(cm'[q])
      BY <2>1, <3>2, <3>3
    <3>5. QED
      BY <3>1, <3>4 DEF OneLiveLoop
  <2>4. ASSUME NEW l \in Loops, SpawnLoop(l), ~Alive(mgr) \/ mgr \in refused
        PROVE  OneLiveLoop'
    <3>1. \A q \in Req : cm[q] # l /\ (Alive(cm[q]) => cm[q] \in refused)
      BY <2>4 DEF SpawnLoop, Fresh, OneLiveLoop, IndInv, ManagersStarted
    <3>2. /\ mgr' = l /\ \A k \in Loops : k # l => lpc'[k] = lpc[k]
      BY <1>1, <2>4 DEF SpawnLoop, TypeOK
    <3>3. \A k : k # l => (Alive(k)' <=> Alive(k))
      BY <3>2 DEF Alive
    <3>4. ASSUME NEW q \in Req, cm'[q] = cm[q]
          PROVE  /\ Alive(cm[q])' => cm'[q] \in refused'
                 /\ easy'[q] = "shared" => ~Alive(cm[q])'
      BY <2>1, <2>2, <3>1, <3>3, <3>4 DEF OneLiveLoop
    <3>5. Acquire(r) => easy'[r] # "shared" /\ cm'[r] = mgr'
      BY <2>1
    <3>6. \A q \in Req : /\ Alive(cm[q])' => cm'[q] = mgr' \/ cm'[q] \in refused'
                         /\ easy'[q] = "shared" => ~Alive(cm[q])'
                         /\ pc'[q] = "replace" => cm'[q] = cm[q]
      BY <2>1, <3>4, <3>5
    <3>7. \A q \in Req : pc'[q] = "replace" /\ Alive(cm[q])' => cm'[q] \in refused'
      BY <3>4, <3>6
    <3>8. QED
      BY <3>6, <3>7 DEF OneLiveLoop
  <2>5. (\E l \in Loops : SpawnLoop(l)) \/ UNCHANGED <<mgr, lpc>>
    BY <1>3 DEF Acquire, Replace
  <2>6. UNCHANGED <<mgr, lpc>> \/ ~Alive(mgr) \/ mgr \in refused
    <3>1. CASE Acquire(r)
      BY <3>1, ConstantsAssumption DEF Acquire, Alive
    <3>2. CASE Replace(r)
      BY <3>2 DEF Replace, OneLiveLoop
    <3>3. QED
      BY <1>3, <3>1, <3>2
  <2>7. QED
    BY <2>3, <2>4, <2>5, <2>6
<1>4. ASSUME NEW r \in Req, Submit(r) \/ SubmitRefused(r)
      PROVE  OneLiveLoop'
  <2>1. /\ cm' = cm /\ mgr' = mgr /\ lpc' = lpc /\ refused \subseteq refused'
        /\ \A q \in Req : easy'[q] = "shared" => easy[q] = "shared"
        /\ \A q \in Req : q # r => pc'[q] = pc[q]
    BY <1>1, <1>4 DEF Submit, SubmitRefused, GoTo, TypeOK
  <2>2. pc'[r] = "replace" => ~Alive(cm[r]) \/ cm[r] \in refused'
    BY <1>1, <1>4 DEF Submit, SubmitRefused, GoTo, TypeOK
  <2>3. \A l : Alive(l)' <=> Alive(l)
    BY <2>1 DEF Alive
  <2>4. \A q \in Req : pc'[q] = "replace" =>
          pc[q] = "replace" \/ \A l \in Loops : l = cm[q] => ~Alive(l)' \/ l \in refused'
    BY <2>1, <2>2, <2>3
  <2>5. QED
    BY <1>2, <2>1, <2>3, <2>4
<1>5. ASSUME NEW r \in Req, PollStart(r)
      PROVE  OneLiveLoop'
  <2>1. cm' = cm /\ mgr' = mgr /\ lpc' = lpc /\ refused' = refused
    BY <1>5 DEF PollStart
  <2>2. \A q \in Req : easy'[q] = "shared" => easy[q] = "shared"
    BY <1>1, <1>5 DEF PollStart, TypeOK
  <2>3. \A q \in Req : pc'[q] = "replace" => pc[q] = "replace" \/ easy[q] = "shared"
    BY <1>1, <1>5 DEF PollStart, GoTo, TypeOK, IndInv, FutureConsistent
  <2>4. QED
    BY <1>2, <2>1, <2>2, <2>3 DEF Alive
<1>6. ASSUME NEW r \in Req, \/ Begin(r) \/ PollWait1(r) \/ SendQuery(r) \/ PollWait2(r)
                            \/ Cancel(r) \/ PollBody(r) \/ Close(r)
      PROVE  OneLiveLoop'
  <2>1. cm' = cm /\ mgr' = mgr /\ lpc' = lpc /\ refused' = refused
    BY <1>6
    DEF Begin, PollWait1, SendQuery, PollWait2, Cancel, PollBody, ReadData, ReadEnd,
       ReadWait, Close
  <2>2. \A q \in Req : easy'[q] = "shared" => easy[q] = "shared"
    BY <1>1, <1>6 DEF Begin, PollWait1, SendQuery, PollWait2, Cancel, PollBody, ReadData,
       ReadEnd, ReadWait, Close, TypeOK
  <2>3. \A q \in Req : pc'[q] = "replace" => pc[q] = "replace"
    BY <1>1, <1>6 DEF Begin, PollWait1, SendQuery, PollWait2, Cancel, PollBody, ReadData,
       ReadEnd, ReadWait, Close, GoTo, TypeOK
  <2>4. QED
    BY <1>2, <2>1, <2>2, <2>3 DEF Alive
<1>7. ASSUME NEW l \in Loops, PollReturn(l) \/ LoopThread(l) \/ LoopFail(l)
      PROVE  OneLiveLoop'
  <2>1. cm' = cm /\ mgr' = mgr /\ pc' = pc /\ refused' = refused
    BY <1>7 DEF PollReturn, LoopThread, LoopFail, DrainTask, DrainDone, ConstructHandle,
       QueryStored, QueryFailed, UnpauseRecv, UnpauseRecvFailed, DropHandle, Shutdown,
       Messages, DropInner
  <2>2. CASE DropInner(l)
    <3>1. ASSUME NEW r \in Req, easy'[r] = "shared"
          PROVE  easy[r] = "shared" \/ cm[r] = l
      BY <2>2, <3>1 DEF DropInner, Queued, IndInv, TaskConsistent, TaskOK
    <3>2. ~Alive(l)' /\ \A k \in Loops : Alive(k)' => Alive(k)
      BY <1>1, <2>2 DEF DropInner, TypeOK, Alive
    <3>3. QED
      BY <1>2, <2>1, <3>1, <3>2
  <2>3. CASE PollReturn(l) \/ DrainTask(l) \/ DrainDone(l) \/ Messages(l) \/ LoopFail(l)
    <3>1. \A r \in Req : easy'[r] = "shared" => easy[r] = "shared"
      <4>1. easy' = easy \/ \E q : \E v \in {"slab", "freed"} : easy' = [easy EXCEPT ![q] = v]
        BY <2>3
        DEF PollReturn, LoopFail, DrainTask, DrainDone, ConstructHandle, QueryStored,
           QueryFailed, UnpauseRecv, UnpauseRecvFailed, DropHandle, Shutdown, Messages
      <4>2. QED
        BY <1>1, <4>1 DEF TypeOK
    <3>2. lpc' = lpc \/ lpc[l] \in {"poll", "drain", "perform"}
      BY <2>3
      DEF PollReturn, LoopFail, DrainTask, DrainDone, ConstructHandle, QueryStored,
         QueryFailed, UnpauseRecv, UnpauseRecvFailed, DropHandle, Shutdown, Messages
    <3>3. \A k \in Loops : k # l => lpc'[k] = lpc[k]
      BY <1>1, <2>3 DEF PollReturn, LoopFail, DrainTask, DrainDone, ConstructHandle,
         QueryStored, QueryFailed, UnpauseRecv, UnpauseRecvFailed, DropHandle, Shutdown,
         Messages, EndOfRound, TypeOK
    <3>4. \A k \in Loops : Alive(k)' => Alive(k)
      BY <3>2, <3>3 DEF Alive
    <3>5. QED
      BY <1>2, <2>1, <3>1, <3>4
  <2>4. QED
    BY <1>7, <2>2, <2>3 DEF LoopThread
<1>8. ASSUME NEW l \in Loops, NEW r \in Req, Perform(l, r) PROVE OneLiveLoop'
  BY <1>2, <1>8 DEF Perform, HeaderCallback, WriteCallback, Complete, Alive
<1>9. CASE DropClient
  BY <1>2, <1>9 DEF DropClient, Alive
<1>10. QED
  BY <1>3, <1>4, <1>5, <1>6, <1>7, <1>8, <1>9 DEF Next, PollFuture

-----------------------------------------------------------------------------
(* Transfers in progress.                                                  *)

\* The task a thread takes off its queue.
LEMMA HeadOK ==
  ASSUME IndInv, NEW l \in Loops, DrainTask(l)
  PROVE  /\ lpc[l] = "drain" /\ inBatch[l] > 0
         /\ Head(queue[l]) \in LoopTask /\ TaskOK(l, Head(queue[l]))
<1>1. lpc[l] = "drain" /\ inBatch[l] > 0
  BY DEF DrainTask, ConstructHandle, QueryStored, QueryFailed, UnpauseRecv,
     UnpauseRecvFailed, DropHandle, Shutdown, HasTask
<1>2. queue[l] \in Seq(LoopTask) /\ Len(queue[l]) > 0 /\ Head(queue[l]) \in LoopTask
  BY <1>1, HeadTask DEF IndInv, TypeOK
<1>3. Head(queue[l]) \in Tasks(l)
  BY <1>2, TailTask DEF Tasks
<1>4. QED
  BY <1>1, <1>2, <1>3 DEF IndInv, TaskConsistent

\* One request's part of ProgressInSlab.
ProgressOf(r) ==
  result[r] = "InProgress" =>
    /\ pc[r] \in {"starting", "wait1", "query", "wait2"} => easy[r] = "slab"
    /\ pc[r] = "wait2" => handle[r] # "gone"
    /\ \A l \in Loops : lpc[l] = "exiting" => r \notin Owned(l)

LEMMA ProgressFutureStep ==
  ASSUME IndInv, NEW r \in Req, ProgressOf(r), NEW q \in Req,
         Begin(q) \/ PollFuture(q) \/ Cancel(q) \/ PollBody(q) \/ Close(q)
  PROVE  ProgressOf(r)'
<1> USE DEF clientVars, loopVars, futureVars, sharedVars, ownerVars, curlVars
<1>1. TypeOK
  BY DEF IndInv
<1>2. slab' = slab
  BY DEF PollFuture, PollBody, Begin, Acquire, Submit, SubmitRefused, PollStart, Replace, PollWait1,
     SendQuery, PollWait2, Cancel, ReadData, ReadEnd, ReadWait, Close
<1>3. \A l \in Loops : lpc'[l] = "exiting" => lpc[l] = "exiting"
  <2>1. lpc' = lpc \/ \E k \in Loops : lpc' = [lpc EXCEPT ![k] = "poll"]
    BY DEF PollFuture, PollBody, Begin, Acquire, Submit, SubmitRefused, PollStart, Replace, SpawnLoop,
       PollWait1, SendQuery, PollWait2, Cancel, ReadData, ReadEnd, ReadWait, Close
  <2>2. QED
    BY <1>1, <2>1 DEF TypeOK
<1>4. result'[r] = "InProgress" => result[r] = "InProgress"
  <2>1. result' = result \/ result' = [result EXCEPT ![q] = "Init"]
    BY DEF PollFuture, PollBody, Begin, Acquire, Submit, SubmitRefused, PollStart, Replace,
       PollWait1, SendQuery, PollWait2, Cancel, ReadData, ReadEnd, ReadWait, Close
  <2>2. QED
    BY <1>1, <2>1 DEF TypeOK
<1>5. CASE q # r
  <2>1. pc'[r] = pc[r] /\ handle'[r] = handle[r] /\ easy'[r] = easy[r]
    BY <1>1, <1>5 DEF PollFuture, PollBody, Begin, Acquire, Submit, SubmitRefused, PollStart, Replace,
       PollWait1, SendQuery, PollWait2, Cancel, ReadData, ReadEnd, ReadWait, Close,
       ReleaseHandle, GoTo, TypeOK
  <2>2. QED
    BY <1>2, <1>3, <1>4, <2>1 DEF ProgressOf, Owned
<1>6. CASE q = r
  <2>1. CASE Begin(r) \/ Acquire(r) \/ Submit(r) \/ SubmitRefused(r) \/ Replace(r)
    <3>1. pc[r] \in {"idle", "acquire", "submit", "replace"}
      BY <2>1 DEF Begin, Acquire, Submit, SubmitRefused, Replace
    <3>2. result[r] # "InProgress"
      BY <3>1 DEF IndInv, FutureConsistent
    <3>3. QED
      BY <1>4, <3>2 DEF ProgressOf
  <2>2. CASE PollStart(r) \/ PollWait1(r) \/ SendQuery(r) \/ PollWait2(r)
    <3>1. ASSUME result[r] = "InProgress", result'[r] = "InProgress",
                 pc'[r] \in {"starting", "wait1", "query", "wait2"}
          PROVE  easy'[r] = "slab" /\ (pc'[r] = "wait2" => handle'[r] # "gone")
      BY <1>1, <2>2, <3>1
      DEF PollStart, PollWait1, SendQuery, PollWait2, ProgressOf, GoTo, TypeOK
    <3>2. QED
      BY <1>2, <1>3, <1>4, <3>1 DEF ProgressOf, Owned
  <2>3. CASE Cancel(r) \/ PollBody(r) \/ Close(r)
    <3>1. pc'[r] \notin {"starting", "wait1", "query", "wait2"}
      BY <1>1, <2>3 DEF Cancel, PollBody, ReadData, ReadEnd, ReadWait, Close, GoTo, TypeOK
    <3>2. QED
      BY <1>2, <1>3, <1>4, <3>1 DEF ProgressOf, Owned
  <2>4. QED
    BY <1>6, <2>1, <2>2, <2>3 DEF PollFuture
<1>7. QED
  BY <1>5, <1>6

LEMMA ProgressDrainStep ==
  ASSUME IndInv, NEW r \in Req, ProgressOf(r), NEW l \in Loops, DrainTask(l)
  PROVE  ProgressOf(r)'
<1> USE DEF clientVars, loopVars, futureVars, sharedVars, ownerVars, curlVars
<1>1. TypeOK
  BY DEF IndInv
<1>2. PICK h : h = Head(queue[l]) /\ h \in LoopTask /\ TaskOK(l, h)
  BY HeadOK
<1>3. lpc' = lpc /\ pc' = pc /\ lpc[l] = "drain"
  BY HeadOK DEF DrainTask, ConstructHandle, QueryStored, QueryFailed, UnpauseRecv,
     UnpauseRecvFailed, DropHandle, Shutdown
<1>4. CASE UnpauseRecv(l) \/ Shutdown(l)
  BY <1>4 DEF UnpauseRecv, Shutdown, ProgressOf, Owned
<1>5. CASE QueryStored(l) \/ QueryFailed(l)
  <2>1. h.req \in Req /\ slab' = slab /\ easy' = easy
    BY <1>2, <1>5 DEF QueryStored, QueryFailed, HasTask, TaskOK
  <2>2. /\ handle'[r] = handle[r] \/ (r = h.req /\ handle'[r] = "shared")
             \/ (r = h.req /\ result'[r] = "DoneErr")
        /\ result'[r] = result[r] \/ result'[r] = "DoneErr"
    BY <1>1, <1>2, <1>5, <2>1 DEF QueryStored, QueryFailed, TypeOK
  <2>3. QED
    BY <1>3, <2>1, <2>2 DEF ProgressOf, Owned
<1>6. CASE UnpauseRecvFailed(l)
  <2>1. /\ slab' = slab /\ easy' = easy /\ handle' = handle
        /\ \E o \in Req : result' = [result EXCEPT ![o] = "DoneErr"]
    BY <1>6 DEF UnpauseRecvFailed
  <2>2. result'[r] = result[r] \/ result'[r] = "DoneErr"
    BY <1>1, <2>1 DEF TypeOK
  <2>3. QED
    BY <1>3, <2>1, <2>2 DEF ProgressOf, Owned
<1>7. CASE ConstructHandle(l)
  <2>1. h.req \in Req /\ easy[h.req] = "queue" /\ handle' = handle
    BY <1>2, <1>7 DEF ConstructHandle, HasTask, TaskOK
  <2>2. /\ result' = [result EXCEPT ![h.req] = "InProgress"]
        /\ easy' = [easy EXCEPT ![h.req] = "slab"]
        /\ \E i \in Ids : slab' = [slab EXCEPT ![l][i] = h.req]
    BY <1>2, <1>7 DEF ConstructHandle
  <2>3. \A k \in Loops : k # l => slab'[k] = slab[k]
    BY <1>1, <2>2 DEF TypeOK
  <2>4. CASE r = h.req
    <3>1. easy'[r] = "slab" /\ handle'[r] = "none"
      BY <1>1, <2>1, <2>2, <2>4 DEF TypeOK, IndInv, FutureConsistent
    <3>2. \A k \in Loops : r \notin Owned(k)
      BY <2>1, <2>4 DEF Owned, IndInv, SlabConsistent
    <3>3. QED
      BY <1>3, <2>3, <3>1, <3>2 DEF ProgressOf, Owned
  <2>5. CASE r # h.req
    <3>1. result'[r] = result[r] /\ easy'[r] = easy[r]
      BY <1>1, <2>2, <2>5 DEF TypeOK
    <3>2. QED
      BY <1>3, <2>1, <2>3, <3>1 DEF ProgressOf, Owned
  <2>6. QED
    BY <2>4, <2>5
<1>8. CASE DropHandle(l)
  <2>1. /\ h.req \in Req /\ slab[l][h.id] = h.req /\ handle[h.req] = "gone"
        /\ result' = result /\ handle' = handle
    BY <1>2, <1>8 DEF DropHandle, HasTask, TaskOK, IndInv, SlabConsistent
  <2>2. /\ easy' = [easy EXCEPT ![h.req] = "freed"]
        /\ slab' = [slab EXCEPT ![l][h.id] = NoReq]
    BY <1>2, <1>8, <2>1 DEF DropHandle
  <2>3. \A k \in Loops : k # l => slab'[k] = slab[k]
    BY <1>1, <2>2 DEF TypeOK
  <2>4. CASE r = h.req
    <3>1. result[r] = "InProgress" => pc[r] \notin {"starting", "wait1", "query", "wait2"}
      BY <2>1, <2>4 DEF IndInv, FutureConsistent, ProgressOf
    <3>2. QED
      BY <1>3, <2>1, <2>3, <3>1 DEF ProgressOf, Owned
  <2>5. CASE r # h.req
    <3>1. easy'[r] = easy[r]
      BY <1>1, <2>2, <2>5 DEF TypeOK
    <3>2. QED
      BY <1>3, <2>1, <2>3, <3>1 DEF ProgressOf, Owned
  <2>6. QED
    BY <2>4, <2>5
<1>9. QED
  BY <1>4, <1>5, <1>6, <1>7, <1>8 DEF DrainTask

LEMMA ProgressLoopStep ==
  ASSUME IndInv, NEW r \in Req, ProgressOf(r), NEW l \in Loops,
         PollReturn(l) \/ DrainDone(l) \/ Messages(l) \/ LoopFail(l) \/ DropInner(l)
  PROVE  ProgressOf(r)'
<1> USE DEF clientVars, loopVars, futureVars, sharedVars, ownerVars, curlVars
<1>1. TypeOK
  BY DEF IndInv
<1>2. CASE PollReturn(l) \/ DrainDone(l)
  <2>1. \A k \in Loops : lpc'[k] = "exiting" => lpc[k] = "exiting"
    BY <1>1, <1>2 DEF PollReturn, DrainDone, TypeOK
  <2>2. QED
    BY <1>2, <2>1 DEF PollReturn, DrainDone, ProgressOf, Owned
<1>3. CASE Messages(l) \/ LoopFail(l)
  <2>1. UNCHANGED <<pc, easy, handle, slab>>
    BY <1>3 DEF Messages, LoopFail
  <2>2. result'[r] = "InProgress" =>
          result[r] = "InProgress" /\ (LoopFail(l) => r \notin Owned(l))
    BY <1>3 DEF Messages, Publish, LoopFail, IsDone
  <2>3. \A k \in Loops : lpc'[k] = "exiting" =>
          lpc[k] = "exiting" \/ (k = l /\ (LoopFail(l) \/ Owned(l) = {}))
    BY <1>1, <1>3 DEF Messages, EndOfRound, LoopFail, TypeOK
  <2>4. QED
    BY <2>1, <2>2, <2>3 DEF ProgressOf, Owned
<1>4. CASE DropInner(l)
  <2>1. lpc[l] = "exiting" /\ pc' = pc
    BY <1>4 DEF DropInner
  <2>2. SUFFICES ASSUME result'[r] = "InProgress" PROVE ProgressOf(r)'
    BY DEF ProgressOf
  <2>3. result[r] = "InProgress" /\ r \notin Queued(l, "Construct")
    BY <1>4, <2>2 DEF DropInner, GiveBack
  <2>4. r \notin Owned(l)
    BY <2>1, <2>3 DEF ProgressOf
  <2>5. r \notin Queued(l, "Query")
    <3>1. ASSUME NEW t \in Tasks(l), t.kind = "Query", t.req = r PROVE FALSE
      <4>1. Alive(l) /\ cm[r] = l /\ handle[r] = "task"
        BY <3>1 DEF IndInv, TaskConsistent, TaskOK
      <4>2. easy[r] = "slab"
        BY <4>1 DEF IndInv, HandleConsistent, Held
      <4>3. QED
        BY <2>4, <4>1, <4>2 DEF IndInv, SlabConsistent, Owned
    <3>2. QED
      BY <3>1 DEF Queued
  <2>6. easy'[r] = easy[r] /\ handle'[r] = handle[r]
    BY <1>4, <2>3, <2>4, <2>5 DEF DropInner
  <2>7. \A k \in Loops : lpc'[k] = "exiting" => lpc[k] = "exiting" /\ slab'[k] = slab[k]
    BY <1>1, <1>4 DEF DropInner, TypeOK
  <2>8. QED
    BY <2>1, <2>3, <2>6, <2>7 DEF ProgressOf, Owned
<1>5. QED
  BY <1>2, <1>3, <1>4

LEMMA ProgressStep ==
  ASSUME IndInv, ProgressInSlab, Next
  PROVE  ProgressInSlab'
<1>1. SUFFICES ASSUME NEW r \in Req PROVE ProgressOf(r)'
  BY DEF ProgressInSlab, ProgressOf
<1>2. ProgressOf(r)
  BY DEF ProgressInSlab, ProgressOf
<1>3. ASSUME NEW l \in Loops, NEW q \in Req, Perform(l, q) PROVE ProgressOf(r)'
  BY <1>2, <1>3 DEF Perform, HeaderCallback, WriteCallback, Complete, ProgressOf, Owned,
     clientVars, loopVars, futureVars, sharedVars, ownerVars
<1>4. CASE DropClient
  BY <1>2, <1>4 DEF DropClient, ProgressOf, Owned, futureVars, sharedVars, ownerVars
<1>5. QED
  BY <1>2, <1>3, <1>4, ProgressFutureStep, ProgressDrainStep, ProgressLoopStep
     DEF Next, LoopThread

\* A transfer that is in progress under a waiting request runs on the client's
\* current thread, so the manager batch_unpause_send asks is the right one.
THEOREM ProgressOnCurrentLoop == Spec => []InProgressOnCurrentLoop
<1>1. Init => OneLiveLoop /\ ProgressInSlab
  BY ConstantsAssumption DEF Init, OneLiveLoop, ProgressInSlab, Alive
<1>2. IndInv /\ OneLiveLoop /\ ProgressInSlab /\ [Next]_vars
        => OneLiveLoop' /\ ProgressInSlab'
  <2>1. UNCHANGED vars => (OneLiveLoop => OneLiveLoop') /\ (ProgressInSlab => ProgressInSlab')
    BY DEF vars, clientVars, loopVars, futureVars, sharedVars, ownerVars, OneLiveLoop,
       ProgressInSlab, Alive, Owned
  <2>2. QED
    BY <2>1, OneLiveLoopStep, ProgressStep
<1>3. IndInv /\ OneLiveLoop /\ ProgressInSlab => InProgressOnCurrentLoop
  BY DEF IndInv, SlabConsistent, OneLiveLoop, ProgressInSlab, InProgressOnCurrentLoop
<1>4. QED
  BY <1>1, <1>2, <1>3, InvariantHolds, PTL DEF Spec

-----------------------------------------------------------------------------
(* Published successes.                                                    *)

\* Futures and readers only take results out.
LEMMA FutureResults ==
  ASSUME TypeOK, NEW q \in Req,
         Begin(q) \/ PollFuture(q) \/ Cancel(q) \/ PollBody(q) \/ Close(q)
  PROVE  xfer' = xfer /\ \A r \in Req : result'[r] = result[r] \/ result'[r] = "Init"
<1>1. /\ xfer' = xfer
      /\ result' = result \/ result' = [result EXCEPT ![q] = "Init"]
  BY DEF PollFuture, PollBody, Begin, Acquire, Submit, SubmitRefused, PollStart, Replace, PollWait1,
     SendQuery, PollWait2, Cancel, ReadData, ReadEnd, ReadWait, Close,
     clientVars, loopVars, futureVars, sharedVars, ownerVars, curlVars
<1>2. QED
  BY <1>1 DEF TypeOK

LEMMA SuccessFinishedStep ==
  ASSUME IndInv, SuccessFinished, Next
  PROVE  SuccessFinished'
<1> USE DEF clientVars, loopVars, futureVars, sharedVars, ownerVars, curlVars
<1>1. TypeOK
  BY DEF IndInv
<1>2. ASSUME NEW q \in Req, Begin(q) \/ PollFuture(q) \/ Cancel(q) \/ PollBody(q) \/ Close(q)
      PROVE  SuccessFinished'
  BY <1>1, <1>2, FutureResults DEF SuccessFinished
<1>3. ASSUME NEW l \in Loops, DrainTask(l)
      PROVE  SuccessFinished'
  <2>1. CASE ConstructHandle(l)
    <3>1. \E q : /\ result' = [result EXCEPT ![q] = "InProgress"]
                 /\ xfer' = [xfer EXCEPT ![q] = "headers"]
      BY <2>1 DEF ConstructHandle
    <3>2. QED
      BY <1>1, <3>1 DEF SuccessFinished, TypeOK
  <2>2. CASE QueryFailed(l) \/ UnpauseRecvFailed(l)
    <3>1. xfer' = xfer /\ \E q : result' = [result EXCEPT ![q] = "DoneErr"]
      BY <2>2 DEF QueryFailed, UnpauseRecvFailed
    <3>2. QED
      BY <1>1, <3>1 DEF SuccessFinished, TypeOK
  <2>3. CASE UnpauseRecv(l) \/ DropHandle(l)
    <3>1. /\ result' = result
          /\ \/ xfer' = xfer
             \/ \E q : xfer[q] = "paused" /\ xfer' = [xfer EXCEPT ![q] = "flowing"]
             \/ \E q : xfer' = [xfer EXCEPT ![q] = "none"]
      BY <2>3 DEF UnpauseRecv, DropHandle
    <3>2. QED
      BY <1>1, <3>1 DEF SuccessFinished, TypeOK
  <2>4. CASE QueryStored(l) \/ Shutdown(l)
    BY <2>4 DEF QueryStored, Shutdown, SuccessFinished
  <2>5. QED
    BY <1>3, <2>1, <2>2, <2>3, <2>4 DEF DrainTask
<1>4. ASSUME NEW l \in Loops,
             PollReturn(l) \/ DrainDone(l) \/ Messages(l) \/ LoopFail(l) \/ DropInner(l)
      PROVE  SuccessFinished'
  <2>1. \A r \in Req : result'[r] = "DoneOk" =>
          (result[r] = "DoneOk" /\ xfer'[r] \in {xfer[r], "none"}) \/ xfer'[r] = "finished"
    BY <1>4 DEF PollReturn, DrainDone, Messages, Publish, LoopFail, DropInner, GiveBack
  <2>2. QED
    BY <2>1 DEF SuccessFinished
<1>5. ASSUME NEW l \in Loops, NEW q \in Req, Perform(l, q)
      PROVE  SuccessFinished'
  <2>1. /\ result' = result
        /\ xfer[q] \in {"headers", "flowing", "paused"}
        /\ \E v : xfer' = [xfer EXCEPT ![q] = v]
    BY <1>5 DEF Perform, HeaderCallback, WriteCallback, Complete
  <2>2. QED
    BY <1>1, <2>1 DEF SuccessFinished, TypeOK
<1>6. CASE DropClient
  BY <1>6 DEF DropClient, SuccessFinished
<1>7. QED
  BY <1>2, <1>3, <1>4, <1>5, <1>6 DEF Next, LoopThread

\* A published success is replaced by an error only by the request's own query
\* or by its own unpause that curl refuses: not by the failure of the thread, by
\* a task of another request, or by a message.  What it needs of the slab is that
\* a task's key still finds the easy handle of the request that queued it.
THEOREM SuccessKept == Spec => SuccessIsKept
<1> DEFINE Kept == \A r \in Req : result[r] = "DoneOk" /\ result'[r] = "DoneErr"
                     => OwnQueryFails(r) \/ OwnUnpauseFails(r)
<1>1. IndInv /\ SuccessFinished /\ [Next]_vars => [Kept]_vars
  <2> SUFFICES ASSUME IndInv, SuccessFinished, Next, NEW r \in Req,
                      result[r] = "DoneOk", result'[r] = "DoneErr"
               PROVE  OwnQueryFails(r) \/ OwnUnpauseFails(r)
    BY DEF vars
  <2> USE DEF clientVars, loopVars, futureVars, sharedVars, ownerVars, curlVars
  <2>1. TypeOK
    BY DEF IndInv
  <2>2. ASSUME NEW q \in Req, Begin(q) \/ PollFuture(q) \/ Cancel(q) \/ PollBody(q) \/ Close(q)
        PROVE  FALSE
    BY <2>1, <2>2, FutureResults
  <2>3. ASSUME NEW l \in Loops, DrainTask(l)
        PROVE  OwnQueryFails(r) \/ OwnUnpauseFails(r)
    <3>1. PICK h : h = Head(queue[l]) /\ h \in LoopTask /\ TaskOK(l, h)
      BY <2>3, HeadOK
    <3>2. CASE QueryFailed(l)
      <4>1. /\ HasTask(l, "Query") /\ h.kind = "Query"
            /\ h.req \in Req /\ cm[h.req] = l /\ handle[h.req] = "task" /\ h.id = hid[h.req]
            /\ slab[l][h.id] = NoReq \/ InfoMayFail
            /\ result' = [result EXCEPT ![h.req] = "DoneErr"]
        BY <3>1, <3>2 DEF QueryFailed, HasTask, TaskOK
      <4>2. r = h.req
        BY <2>1, <4>1 DEF TypeOK
      <4>3. slab[l][h.id] = h.req
        <5>1. Alive(l)
          BY <3>1 DEF TaskOK
        <5>2. HandleFindsItsEasy
          BY DEF IndInv, HandleFindsItsEasy, HandleConsistent, SlabConsistent
        <5>3. QED
          BY <4>1, <5>1, <5>2 DEF HandleFindsItsEasy, Held
      <4>4. InfoMayFail
        BY <4>1, <4>3, ConstantsAssumption
      <4>5. QED
        BY <3>1, <4>1, <4>2, <4>4 DEF OwnQueryFails
    <3>3. CASE UnpauseRecvFailed(l)
      <4>1. PICK o \in Req : /\ LateUnpauseFails
                             /\ HasTask(l, "UnpauseRecv") /\ h.kind = "UnpauseRecv"
                             /\ o = slab[l][h.id] /\ xfer[o] = "finished"
                             /\ result' = [result EXCEPT ![o] = "DoneErr"]
        BY <3>1, <3>3 DEF UnpauseRecvFailed, HasTask
      <4>2. r = o
        BY <2>1, <4>1 DEF TypeOK
      <4>3. /\ h.req \in Req /\ cm[h.req] = l
            /\ easy[h.req] = "slab" /\ h.id = resId[h.req]
        BY <3>1, <4>1 DEF TaskOK
      <4>4. slab[cm[h.req]][resId[h.req]] = h.req
        BY <4>3 DEF IndInv, SlabConsistent
      <4>5. r = h.req
        BY <4>1, <4>2, <4>3, <4>4
      <4>6. QED
        BY <3>1, <4>1, <4>2, <4>3, <4>5 DEF OwnUnpauseFails
    <3>4. CASE ConstructHandle(l)
      <4>1. \E q : result' = [result EXCEPT ![q] = "InProgress"]
        BY <3>4 DEF ConstructHandle
      <4>2. QED
        BY <2>1, <4>1 DEF TypeOK
    <3>5. CASE QueryStored(l) \/ UnpauseRecv(l) \/ DropHandle(l) \/ Shutdown(l)
      BY <3>5 DEF QueryStored, UnpauseRecv, DropHandle, Shutdown
    <3>6. QED
      BY <2>3, <3>2, <3>3, <3>4, <3>5 DEF DrainTask
  <2>4. ASSUME NEW l \in Loops,
               PollReturn(l) \/ DrainDone(l) \/ Messages(l) \/ LoopFail(l) \/ DropInner(l)
        PROVE  FALSE
    BY <2>4 DEF PollReturn, DrainDone, Messages, Publish, LoopFail, DropInner, GiveBack,
       SuccessFinished, IsDone
  <2>5. ASSUME NEW l \in Loops, NEW q \in Req, Perform(l, q)
        PROVE  FALSE
    BY <2>5 DEF Perform, HeaderCallback, WriteCallback, Complete
  <2>6. ~DropClient
    BY DEF DropClient
  <2>7. QED
    BY <2>2, <2>3, <2>4, <2>5, <2>6 DEF Next, LoopThread
<1>2. Init => SuccessFinished
  BY DEF Init, SuccessFinished
<1>3. IndInv /\ SuccessFinished /\ [Next]_vars => SuccessFinished'
  <2>1. UNCHANGED vars /\ SuccessFinished => SuccessFinished'
    BY DEF vars, sharedVars, curlVars, SuccessFinished
  <2>2. QED
    BY <2>1, SuccessFinishedStep
<1>4. QED
  BY <1>1, <1>2, <1>3, InvariantHolds, PTL DEF Spec, SuccessIsKept

-----------------------------------------------------------------------------
(* No wake-up is lost: who sleeps is waited for, by a task that is queued  *)
(* or by a transfer that runs.  One request's part of the strengthening.   *)

\* A task for the request waits in the queue of its thread.
Pending(r, kind) == cm[r] \in Loops /\ r \in Queued(cm[r], kind)

\* The transfer of a request that has not been told its outcome is not over, and has
\* got past the header exactly when the request has seen it.
TransferRuns(r) ==
  /\ easy[r] \in {"none", "client", "queue", "shared"} => ~header[r] /\ xfer[r] = "none"
  /\ pc[r] = "starting" /\ result[r] = "Init" => easy[r] = "queue"
  /\ pc[r] \in {"wait1", "query", "wait2"} => result[r] \in {"InProgress", "DoneOk", "DoneErr"}
  /\ pc[r] \in {"wait1", "query", "wait2", "open", "reading"} \/
       (pc[r] = "starting" /\ result[r] = "InProgress") =>
       IsDone(r) \/ (easy[r] = "slab" /\ xfer[r] \notin {"none", "finished"})
  /\ header[r] => xfer[r] # "headers"
  /\ buf[r] => header[r]
  /\ xfer[r] \in {"paused", "flowing"} => header[r]
  /\ pc[r] \in {"query", "wait2", "open", "reading"} => xfer[r] # "headers"

\* A query is queued, answered, or its request has an outcome.
QueryIsAnswered(r) ==
  /\ handle[r] = "task" => Pending(r, "Query")
  /\ pc[r] = "wait2" => handle[r] \in {"task", "shared", "gone"}
  /\ pc[r] = "wait2" /\ handle[r] = "gone" => IsDone(r)

\* A read that waits for a paused transfer has asked for it to go on.
ReadIsAsked(r) ==
  /\ pc[r] \notin {"reading", "end", "broken"} \cup FinalPc => ~unpauseSent[r]
  /\ pc[r] = "reading" /\ ~buf[r] /\ ~IsDone(r) /\ xfer[r] = "paused" => Pending(r, "UnpauseRecv")

\* What a request sleeps for has not happened.
SleepIsDue(r) ==
  parked[r] =>
    /\ pc[r] \in {"starting", "wait1", "wait2", "reading"}
    /\ pc[r] = "starting" => result[r] = "Init"
    /\ pc[r] = "wait1" => ~IsDone(r) /\ ~header[r]
    /\ pc[r] = "wait2" => handle[r] # "shared" /\ result[r] # "DoneErr"
    /\ pc[r] = "reading" => ~buf[r] /\ ~IsDone(r)

WakeOf(r) == TransferRuns(r) /\ QueryIsAnswered(r) /\ ReadIsAsked(r) /\ SleepIsDue(r)

\* A message of a finished transfer is published in the round it came in.
MessagesDue ==
  \A r \in Req : easy[r] = "slab" /\ xfer[r] \in {"okMsg", "errMsg"} =>
    lpc[cm[r]] \in {"perform", "exiting"}

\* A request that sleeps is waited for by its thread, which is alive: its easy handle
\* is queued; its transfer has not reached the header; its query is queued; its transfer
\* runs, or is paused and its unpause is queued.  The message of a transfer that is over is
\* published in this round.  The one exception is a success that was published before
\* the query was dropped by an ending thread, or after it failed.
SleepIsAwaited(r) ==
  \/ /\ pc[r] = "starting" /\ Alive(cm[r])
     /\ easy[r] = "queue" /\ r \in Queued(cm[r], "Construct")
  \/ /\ pc[r] = "wait1" /\ lpc[cm[r]] \in {"poll", "drain", "perform"}
     /\ easy[r] = "slab" /\ ~header[r]
     /\ xfer[r] = "headers" \/ (xfer[r] \in {"okMsg", "errMsg"} /\ lpc[cm[r]] = "perform")
  \/ /\ pc[r] = "wait2" /\ Alive(cm[r])
     /\ handle[r] = "task" /\ r \in Queued(cm[r], "Query")
  \/ /\ pc[r] = "wait2"
     /\ handle[r] = "gone" /\ result[r] = "DoneOk"
  \/ /\ pc[r] = "reading" /\ lpc[cm[r]] \in {"poll", "drain", "perform"}
     /\ easy[r] = "slab" /\ ~buf[r]
     /\ \/ xfer[r] = "flowing"
        \/ xfer[r] = "paused" /\ r \in Queued(cm[r], "UnpauseRecv")
        \/ xfer[r] \in {"okMsg", "errMsg"} /\ lpc[cm[r]] = "perform"

SleeperIsAwaited == \A r \in Req : parked[r] => SleepIsAwaited(r)

\* Tasks that a thread has not swapped out have a wake-up pending, so curl_multi_poll
\* never sleeps on a queue that is not empty.
BatchOf(l) ==
  /\ lpc[l] \notin {"drain", "dead"} => inBatch[l] = 0
  /\ lpc[l] # "dead" /\ Len(queue[l]) > inBatch[l] => wakeup[l]

PollIsWoken == \A l \in Loops : lpc[l] = "poll" /\ queue[l] # << >> => wakeup[l]

-----------------------------------------------------------------------------
(* How the tasks and the fields of a request change.                       *)

\* What a thread takes off its queue is the only task that leaves it.
LEMMA DrainTakes ==
  ASSUME IndInv, NEW l \in Loops, DrainTask(l)
  PROVE  \A m \in Loops : \A s \in Tasks(m) :
           s \in Tasks(m)' \/ (m = l /\ s = Head(queue[l]))
<1>1. /\ TypeOK /\ lpc[l] = "drain" /\ inBatch[l] > 0
      /\ Head(queue[l]) \in LoopTask
  BY HeadOK DEF IndInv
<1>2. PICK h \in LoopTask : h = Head(queue[l])
  BY <1>1
<1>3. h.req \in Req \cup {NoReq} /\ h.id \in Ids \cup {NoId}
  BY <1>2 DEF LoopTask
<1>4. CASE QueryFailed(l)
  <2>1. Task("Drop", h.req, h.id) \in LoopTask
    BY <1>3, TaskType
  <2>2. TakeAndDispatch(l, Task("Drop", h.req, h.id))
    BY <1>2, <1>4 DEF QueryFailed
  <2>3. QED
    BY <1>1, <2>1, <2>2, TakeKeeps
<1>5. CASE ~QueryFailed(l)
  <2>1. Take(l)
    BY <1>5 DEF DrainTask, ConstructHandle, QueryStored, UnpauseRecv, UnpauseRecvFailed,
       DropHandle, Shutdown
  <2>2. QED
    BY <1>1, <2>1, TakeKeeps
<1>6. QED
  BY <1>4, <1>5

\* A task waits until the thread works it off or ends.
LEMMA TaskStays ==
  ASSUME IndInv, Next, NEW r \in Req, NEW kind \in {"Construct", "Query", "UnpauseRecv"},
         Pending(r, kind), cm'[r] = cm[r]
  PROVE  \/ Pending(r, kind)'
         \/ \E l \in Loops :
              /\ l = cm[r]
              /\ \/ DropInner(l)
                 \/ DrainTask(l) /\ Head(queue[l]).kind = kind /\ Head(queue[l]).req = r
<1> USE DEF clientVars, loopVars, futureVars, sharedVars, ownerVars, curlVars
<1>1. TypeOK
  BY DEF IndInv
<1>0. PICK m \in Loops : m = cm[r]
  BY DEF Pending
<1>2. PICK t \in Tasks(m) : t.kind = kind /\ t.req = r
  BY <1>0 DEF Pending, Queued
<1>3. ASSUME t \in Tasks(m)'
      PROVE  Pending(r, kind)'
  BY <1>0, <1>2, <1>3 DEF Pending, Queued
<1>4. ASSUME NEW q \in Req, Begin(q) \/ PollFuture(q) \/ Cancel(q) \/ PollBody(q) \/ Close(q)
      PROVE  t \in Tasks(m)'
  <2>1. PICK l \in Loops \cup {NoLoop}, i \in Ids \cup {NoId} : l = cm[q] /\ i = hid[q]
    BY <1>1 DEF TypeOK
  <2>2. \/ queue' = queue
        \/ Dispatch(l, Task("Construct", q, NoId))
        \/ Dispatch(l, Task("Drop", q, i))
        \/ Dispatch(l, Task("Query", q, i))
        \/ Dispatch(l, Task("UnpauseRecv", q, i))
    BY <1>4, <2>1 DEF PollFuture, PollBody, Begin, Acquire, Submit, SubmitRefused, PollStart, Replace,
       PollWait1, SendQuery, PollWait2, Cancel, ReadData, ReadEnd, ReadWait, Close,
       ReleaseHandle
  <2>3. Tasks(m) \subseteq Tasks(m)'
    BY <1>1, <2>2, DispatchKeeps, TaskType DEF Tasks
  <2>4. QED
    BY <2>3
<1>5. ASSUME NEW l \in Loops, DrainTask(l)
      PROVE  t \in Tasks(m)' \/ (m = l /\ t = Head(queue[l]))
  BY <1>5, DrainTakes
<1>6. ASSUME NEW l \in Loops, DropInner(l), l # m
      PROVE  t \in Tasks(m)'
  <2>1. queue'[m] = queue[m]
    BY <1>1, <1>6 DEF DropInner, TypeOK
  <2>2. QED
    BY <2>1 DEF Tasks
<1>7. ASSUME NEW l \in Loops, PollReturn(l) \/ DrainDone(l) \/ Messages(l) \/ LoopFail(l)
      PROVE  t \in Tasks(m)'
  <2>1. queue' = queue
    BY <1>7 DEF PollReturn, DrainDone, Messages, LoopFail
  <2>2. QED
    BY <2>1 DEF Tasks
<1>8. ASSUME NEW l \in Loops, NEW q \in Req, Perform(l, q)
      PROVE  t \in Tasks(m)'
  <2>1. queue' = queue
    BY <1>8 DEF Perform, HeaderCallback, WriteCallback, Complete
  <2>2. QED
    BY <2>1 DEF Tasks
<1>9. CASE DropClient
  <2>1. PICK l \in Loops \cup {NoLoop} : l = mgr
    BY <1>1 DEF TypeOK
  <2>2. Task("Shutdown", NoReq, NoId) \in LoopTask
    BY TaskType
  <2>3. Tasks(m) \subseteq Tasks(m)'
    BY <1>1, <1>9, <2>1, <2>2, DispatchKeeps DEF DropClient
  <2>4. QED
    BY <1>3, <2>3
<1>10. ASSUME NEW l \in Loops, PollReturn(l) \/ LoopThread(l) \/ LoopFail(l)
       PROVE  t \in Tasks(m)' \/ (m = l /\ (DropInner(l) \/ (DrainTask(l) /\ t = Head(queue[l]))))
  BY <1>5, <1>6, <1>7, <1>10 DEF LoopThread
<1>11. QED
  BY <1>0, <1>2, <1>3, <1>4, <1>8, <1>9, <1>10 DEF Next

\* The steps of one request leave the others alone.
LEMMA OthersKept ==
  ASSUME TypeOK, NEW q \in Req, NEW r \in Req, r # q,
         Begin(q) \/ PollFuture(q) \/ Cancel(q) \/ PollBody(q) \/ Close(q)
  PROVE  /\ pc'[r] = pc[r] /\ cm'[r] = cm[r] /\ unpauseSent'[r] = unpauseSent[r]
         /\ parked'[r] = parked[r] /\ result'[r] = result[r] /\ header'[r] = header[r]
         /\ buf'[r] = buf[r] /\ easy'[r] = easy[r] /\ handle'[r] = handle[r]
         /\ xfer'[r] = xfer[r]
<1> USE DEF clientVars, loopVars, futureVars, sharedVars, ownerVars, curlVars
<1>1. xfer' = xfer /\ header' = header
  BY DEF PollFuture, PollBody, Begin, Acquire, Submit, SubmitRefused, PollStart, Replace, PollWait1,
     SendQuery, PollWait2, Cancel, ReadData, ReadEnd, ReadWait, Close
<1>2. CASE Begin(q) \/ Acquire(q) \/ Submit(q) \/ SubmitRefused(q) \/ Replace(q)
  BY <1>1, <1>2 DEF Begin, Acquire, Submit, SubmitRefused, Replace, GoTo, TypeOK
<1>3. CASE PollStart(q)
  BY <1>1, <1>3 DEF PollStart, GoTo, Park, TypeOK
<1>4. CASE PollWait1(q) \/ SendQuery(q)
  BY <1>1, <1>4 DEF PollWait1, SendQuery, ReleaseHandle, GoTo, Park, TypeOK
<1>5. CASE PollWait2(q)
  BY <1>1, <1>5 DEF PollWait2, GoTo, Park, TypeOK
<1>6. CASE Cancel(q) \/ Close(q)
  BY <1>1, <1>6 DEF Cancel, Close, ReleaseHandle, GoTo, TypeOK
<1>7. CASE ReadData(q) \/ ReadEnd(q) \/ ReadWait(q)
  BY <1>1, <1>7 DEF ReadData, ReadEnd, ReadWait, GoTo, Park, TypeOK
<1>8. QED
  BY <1>2, <1>3, <1>4, <1>5, <1>6, <1>7 DEF PollFuture, PollBody

-----------------------------------------------------------------------------
(* The transfer of a request.                                              *)

\* A request that waits on a thread that ends has been told; one whose handle was
\* dropped does not wait, or has been told.
LEMMA EndIsTold ==
  ASSUME IndInv, AllTold, NEW l \in Loops, NEW r \in Req, WakeOf(r),
         DropInner(l), r \in Owned(l)
  PROVE  pc[r] \in {"starting", "wait1", "query", "wait2", "open", "reading"} => IsDone(r)
<1>1. lpc[l] = "exiting"
  BY DEF DropInner
<1>2. Told(r)
  BY <1>1 DEF AllTold
<1>3. QED
  BY <1>2 DEF Told, WakeOf, QueryIsAnswered, IndInv, FutureConsistent, BodyPc, FinalPc

LEMMA TransferFutureStep ==
  ASSUME ~MayRereadEnd, IndInv, SuccessFinished, NEW r \in Req, WakeOf(r), NEW q \in Req,
         Begin(q) \/ PollFuture(q) \/ Cancel(q) \/ PollBody(q) \/ Close(q)
  PROVE  TransferRuns(r)'
<1> USE DEF clientVars, loopVars, futureVars, sharedVars, ownerVars, curlVars
<1>1. TypeOK /\ TransferRuns(r)
  BY DEF IndInv, WakeOf
<1>2. CASE q # r
  BY <1>1, <1>2, OthersKept DEF TransferRuns, IsDone
<1>3. CASE q = r
  <2>1. /\ easy[r] = "client" <=> pc[r] \in {"acquire", "submit", "replace"}
        /\ easy[r] = "none" <=> pc[r] = "idle"
        /\ easy[r] = "shared" <=> result[r] = "EasyLost"
        /\ easy[r] \in {"none", "client", "queue"} => result[r] = "Init"
    BY DEF IndInv, FutureConsistent
  <2>2. result[r] = "DoneOk" => xfer[r] \in {"finished", "none"}
    BY DEF SuccessFinished
  <2>3. CASE Begin(r) \/ Acquire(r) \/ Submit(r) \/ SubmitRefused(r) \/ Replace(r)
    BY <1>1, <2>1, <2>3 DEF Begin, Acquire, Submit, SubmitRefused, Replace, GoTo, TypeOK, TransferRuns, IsDone
  <2>4. CASE PollStart(r)
    BY <1>1, <2>1, <2>4 DEF PollStart, GoTo, TypeOK, TransferRuns, IsDone
  <2>5. CASE PollWait1(r) \/ SendQuery(r)
    BY <1>1, <2>1, <2>2, <2>5 DEF PollWait1, SendQuery, GoTo, TypeOK, TransferRuns, IsDone
  <2>6. CASE PollWait2(r)
    BY <1>1, <2>1, <2>6 DEF PollWait2, GoTo, TypeOK, TransferRuns, IsDone
  <2>7. CASE Cancel(r) \/ Close(r)
    BY <1>1, <2>1, <2>7 DEF Cancel, Close, GoTo, TypeOK, TransferRuns, IsDone
  <2>8. CASE ReadData(r) \/ ReadEnd(r) \/ ReadWait(r)
    BY <1>1, <2>1, <2>8 DEF ReadData, ReadEnd, ReadWait, CanRead, GoTo, TypeOK, TransferRuns,
       IsDone
  <2>9. QED
    BY <1>2, <1>3, <2>3, <2>4, <2>5, <2>6, <2>7, <2>8 DEF PollFuture, PollBody
<1>4. QED
  BY <1>2, <1>3

LEMMA TransferDrainStep ==
  ASSUME IndInv, NEW r \in Req, WakeOf(r), NEW l \in Loops, DrainTask(l)
  PROVE  TransferRuns(r)'
<1> USE DEF clientVars, loopVars, futureVars, sharedVars, ownerVars, curlVars
<1>1. TypeOK /\ TransferRuns(r) /\ QueryIsAnswered(r)
  BY DEF IndInv, WakeOf
<1>2. PICK h \in LoopTask : h = Head(queue[l]) /\ TaskOK(l, h)
  BY HeadOK
<1>3. /\ pc' = pc /\ header' = header /\ buf' = buf
  BY DEF DrainTask, ConstructHandle, QueryStored, QueryFailed, UnpauseRecv, UnpauseRecvFailed,
     DropHandle, Shutdown
<1>4. CASE ConstructHandle(l)
  <2>1. /\ h.req \in Req /\ easy[h.req] = "queue"
        /\ result' = [result EXCEPT ![h.req] = "InProgress"]
        /\ easy' = [easy EXCEPT ![h.req] = "slab"]
        /\ xfer' = [xfer EXCEPT ![h.req] = "headers"]
    BY <1>2, <1>4 DEF ConstructHandle, HasTask, TaskOK
  <2>2. CASE h.req = r
    <3>1. ~header[r] /\ ~buf[r] /\ handle[r] = "none" /\ pc[r] \notin {"query", "wait2", "open", "reading"}
      BY <1>1, <2>1, <2>2 DEF TransferRuns, QueryIsAnswered, IndInv, FutureConsistent, BodyPc
    <3>2. result'[r] = "InProgress" /\ easy'[r] = "slab" /\ xfer'[r] = "headers"
      BY <1>1, <2>1, <2>2 DEF TypeOK
    <3>3. QED
      BY <1>3, <3>1, <3>2 DEF TransferRuns
  <2>3. CASE h.req # r
    <3>1. result'[r] = result[r] /\ easy'[r] = easy[r] /\ xfer'[r] = xfer[r]
      BY <1>1, <2>1, <2>3 DEF TypeOK
    <3>2. QED
      BY <1>1, <1>3, <3>1 DEF TransferRuns, IsDone
  <2>4. QED
    BY <2>2, <2>3
<1>5. CASE QueryStored(l) \/ Shutdown(l)
  <2>1. UNCHANGED <<result, easy, xfer>>
    BY <1>5 DEF QueryStored, Shutdown
  <2>2. QED
    BY <1>1, <1>3, <2>1 DEF TransferRuns, IsDone
<1>6. CASE QueryFailed(l) \/ UnpauseRecvFailed(l)
  <2>1. /\ UNCHANGED <<easy, xfer>>
        /\ \E o : result' = [result EXCEPT ![o] = "DoneErr"]
    BY <1>6 DEF QueryFailed, UnpauseRecvFailed
  <2>2. result'[r] = result[r] \/ result'[r] = "DoneErr"
    BY <1>1, <2>1 DEF TypeOK
  <2>3. QED
    BY <1>1, <1>3, <2>1, <2>2 DEF TransferRuns, IsDone
<1>7. CASE UnpauseRecv(l)
  <2>1. /\ UNCHANGED <<easy, result>>
        /\ xfer' = xfer \/ \E o : xfer[o] = "paused" /\ xfer' = [xfer EXCEPT ![o] = "flowing"]
    BY <1>7 DEF UnpauseRecv
  <2>2. xfer'[r] = xfer[r] \/ (xfer[r] = "paused" /\ xfer'[r] = "flowing")
    BY <1>1, <2>1 DEF TypeOK
  <2>3. QED
    BY <1>1, <1>3, <2>1, <2>2 DEF TransferRuns, IsDone
<1>8. CASE DropHandle(l)
  <2>1. /\ h.req \in Req /\ easy[h.req] = "slab" /\ handle[h.req] = "gone"
        /\ slab[l][h.id] = h.req
    BY <1>2, <1>8 DEF DropHandle, HasTask, TaskOK, IndInv, SlabConsistent
  <2>2. /\ result' = result
        /\ easy' = [easy EXCEPT ![h.req] = "freed"]
        /\ xfer' = [xfer EXCEPT ![h.req] = "none"]
    BY <1>2, <1>8, <2>1 DEF DropHandle
  <2>3. CASE h.req = r
    <3>1. easy'[r] = "freed" /\ xfer'[r] = "none" /\ result'[r] = result[r]
      BY <1>1, <2>2, <2>3 DEF TypeOK
    <3>2. /\ pc[r] \notin {"starting", "wait1", "query", "open", "reading"}
          /\ pc[r] = "wait2" => IsDone(r)
      BY <1>1, <2>1, <2>3 DEF QueryIsAnswered, IndInv, FutureConsistent, BodyPc
    <3>3. QED
      BY <1>1, <1>3, <3>1, <3>2 DEF TransferRuns, IsDone
  <2>4. CASE h.req # r
    <3>1. result'[r] = result[r] /\ easy'[r] = easy[r] /\ xfer'[r] = xfer[r]
      BY <1>1, <2>2, <2>4 DEF TypeOK
    <3>2. QED
      BY <1>1, <1>3, <3>1 DEF TransferRuns, IsDone
  <2>5. QED
    BY <2>3, <2>4
<1>9. QED
  BY <1>4, <1>5, <1>6, <1>7, <1>8 DEF DrainTask

LEMMA TransferStep ==
  ASSUME ~MayRereadEnd, IndInv, SuccessFinished, AllTold, NEW r \in Req, WakeOf(r), Next
  PROVE  TransferRuns(r)'
<1> USE DEF clientVars, loopVars, futureVars, sharedVars, ownerVars, curlVars
<1>1. TypeOK /\ TransferRuns(r) /\ QueryIsAnswered(r)
  BY DEF IndInv, WakeOf
<1>2. ASSUME NEW l \in Loops, PollReturn(l) \/ DrainDone(l)
      PROVE  TransferRuns(r)'
  BY <1>1, <1>2 DEF PollReturn, DrainDone, TransferRuns, IsDone
<1>3. ASSUME NEW l \in Loops, Messages(l) \/ LoopFail(l)
      PROVE  TransferRuns(r)'
  <2>1. /\ UNCHANGED <<pc, header, buf, easy>>
        /\ \/ result'[r] = result[r] /\ xfer'[r] = xfer[r]
           \/ /\ r \in Owned(l) /\ result'[r] \in {"DoneOk", "DoneErr"}
              /\ xfer'[r] = xfer[r] \/ xfer'[r] = "finished"
    BY <1>3 DEF Messages, Publish, LoopFail
  <2>2. r \in Owned(l) => easy[r] = "slab"
    BY DEF Owned, IndInv, SlabConsistent
  <2>3. QED
    BY <1>1, <2>1, <2>2 DEF TransferRuns, IsDone
<1>4. ASSUME NEW l \in Loops, DropInner(l)
      PROVE  TransferRuns(r)'
  <2>1. pc' = pc /\ header' = header /\ buf' = buf
    BY <1>4 DEF DropInner
  <2>2. CASE r \in Queued(l, "Construct")
    <3>1. easy[r] = "queue"
      BY <2>2 DEF Queued, IndInv, TaskConsistent, TaskOK
    <3>2. easy'[r] = "shared" /\ result'[r] = "EasyLost" /\ xfer'[r] \in {"none", xfer[r]}
      BY <1>4, <2>2 DEF DropInner, GiveBack
    <3>3. pc[r] \notin {"wait1", "query", "wait2", "open", "reading"}
      BY <1>1, <3>1 DEF QueryIsAnswered, IndInv, FutureConsistent, BodyPc
    <3>4. QED
      BY <1>1, <2>1, <3>1, <3>2, <3>3 DEF TransferRuns, IsDone
  <2>3. CASE r \notin Queued(l, "Construct") /\ r \in Owned(l)
    <3>1. easy'[r] = "freed" /\ result'[r] = result[r] /\ xfer'[r] = "none" /\ easy[r] = "slab"
      BY <1>4, <2>3 DEF DropInner, GiveBack, Owned, IndInv, SlabConsistent
    <3>2. pc[r] \in {"starting", "wait1", "query", "wait2", "open", "reading"} => IsDone(r)
      BY <1>4, <2>3, EndIsTold
    <3>3. QED
      BY <1>1, <2>1, <3>1, <3>2 DEF TransferRuns, IsDone
  <2>4. CASE r \notin Queued(l, "Construct") /\ r \notin Owned(l)
    <3>1. easy'[r] = easy[r] /\ result'[r] = result[r] /\ xfer'[r] = xfer[r]
      BY <1>4, <2>4 DEF DropInner, GiveBack
    <3>2. QED
      BY <1>1, <2>1, <3>1 DEF TransferRuns, IsDone
  <2>5. QED
    BY <2>2, <2>3, <2>4
<1>5. ASSUME NEW l \in Loops, NEW q \in Req, Perform(l, q)
      PROVE  TransferRuns(r)'
  <2>1. /\ UNCHANGED <<pc, easy, result>>
        /\ q \in Owned(l) /\ xfer[q] \in {"headers", "paused", "flowing"}
    BY <1>5 DEF Perform, HeaderCallback, WriteCallback, Complete
  <2>2. easy[q] = "slab"
    BY <2>1 DEF Owned, IndInv, SlabConsistent
  <2>3. \/ xfer'[r] = xfer[r] /\ header'[r] = header[r] /\ buf'[r] = buf[r]
        \/ /\ r = q
           /\ \/ header'[r] = TRUE /\ xfer'[r] \in {"paused", "flowing"}
              \/ /\ header'[r] = header[r] /\ buf'[r] = buf[r]
                 /\ xfer'[r] \in {"okMsg", "errMsg"} \/ (xfer'[r] = "paused" /\ buf[r])
    BY <1>1, <1>5 DEF Perform, HeaderCallback, WriteCallback, Complete, TypeOK
  <2>4. QED
    BY <1>1, <2>1, <2>2, <2>3 DEF TransferRuns, IsDone
<1>6. CASE DropClient
  BY <1>1, <1>6 DEF DropClient, TransferRuns, IsDone
<1>7. QED
  BY <1>2, <1>3, <1>4, <1>5, <1>6, TransferFutureStep, TransferDrainStep DEF Next, LoopThread

-----------------------------------------------------------------------------
(* The query of a request.                                                 *)

LEMMA QueryStep ==
  ASSUME IndInv, AllTold, NEW r \in Req, WakeOf(r), Next
  PROVE  QueryIsAnswered(r)'
<1> USE DEF clientVars, loopVars, futureVars, sharedVars, ownerVars, curlVars
<1>1. TypeOK /\ QueryIsAnswered(r)
  BY DEF IndInv, WakeOf
<1>2. ASSUME handle[r] = "task", handle'[r] = "task", cm'[r] = cm[r]
      PROVE  Pending(r, "Query")'
  <2>1. Pending(r, "Query")
    BY <1>1, <1>2 DEF QueryIsAnswered
  <2>2. ASSUME NEW l \in Loops, l = cm[r], DropInner(l)
        PROVE  FALSE
    BY <1>2, <2>1, <2>2 DEF Pending, DropInner
  <2>3. ASSUME NEW l \in Loops, DrainTask(l), Head(queue[l]).kind = "Query",
               Head(queue[l]).req = r
        PROVE  FALSE
    <3>1. QueryStored(l) \/ QueryFailed(l)
      BY <2>3 DEF DrainTask, ConstructHandle, UnpauseRecv, UnpauseRecvFailed, DropHandle,
         Shutdown, HasTask
    <3>2. \E v \in {"shared", "gone"} : handle' = [handle EXCEPT ![r] = v]
      BY <2>3, <3>1 DEF QueryStored, QueryFailed
    <3>3. QED
      BY <1>1, <1>2, <3>2 DEF TypeOK
  <2>4. QED
    BY <1>2, <2>1, <2>2, <2>3, TaskStays
<1>3. ASSUME NEW q \in Req, Begin(q) \/ PollFuture(q) \/ Cancel(q) \/ PollBody(q) \/ Close(q)
      PROVE  QueryIsAnswered(r)'
  <2>1. CASE q # r
    BY <1>1, <1>2, <1>3, <2>1, OthersKept DEF QueryIsAnswered, IsDone
  <2>2. CASE q = r
    <3>1. pc[r] \in {"idle", "acquire", "submit", "starting", "replace"} => handle[r] = "none"
      BY DEF IndInv, FutureConsistent
    <3>2. CASE Begin(r) \/ Acquire(r) \/ Submit(r) \/ SubmitRefused(r) \/ Replace(r)
      BY <1>1, <3>1, <3>2 DEF Begin, Acquire, Submit, SubmitRefused, Replace, GoTo, TypeOK, QueryIsAnswered
    <3>3. CASE PollStart(r) \/ PollWait1(r) \/ Cancel(r) \/ Close(r)
               \/ ReadData(r) \/ ReadEnd(r) \/ ReadWait(r)
      <4>1. /\ pc'[r] # "wait2" /\ cm' = cm
            /\ handle'[r] = handle[r] \/ handle'[r] \in {"client", "gone"}
        BY <1>1, <3>3 DEF PollStart, PollWait1, Cancel, Close, ReadData, ReadEnd, ReadWait,
           CanRead, ReleaseHandle, GoTo, TypeOK
      <4>2. QED
        BY <1>2, <4>1 DEF QueryIsAnswered
    <3>4. CASE PollWait2(r)
      <4>1. /\ cm' = cm
            /\ pc'[r] = "wait2" => pc[r] = "wait2" /\ result' = result /\ handle' = handle
            /\ handle'[r] = handle[r] \/ handle'[r] = "client"
        BY <1>1, <3>4 DEF PollWait2, GoTo, TypeOK
      <4>2. QED
        BY <1>1, <1>2, <4>1 DEF QueryIsAnswered, IsDone
    <3>5. CASE SendQuery(r)
      <4>1. PICK l \in Loops \cup {NoLoop} : l = cm[r]
        BY <1>1 DEF TypeOK
      <4>2. PICK i \in Ids \cup {NoId} : i = hid[r]
        BY <1>1 DEF TypeOK
      <4>3. /\ Dispatch(l, Task("Query", r, i)) /\ cm' = cm
            /\ IF Alive(l) THEN pc'[r] = "wait2" /\ handle'[r] = "task"
                           ELSE pc'[r] = "failed" /\ handle'[r] = "gone"
        BY <1>1, <3>5, <4>1, <4>2 DEF SendQuery, GoTo, TypeOK
      <4>4. CASE Alive(l)
        <5>1. /\ l \in Loops /\ Task("Query", r, i) \in LoopTask
              /\ Task("Query", r, i).kind = "Query" /\ Task("Query", r, i).req = r
          BY <4>4, TaskType DEF Alive, Task
        <5>2. Task("Query", r, i) \in Tasks(l)'
          BY <1>1, <4>3, <4>4, <5>1, DispatchKeeps
        <5>3. Pending(r, "Query")'
          BY <4>1, <4>3, <5>1, <5>2 DEF Pending, Queued
        <5>4. QED
          BY <4>3, <4>4, <5>3 DEF QueryIsAnswered
      <4>5. CASE ~Alive(l)
        BY <4>3, <4>5 DEF QueryIsAnswered
      <4>6. QED
        BY <4>4, <4>5
    <3>6. QED
      BY <1>3, <2>2, <3>2, <3>3, <3>4, <3>5 DEF PollFuture, PollBody
  <2>3. QED
    BY <2>1, <2>2
<1>4. ASSUME NEW l \in Loops, DropInner(l)
      PROVE  QueryIsAnswered(r)'
  <2>1. pc' = pc /\ cm' = cm
    BY <1>4 DEF DropInner
  <2>2. CASE r \in Queued(l, "Query")
    <3>1. handle[r] = "task" /\ cm[r] = l /\ Alive(l)
      BY <2>2 DEF Queued, IndInv, TaskConsistent, TaskOK
    <3>2. easy[r] = "slab"
      BY <3>1 DEF IndInv, HandleConsistent, Held
    <3>3. r \in Owned(l)
      BY <3>1, <3>2 DEF IndInv, SlabConsistent, Owned
    <3>4. r \notin Queued(l, "Construct")
      BY <3>2 DEF Queued, IndInv, TaskConsistent, TaskOK
    <3>5. handle'[r] = "gone" /\ result'[r] = result[r]
      BY <1>4, <2>2, <3>4 DEF DropInner, GiveBack
    <3>6. pc[r] = "wait2" => IsDone(r)
      BY <1>4, <3>3, EndIsTold
    <3>7. QED
      BY <2>1, <3>5, <3>6 DEF QueryIsAnswered, IsDone
  <2>3. CASE r \notin Queued(l, "Query")
    <3>1. handle'[r] = handle[r]
      BY <1>4, <2>3 DEF DropInner
    <3>2. handle[r] = "gone" => result'[r] = result[r]
      <4>1. r \in Queued(l, "Construct") => handle[r] = "none"
        BY DEF Queued, IndInv, TaskConsistent, TaskOK, FutureConsistent
      <4>2. QED
        BY <1>4, <4>1 DEF DropInner, GiveBack
    <3>3. QED
      BY <1>1, <1>2, <2>1, <3>1, <3>2 DEF QueryIsAnswered, IsDone
  <2>4. QED
    BY <2>2, <2>3
<1>5. ASSUME NEW l \in Loops, QueryStored(l) \/ QueryFailed(l)
      PROVE  QueryIsAnswered(r)'
  <2>1. pc' = pc /\ cm' = cm
    BY <1>5 DEF QueryStored, QueryFailed
  <2>2. \/ handle'[r] = handle[r] /\ result'[r] = result[r]
        \/ handle'[r] = "shared"
        \/ handle'[r] = "gone" /\ result'[r] = "DoneErr"
    <3>1. \E o : \/ handle' = [handle EXCEPT ![o] = "shared"] /\ result' = result
                 \/ /\ handle' = [handle EXCEPT ![o] = "gone"]
                    /\ result' = [result EXCEPT ![o] = "DoneErr"]
      BY <1>5 DEF QueryStored, QueryFailed
    <3>2. QED
      BY <1>1, <3>1 DEF TypeOK
  <2>3. QED
    BY <1>1, <1>2, <2>1, <2>2 DEF QueryIsAnswered, IsDone
<1>6. ASSUME pc' = pc, cm' = cm, handle' = handle,
             IsDone(r) => result'[r] = result[r] \/ result'[r] \in {"DoneOk", "DoneErr"}
      PROVE  QueryIsAnswered(r)'
  BY <1>1, <1>2, <1>6 DEF QueryIsAnswered, IsDone
<1>7. ASSUME NEW l \in Loops, ConstructHandle(l)
      PROVE  QueryIsAnswered(r)'
  <2>1. PICK h \in LoopTask : h = Head(queue[l]) /\ TaskOK(l, h)
    BY <1>7, HeadOK DEF DrainTask
  <2>2. /\ h.req \in Req /\ result[h.req] = "Init"
        /\ result' = [result EXCEPT ![h.req] = "InProgress"]
    BY <1>7, <2>1 DEF ConstructHandle, HasTask, TaskOK, IndInv, FutureConsistent
  <2>3. pc' = pc /\ cm' = cm /\ handle' = handle
    BY <1>7 DEF ConstructHandle
  <2>4. IsDone(r) => result'[r] = result[r]
    BY <1>1, <2>2 DEF IsDone, TypeOK
  <2>5. QED
    BY <1>6, <2>3, <2>4
<1>8. ASSUME NEW l \in Loops,
             UnpauseRecv(l) \/ UnpauseRecvFailed(l) \/ DropHandle(l) \/ Shutdown(l)
      PROVE  QueryIsAnswered(r)'
  <2>1. /\ pc' = pc /\ cm' = cm /\ handle' = handle
        /\ result' = result \/ \E o : result' = [result EXCEPT ![o] = "DoneErr"]
    BY <1>8 DEF UnpauseRecv, UnpauseRecvFailed, DropHandle, Shutdown
  <2>2. IsDone(r) => result'[r] = result[r] \/ result'[r] \in {"DoneOk", "DoneErr"}
    BY <1>1, <2>1 DEF TypeOK
  <2>3. QED
    BY <1>6, <2>1, <2>2
<1>9. ASSUME NEW l \in Loops, PollReturn(l) \/ DrainDone(l) \/ Messages(l) \/ LoopFail(l)
      PROVE  QueryIsAnswered(r)'
  <2>1. /\ pc' = pc /\ cm' = cm /\ handle' = handle
        /\ result'[r] = result[r] \/ result'[r] \in {"DoneOk", "DoneErr"}
    BY <1>9 DEF PollReturn, DrainDone, Messages, Publish, LoopFail
  <2>2. QED
    BY <1>6, <2>1
<1>10. ASSUME NEW l \in Loops, NEW q \in Req, Perform(l, q)
       PROVE  QueryIsAnswered(r)'
  BY <1>6, <1>10 DEF Perform, HeaderCallback, WriteCallback, Complete
<1>11. CASE DropClient
  BY <1>6, <1>11 DEF DropClient
<1>12. QED
  BY <1>3, <1>4, <1>5, <1>7, <1>8, <1>9, <1>10, <1>11 DEF Next, LoopThread, DrainTask
-----------------------------------------------------------------------------
(* The read of a request.                                                  *)

\* What the threads and the end of the client leave alone of a request, and when they
\* change what it may be asleep for, they wake it; only a query may be dropped silently.
LEMMA ThreadFrame ==
  ASSUME IndInv, NEW r \in Req, Next,
         ~\E q \in Req : Begin(q) \/ PollFuture(q) \/ Cancel(q) \/ PollBody(q) \/ Close(q)
  PROVE  /\ pc'[r] = pc[r] /\ cm'[r] = cm[r] /\ unpauseSent'[r] = unpauseSent[r]
         /\ buf[r] => buf'[r]
         /\ parked'[r] => /\ parked[r] /\ result'[r] = result[r] /\ header'[r] = header[r]
                          /\ buf'[r] = buf[r] /\ handle'[r] \in {handle[r], "gone"}
         /\ handle[r] # "none" /\ IsDone(r) => IsDone(r)'
         /\ \/ xfer'[r] = xfer[r] \/ xfer'[r] # "paused"
            \/ xfer[r] = "headers" \/ buf[r]
<1> USE DEF clientVars, loopVars, futureVars, sharedVars, ownerVars, curlVars
<1> DEFINE Kept == pc'[r] = pc[r] /\ cm'[r] = cm[r] /\ unpauseSent'[r] = unpauseSent[r]
           Same == /\ result'[r] = result[r] /\ header'[r] = header[r] /\ buf'[r] = buf[r]
                   /\ handle'[r] \in {handle[r], "gone"}
           Slept == parked'[r] => parked[r] /\ Same
           Done == handle[r] # "none" /\ IsDone(r) => IsDone(r)'
           Paused == \/ xfer'[r] = xfer[r] \/ xfer'[r] # "paused"
                     \/ xfer[r] = "headers" \/ buf[r]
           All == Kept /\ (buf[r] => buf'[r]) /\ Slept /\ Done /\ Paused
<1>1. TypeOK
  BY DEF IndInv
<1>2. ASSUME NEW l \in Loops, DrainTask(l)
      PROVE  All
  <2>1. PICK h \in LoopTask : h = Head(queue[l]) /\ TaskOK(l, h)
    BY <1>2, HeadOK
  <2>2. CASE ConstructHandle(l)
    <3>1. /\ UNCHANGED <<pc, cm, unpauseSent, header, buf, handle>>
          /\ result' = [result EXCEPT ![h.req] = "InProgress"]
          /\ xfer' = [xfer EXCEPT ![h.req] = "headers"]
          /\ parked' = [q \in Req |-> parked[q] /\ q \notin {h.req}]
      BY <2>1, <2>2 DEF ConstructHandle, Wake, WakeAll
    <3>2. h.req \in Req /\ easy[h.req] = "queue"
      BY <2>1, <2>2 DEF ConstructHandle, HasTask, TaskOK
    <3>3. r # h.req => result'[r] = result[r] /\ xfer'[r] = xfer[r] /\ parked'[r] = parked[r]
      BY <1>1, <3>1 DEF TypeOK
    <3>4. r = h.req => xfer'[r] = "headers" /\ parked'[r] = FALSE /\ handle[r] = "none"
      BY <1>1, <3>1, <3>2 DEF TypeOK, IndInv, FutureConsistent
    <3>5. QED
      BY <3>1, <3>3, <3>4 DEF IsDone
  <2>3. CASE QueryStored(l)
    <3>1. /\ UNCHANGED <<pc, cm, unpauseSent, header, buf, result, xfer>>
          /\ handle' = [handle EXCEPT ![h.req] = "shared"]
          /\ parked' = [q \in Req |-> parked[q] /\ q \notin {h.req}]
      BY <2>1, <2>3 DEF QueryStored, Wake, WakeAll
    <3>2. r # h.req => handle'[r] = handle[r] /\ parked'[r] = parked[r]
      BY <1>1, <3>1 DEF TypeOK
    <3>3. r = h.req => parked'[r] = FALSE
      BY <3>1
    <3>4. QED
      BY <3>1, <3>2, <3>3 DEF IsDone
  <2>4. CASE QueryFailed(l)
    <3>1. /\ UNCHANGED <<pc, cm, unpauseSent, header, buf, xfer>>
          /\ handle' = [handle EXCEPT ![h.req] = "gone"]
          /\ result' = [result EXCEPT ![h.req] = "DoneErr"]
          /\ parked' = [q \in Req |-> parked[q] /\ q \notin {h.req}]
      BY <2>1, <2>4 DEF QueryFailed, Wake, WakeAll
    <3>2. r # h.req => /\ handle'[r] = handle[r] /\ parked'[r] = parked[r]
                       /\ result'[r] = result[r]
      BY <1>1, <3>1 DEF TypeOK
    <3>3. r = h.req => parked'[r] = FALSE /\ result'[r] = "DoneErr"
      BY <1>1, <3>1 DEF TypeOK
    <3>4. QED
      BY <3>1, <3>2, <3>3 DEF IsDone
  <2>5. CASE UnpauseRecv(l) \/ DropHandle(l) \/ Shutdown(l)
    <3>1. /\ UNCHANGED <<pc, cm, unpauseSent, header, buf, result, handle, parked>>
          /\ \/ xfer' = xfer
             \/ \E o : xfer' = [xfer EXCEPT ![o] = "flowing"]
             \/ \E o : xfer' = [xfer EXCEPT ![o] = "none"]
      BY <2>5 DEF UnpauseRecv, DropHandle, Shutdown
    <3>2. xfer'[r] = xfer[r] \/ xfer'[r] # "paused"
      BY <1>1, <3>1 DEF TypeOK
    <3>3. parked'[r] = parked[r] /\ result'[r] = result[r]
      BY <3>1
    <3>4. QED
      BY <3>1, <3>2, <3>3 DEF IsDone
  <2>6. CASE UnpauseRecvFailed(l)
    <3>1. PICK o : /\ UNCHANGED <<pc, cm, unpauseSent, header, buf, handle, xfer>>
                   /\ result' = [result EXCEPT ![o] = "DoneErr"]
                   /\ parked' = [q \in Req |-> parked[q] /\ q \notin {o}]
      BY <2>6 DEF UnpauseRecvFailed, Wake, WakeAll
    <3>2. r # o => parked'[r] = parked[r] /\ result'[r] = result[r]
      BY <1>1, <3>1 DEF TypeOK
    <3>3. r = o => parked'[r] = FALSE /\ result'[r] = "DoneErr"
      BY <1>1, <3>1 DEF TypeOK
    <3>4. QED
      BY <3>1, <3>2, <3>3 DEF IsDone
  <2>7. QED
    BY <1>2, <2>2, <2>3, <2>4, <2>5, <2>6 DEF DrainTask
<1>3. ASSUME NEW l \in Loops, PollReturn(l) \/ DrainDone(l)
      PROVE  All
  BY <1>3 DEF PollReturn, DrainDone, IsDone
<1>4. ASSUME NEW l \in Loops, Messages(l) \/ LoopFail(l)
      PROVE  All
  <2>1. UNCHANGED <<pc, cm, unpauseSent, header, buf, handle>>
    BY <1>4 DEF Messages, LoopFail
  <2>2. \/ result'[r] = result[r] /\ xfer'[r] = xfer[r] /\ parked'[r] = parked[r]
        \/ /\ result'[r] \in {"DoneOk", "DoneErr"} /\ parked'[r] = FALSE
           /\ xfer'[r] \in {xfer[r], "finished"}
    <3>1. \E S \in SUBSET Req :
            /\ parked' = [q \in Req |-> parked[q] /\ q \notin S]
            /\ \/ xfer' = xfer
               \/ xfer' = [q \in Req |-> IF q \in S THEN "finished" ELSE xfer[q]]
            /\ result'[r] = result[r] \/ (r \in S /\ result'[r] \in {"DoneOk", "DoneErr"})
            /\ r \in S => result'[r] \in {"DoneOk", "DoneErr"}
      <4>1. CASE Messages(l)
        <5>1. {q \in Owned(l) : xfer[q] \in {"okMsg", "errMsg"}} \in SUBSET Req
          BY DEF Owned
        <5>2. QED
          BY <4>1, <5>1 DEF Messages, Publish, WakeAll
      <4>2. CASE LoopFail(l)
        <5>1. {q \in Owned(l) : ~IsDone(q)} \in SUBSET Req
          BY DEF Owned
        <5>2. QED
          BY <4>2, <5>1 DEF LoopFail, WakeAll
      <4>3. QED
        BY <1>4, <4>1, <4>2
    <3>2. parked[r] \in BOOLEAN
      BY <1>1 DEF TypeOK
    <3>3. QED
      BY <3>1, <3>2
  <2>3. QED
    BY <2>1, <2>2 DEF IsDone
<1>5. ASSUME NEW l \in Loops, DropInner(l)
      PROVE  All
  <2>1. /\ UNCHANGED <<pc, cm, unpauseSent, header, buf>>
        /\ handle'[r] \in {handle[r], "gone"} /\ xfer'[r] \in {xfer[r], "none"}
    BY <1>5 DEF DropInner
  <2>2. CASE r \in Queued(l, "Construct")
    <3>1. parked'[r] = FALSE
      BY <1>5, <2>2 DEF DropInner, GiveBack, WakeAll
    <3>2. handle[r] = "none"
      BY <2>2 DEF Queued, IndInv, TaskConsistent, TaskOK, FutureConsistent
    <3>3. QED
      BY <2>1, <3>1, <3>2 DEF IsDone
  <2>3. CASE r \notin Queued(l, "Construct")
    <3>1. parked'[r] = parked[r] /\ result'[r] = result[r]
      BY <1>1, <1>5, <2>3 DEF DropInner, GiveBack, WakeAll, TypeOK
    <3>2. QED
      BY <2>1, <3>1 DEF IsDone
  <2>4. QED
    BY <2>2, <2>3
<1>6. ASSUME NEW l \in Loops, NEW q \in Req, Perform(l, q)
      PROVE  All
  <2>1. UNCHANGED <<pc, cm, unpauseSent, result, handle>>
    BY <1>6 DEF Perform, HeaderCallback, WriteCallback, Complete
  <2>2. CASE HeaderCallback(l, q) \/ WriteCallback(l, q)
    <3>1. /\ parked'[r] = (parked[r] /\ r # q)
          /\ r # q => header'[r] = header[r] /\ buf'[r] = buf[r] /\ xfer'[r] = xfer[r]
          /\ buf[r] => buf'[r]
          /\ r = q => xfer[r] = "headers" \/ buf[r] \/ xfer'[r] = "flowing"
      BY <1>1, <2>2 DEF HeaderCallback, WriteCallback, Wake, WakeAll, TypeOK
    <3>2. QED
      BY <2>1, <3>1 DEF IsDone
  <2>3. CASE Complete(l, q, "okMsg") \/ Complete(l, q, "errMsg")
    <3>1. UNCHANGED <<parked, header, buf>> /\ (xfer'[r] = xfer[r] \/ xfer'[r] # "paused")
      BY <1>1, <2>3 DEF Complete, TypeOK
    <3>2. QED
      BY <2>1, <3>1 DEF IsDone
  <2>4. QED
    BY <1>6, <2>2, <2>3 DEF Perform
<1>7. CASE DropClient
  BY <1>7 DEF DropClient, IsDone
<1>8. All
  BY <1>2, <1>3, <1>4, <1>5, <1>6, <1>7 DEF Next, LoopThread
<1>9. QED
  BY <1>8

LEMMA ReadStep ==
  ASSUME ~MayRereadEnd, IndInv, NEW r \in Req, WakeOf(r), Next
  PROVE  ReadIsAsked(r)'
<1> USE DEF clientVars, loopVars, futureVars, sharedVars, ownerVars, curlVars
<1>1. TypeOK /\ TransferRuns(r) /\ QueryIsAnswered(r) /\ ReadIsAsked(r)
  BY DEF IndInv, WakeOf
<1>2. ASSUME Pending(r, "UnpauseRecv"), cm'[r] = cm[r], xfer'[r] = "paused"
      PROVE  Pending(r, "UnpauseRecv")'
  <2>1. PICK m \in Loops : m = cm[r]
    BY <1>2 DEF Pending
  <2>2. PICK t \in Tasks(m) : t.kind = "UnpauseRecv" /\ t.req = r
    BY <1>2, <2>1 DEF Pending, Queued
  <2>3. easy[r] = "slab" /\ resId[r] \in Ids /\ slab[m][resId[r]] = r
    BY <2>1, <2>2 DEF IndInv, TaskConsistent, TaskOK, SlabConsistent
  <2>4. ~DropInner(m)
    <3>1. r \in Owned(m)
      BY <2>3 DEF Owned
    <3>2. QED
      BY <1>2, <3>1 DEF DropInner
  <2>5. ASSUME DrainTask(m), Head(queue[m]).kind = "UnpauseRecv", Head(queue[m]).req = r
        PROVE  FALSE
    <3>1. UnpauseRecv(m) \/ UnpauseRecvFailed(m)
      BY <2>5 DEF DrainTask, ConstructHandle, QueryStored, QueryFailed, DropHandle,
         Shutdown, HasTask
    <3>2. Head(queue[m]).id = resId[r]
      BY <2>5, HeadOK DEF TaskOK
    <3>3. /\ xfer[r] = "paused" => xfer' = [xfer EXCEPT ![r] = "flowing"]
          /\ xfer[r] # "paused" => xfer' = xfer
      BY <2>3, <3>1, <3>2 DEF UnpauseRecv, UnpauseRecvFailed
    <3>4. QED
      BY <1>1, <1>2, <3>3 DEF TypeOK
  <2>6. QED
    BY <1>2, <2>1, <2>4, <2>5, TaskStays
<1>3. ASSUME NEW q \in Req, Begin(q) \/ PollFuture(q) \/ Cancel(q) \/ PollBody(q) \/ Close(q)
      PROVE  ReadIsAsked(r)'
  <2>1. CASE q # r
    <3>1. /\ pc'[r] = pc[r] /\ cm'[r] = cm[r] /\ unpauseSent'[r] = unpauseSent[r]
          /\ buf'[r] = buf[r] /\ result'[r] = result[r] /\ xfer'[r] = xfer[r]
      BY <1>1, <1>3, <2>1, OthersKept
    <3>2. QED
      BY <1>1, <1>2, <3>1 DEF ReadIsAsked, IsDone
  <2>2. CASE q = r
    <3>1. CASE ReadWait(r)
      <4>1. /\ pc[r] \in {"open", "reading"} /\ ~buf[r] /\ ~IsDone(r)
            /\ cm' = cm /\ xfer' = xfer /\ pc'[r] = "reading"
        BY <1>1, <3>1 DEF ReadWait, CanRead, GoTo, TypeOK
      <4>2. CASE unpauseSent[r]
        <5>1. pc[r] = "reading"
          BY <1>1, <4>1, <4>2 DEF ReadIsAsked, FinalPc
        <5>2. xfer[r] = "paused" => Pending(r, "UnpauseRecv")
          BY <1>1, <4>1, <5>1 DEF ReadIsAsked
        <5>3. xfer'[r] = "paused" => Pending(r, "UnpauseRecv")'
          BY <1>2, <4>1, <5>2
        <5>4. QED
          BY <4>1, <5>3 DEF ReadIsAsked
      <4>3. CASE ~unpauseSent[r]
        <5>1. PICK l \in Loops \cup {NoLoop} : l = cm[r]
          BY <1>1 DEF TypeOK
        <5>2. PICK i \in Ids \cup {NoId} : i = hid[r]
          BY <1>1 DEF TypeOK
        <5>3. Dispatch(l, Task("UnpauseRecv", r, i))
          BY <3>1, <4>3, <5>1, <5>2 DEF ReadWait
        <5>4. Alive(l) /\ l \in Loops
          BY <1>1, <4>1, <5>1 DEF TransferRuns, IndInv, SlabConsistent, Alive
        <5>5. /\ Task("UnpauseRecv", r, i) \in LoopTask
              /\ Task("UnpauseRecv", r, i).kind = "UnpauseRecv"
              /\ Task("UnpauseRecv", r, i).req = r
          BY TaskType DEF Task
        <5>6. Task("UnpauseRecv", r, i) \in Tasks(l)'
          BY <1>1, <5>3, <5>4, <5>5, DispatchKeeps
        <5>7. Pending(r, "UnpauseRecv")'
          BY <4>1, <5>1, <5>4, <5>5, <5>6 DEF Pending, Queued
        <5>8. QED
          BY <4>1, <5>7 DEF ReadIsAsked
      <4>4. QED
        BY <4>2, <4>3
    <3>2. CASE ReadData(r) \/ ReadEnd(r)
      <4>1. pc'[r] # "reading" /\ unpauseSent'[r] = FALSE
        BY <1>1, <3>2 DEF ReadData, ReadEnd, GoTo, TypeOK
      <4>2. QED
        BY <4>1 DEF ReadIsAsked
    <3>3. CASE Cancel(r) \/ Close(r)
      <4>1. pc'[r] \in FinalPc
        BY <1>1, <3>3 DEF Cancel, Close, GoTo, TypeOK, FinalPc
      <4>2. QED
        BY <4>1 DEF ReadIsAsked, FinalPc
    <3>4. CASE Begin(r) \/ PollFuture(r)
      <4>1. /\ pc[r] \notin {"reading", "end", "broken"} \cup FinalPc
            /\ pc'[r] # "reading" /\ unpauseSent' = unpauseSent
        BY <1>1, <3>4 DEF Begin, PollFuture, Acquire, Submit, SubmitRefused, PollStart, Replace, PollWait1,
           SendQuery, PollWait2, GoTo, TypeOK, FinalPc
      <4>2. QED
        BY <1>1, <4>1 DEF ReadIsAsked
    <3>5. QED
      BY <1>3, <2>2, <3>1, <3>2, <3>3, <3>4 DEF PollBody
  <2>3. QED
    BY <2>1, <2>2
<1>4. ASSUME ~\E q \in Req : Begin(q) \/ PollFuture(q) \/ Cancel(q) \/ PollBody(q) \/ Close(q)
      PROVE  ReadIsAsked(r)'
  <2>1. /\ pc'[r] = pc[r] /\ cm'[r] = cm[r] /\ unpauseSent'[r] = unpauseSent[r]
        /\ buf[r] => buf'[r]
        /\ handle[r] # "none" /\ IsDone(r) => IsDone(r)'
        /\ xfer'[r] = xfer[r] \/ xfer'[r] # "paused" \/ xfer[r] = "headers" \/ buf[r]
    BY <1>4, ThreadFrame
  <2>2. pc[r] = "reading" => handle[r] # "none" /\ (IsDone(r) \/ xfer[r] # "headers")
    BY <1>1 DEF TransferRuns, IndInv, FutureConsistent, BodyPc
  <2>3. ASSUME pc'[r] = "reading", ~buf'[r], ~IsDone(r)', xfer'[r] = "paused"
        PROVE  Pending(r, "UnpauseRecv")'
    <3>1. pc[r] = "reading" /\ ~buf[r] /\ ~IsDone(r) /\ xfer[r] = "paused"
      BY <2>1, <2>2, <2>3
    <3>2. QED
      BY <1>1, <1>2, <2>1, <2>3, <3>1 DEF ReadIsAsked
  <2>4. QED
    BY <1>1, <2>1, <2>3 DEF ReadIsAsked
<1>5. QED
  BY <1>3, <1>4

\* A request sleeps only for what has not happened, or is woken.
LEMMA SleepStep ==
  ASSUME IndInv, NEW r \in Req, WakeOf(r), Next
  PROVE  SleepIsDue(r)'
<1> USE DEF clientVars, loopVars, futureVars, sharedVars, ownerVars, curlVars
<1>1. TypeOK /\ SleepIsDue(r)
  BY DEF IndInv, WakeOf
<1>2. ASSUME NEW q \in Req, Begin(q) \/ PollFuture(q) \/ Cancel(q) \/ PollBody(q) \/ Close(q)
      PROVE  SleepIsDue(r)'
  <2>1. CASE q # r
    BY <1>1, <1>2, <2>1, OthersKept DEF SleepIsDue, IsDone
  <2>2. CASE q = r
    <3>1. CASE \/ Begin(r) \/ Acquire(r) \/ Submit(r) \/ SubmitRefused(r) \/ Replace(r)
               \/ SendQuery(r)
      BY <1>1, <3>1 DEF Begin, Acquire, Submit, SubmitRefused, Replace, SendQuery, SleepIsDue
    <3>2. CASE PollStart(r)
      BY <1>1, <3>2 DEF PollStart, Park, TypeOK, SleepIsDue
    <3>3. CASE PollWait1(r)
      BY <1>1, <3>3 DEF PollWait1, Park, TypeOK, SleepIsDue, IsDone
    <3>4. CASE PollWait2(r)
      BY <1>1, <3>4 DEF PollWait2, Park, TypeOK, SleepIsDue
    <3>5. CASE Cancel(r) \/ Close(r)
      BY <1>1, <3>5 DEF Cancel, Close, TypeOK, SleepIsDue
    <3>6. CASE ReadData(r) \/ ReadEnd(r)
      BY <1>1, <3>6 DEF ReadData, ReadEnd, CanRead, SleepIsDue
    <3>7. CASE ReadWait(r)
      <4>1. pc'[r] = "reading" /\ buf'[r] = buf[r] /\ ~buf[r] /\ result'[r] = "Init"
        BY <1>1, <3>7 DEF ReadWait, GoTo, TypeOK
      <4>2. QED
        BY <4>1 DEF SleepIsDue, IsDone
    <3>8. QED
      BY <1>2, <2>2, <3>1, <3>2, <3>3, <3>4, <3>5, <3>6, <3>7 DEF PollFuture, PollBody
  <2>3. QED
    BY <2>1, <2>2
<1>3. ASSUME ~\E q \in Req : Begin(q) \/ PollFuture(q) \/ Cancel(q) \/ PollBody(q) \/ Close(q)
      PROVE  SleepIsDue(r)'
  <2>1. /\ pc'[r] = pc[r]
        /\ parked'[r] => /\ parked[r] /\ result'[r] = result[r] /\ header'[r] = header[r]
                         /\ buf'[r] = buf[r] /\ handle'[r] \in {handle[r], "gone"}
    BY <1>3, ThreadFrame
  <2>2. QED
    BY <1>1, <2>1 DEF SleepIsDue, IsDone
<1>4. QED
  BY <1>2, <1>3

-----------------------------------------------------------------------------
(* The messages of a round, and the batches of a thread.                   *)

LEMMA MessagesDueStep ==
  ASSUME IndInv, MessagesDue, Next
  PROVE  MessagesDue'
<1> USE DEF clientVars, loopVars, futureVars, sharedVars, ownerVars, curlVars
<1>1. TypeOK
  BY DEF IndInv
<1> SUFFICES ASSUME NEW r \in Req, easy'[r] = "slab", xfer'[r] \in {"okMsg", "errMsg"}
             PROVE  lpc'[cm'[r]] \in {"perform", "exiting"}
  BY DEF MessagesDue
<1>2. easy[r] = "slab" => /\ cm[r] \in Loops /\ lpc[cm[r]] \notin {"unborn", "dead"}
                          /\ r \in Owned(cm[r])
  BY DEF IndInv, SlabConsistent, Alive, Owned
<1>3. easy[r] = "slab" /\ xfer[r] \in {"okMsg", "errMsg"} => lpc[cm[r]] \in {"perform", "exiting"}
  BY DEF MessagesDue
<1>4. ASSUME NEW q \in Req, Begin(q) \/ PollFuture(q) \/ Cancel(q) \/ PollBody(q) \/ Close(q)
      PROVE  lpc'[cm'[r]] \in {"perform", "exiting"}
  <2>1. xfer' = xfer /\ easy[r] = "slab"
    <3>1. xfer' = xfer /\ \/ easy' = easy
                          \/ \E e \in {"client", "queue", "freed"} : easy' = [easy EXCEPT ![q] = e]
      BY <1>4 DEF PollFuture, PollBody, Begin, Acquire, Submit, SubmitRefused, PollStart, Replace, PollWait1,
         SendQuery, PollWait2, Cancel, ReadData, ReadEnd, ReadWait, Close
    <3>2. QED
      BY <1>1, <3>1 DEF TypeOK
  <2>2. cm'[r] = cm[r]
    <3>1. pc[r] # "acquire"
      BY <2>1 DEF IndInv, FutureConsistent
    <3>2. cm' = cm \/ (pc[q] = "acquire" /\ cm' = [cm EXCEPT ![q] = mgr'])
      BY <1>4 DEF PollFuture, PollBody, Begin, Acquire, Submit, SubmitRefused, PollStart, Replace, PollWait1,
         SendQuery, PollWait2, Cancel, ReadData, ReadEnd, ReadWait, Close
    <3>3. QED
      BY <1>1, <3>1, <3>2 DEF TypeOK
  <2>3. lpc' = lpc \/ \E k \in Loops : lpc[k] = "unborn" /\ lpc' = [lpc EXCEPT ![k] = "poll"]
    BY <1>4 DEF PollFuture, PollBody, Begin, Acquire, Submit, SubmitRefused, PollStart, Replace, SpawnLoop,
       Fresh, PollWait1, SendQuery, PollWait2, Cancel, ReadData, ReadEnd, ReadWait, Close
  <2>4. lpc'[cm[r]] = lpc[cm[r]]
    BY <1>1, <1>2, <2>1, <2>3 DEF TypeOK
  <2>5. QED
    BY <1>3, <2>1, <2>2, <2>4
<1>5. ASSUME NEW l \in Loops, PollReturn(l) \/ DrainDone(l)
      PROVE  lpc'[cm'[r]] \in {"perform", "exiting"}
  <2>1. UNCHANGED <<cm, easy, xfer>> /\ lpc[l] \in {"poll", "drain"}
        /\ \E p \in {"drain", "perform"} : lpc' = [lpc EXCEPT ![l] = p]
    BY <1>5 DEF PollReturn, DrainDone
  <2>2. QED
    BY <1>1, <1>2, <1>3, <2>1 DEF TypeOK
<1>6. ASSUME NEW l \in Loops, DrainTask(l)
      PROVE  lpc'[cm'[r]] \in {"perform", "exiting"}
  <2>1. UNCHANGED <<cm, lpc>>
    BY <1>6 DEF DrainTask, ConstructHandle, QueryStored, QueryFailed, UnpauseRecv,
       UnpauseRecvFailed, DropHandle, Shutdown
  <2>2. \/ UNCHANGED <<easy, xfer>>
        \/ \E o : xfer' = [xfer EXCEPT ![o] = "flowing"] /\ easy' = easy
        \/ \E o : /\ xfer' = [xfer EXCEPT ![o] = "none"]
                  /\ easy' = [easy EXCEPT ![o] = "freed"]
        \/ \E o : /\ xfer' = [xfer EXCEPT ![o] = "headers"]
                  /\ easy' = [easy EXCEPT ![o] = "slab"]
    BY <1>6 DEF DrainTask, ConstructHandle, QueryStored, QueryFailed, UnpauseRecv,
       UnpauseRecvFailed, DropHandle, Shutdown
  <2>3. easy[r] = "slab" /\ xfer[r] = xfer'[r]
    BY <1>1, <2>2 DEF TypeOK
  <2>4. QED
    BY <1>3, <2>1, <2>3
<1>7. ASSUME NEW l \in Loops, Messages(l) \/ LoopFail(l) \/ DropInner(l)
      PROVE  lpc'[cm'[r]] \in {"perform", "exiting"}
  <2>1. cm' = cm /\ easy[r] = "slab"
    BY <1>7 DEF Messages, LoopFail, DropInner
  <2>2. CASE cm[r] = l
    <3>1. r \in Owned(l)
      BY <1>2, <2>1, <2>2
    <3>2. ~DropInner(l)
      BY <3>1 DEF DropInner
    <3>3. ~Messages(l)
      BY <3>1 DEF Messages, Publish
    <3>4. lpc' = [lpc EXCEPT ![l] = "exiting"]
      BY <1>7, <3>2, <3>3 DEF LoopFail
    <3>5. QED
      BY <1>1, <2>1, <2>2, <3>4 DEF TypeOK
  <2>3. CASE cm[r] # l
    <3>1. \E p : lpc' = [lpc EXCEPT ![l] = p]
      BY <1>7 DEF Messages, EndOfRound, LoopFail, DropInner
    <3>2. xfer[r] = xfer'[r]
      BY <1>7 DEF Messages, Publish, LoopFail, DropInner
    <3>3. lpc'[cm[r]] = lpc[cm[r]]
      BY <1>1, <1>2, <2>1, <2>3, <3>1 DEF TypeOK
    <3>4. QED
      BY <1>3, <2>1, <3>2, <3>3
  <2>4. QED
    BY <2>2, <2>3
<1>8. ASSUME NEW l \in Loops, NEW q \in Req, Perform(l, q)
      PROVE  lpc'[cm'[r]] \in {"perform", "exiting"}
  <2>1. /\ UNCHANGED <<cm, easy, lpc>> /\ lpc[l] = "perform" /\ q \in Owned(l)
        /\ \E v : xfer' = [xfer EXCEPT ![q] = v]
    BY <1>8 DEF Perform, HeaderCallback, WriteCallback, Complete
  <2>2. CASE q = r
    <3>1. cm[r] = l
      BY <2>1, <2>2 DEF Owned, IndInv, SlabConsistent
    <3>2. QED
      BY <2>1, <3>1
  <2>3. CASE q # r
    <3>1. xfer'[r] = xfer[r]
      BY <1>1, <2>1, <2>3 DEF TypeOK
    <3>2. QED
      BY <1>3, <2>1, <3>1
  <2>4. QED
    BY <2>2, <2>3
<1>9. CASE DropClient
  BY <1>3, <1>9 DEF DropClient
<1>10. QED
  BY <1>4, <1>5, <1>6, <1>7, <1>8, <1>9 DEF Next, LoopThread

\* A task is pushed together with a wake-up.
LEMMA DispatchWakes ==
  ASSUME ~WakeupMayFail, TypeOK, NEW l \in Loops \cup {NoLoop}, NEW t \in LoopTask,
         Dispatch(l, t), NEW m \in Loops
  PROVE  (queue'[m] = queue[m] /\ wakeup'[m] = wakeup[m]) \/ wakeup'[m] = TRUE
BY DEF Dispatch, WakeThread, Alive, TypeOK

LEMMA BatchStep ==
  ASSUME ~WakeupMayFail, IndInv, NEW m \in Loops, BatchOf(m), Next
  PROVE  BatchOf(m)'
<1> USE DEF clientVars, loopVars, futureVars, sharedVars, ownerVars, curlVars
<1>1. TypeOK /\ BatchOf(m)
  BY DEF IndInv
<1>2. ASSUME NEW q \in Req, Begin(q) \/ PollFuture(q) \/ Cancel(q) \/ PollBody(q) \/ Close(q)
      PROVE  BatchOf(m)'
  <2>1. inBatch' = inBatch
    BY <1>2 DEF PollFuture, PollBody, Begin, Acquire, Submit, SubmitRefused, PollStart, Replace, PollWait1,
       SendQuery, PollWait2, Cancel, ReadData, ReadEnd, ReadWait, Close
  <2>2. lpc'[m] = lpc[m] \/ (lpc[m] = "unborn" /\ lpc'[m] = "poll")
    <3>1. lpc' = lpc \/ \E k \in Loops : lpc[k] = "unborn" /\ lpc' = [lpc EXCEPT ![k] = "poll"]
      BY <1>2 DEF PollFuture, PollBody, Begin, Acquire, Submit, SubmitRefused, PollStart, Replace, SpawnLoop,
         Fresh, PollWait1, SendQuery, PollWait2, Cancel, ReadData, ReadEnd, ReadWait, Close
    <3>2. QED
      BY <1>1, <3>1 DEF TypeOK
  <2>3. (queue'[m] = queue[m] /\ wakeup'[m] = wakeup[m]) \/ wakeup'[m] = TRUE
    <3>1. PICK l \in Loops \cup {NoLoop} : l = cm[q]
      BY <1>1 DEF TypeOK
    <3>2. PICK i \in Ids \cup {NoId} : i = hid[q]
      BY <1>1 DEF TypeOK
    <3>3. \/ UNCHANGED <<queue, wakeup>>
          \/ Dispatch(l, Task("Construct", q, NoId))
          \/ Dispatch(l, Task("Drop", q, i))
          \/ Dispatch(l, Task("Query", q, i))
          \/ Dispatch(l, Task("UnpauseRecv", q, i))
      BY <1>2, <3>1, <3>2 DEF PollFuture, PollBody, Begin, Acquire, Submit, SubmitRefused, PollStart, Replace,
         PollWait1, SendQuery, PollWait2, Cancel, ReadData, ReadEnd, ReadWait, Close,
         ReleaseHandle
    <3>4. QED
      BY <1>1, <3>3, DispatchWakes, TaskType
  <2>4. QED
    BY <1>1, <2>1, <2>2, <2>3 DEF BatchOf
<1>3. CASE DropClient
  <2>1. PICK l \in Loops \cup {NoLoop} : l = mgr
    BY <1>1 DEF TypeOK
  <2>2. /\ UNCHANGED <<lpc, inBatch>>
        /\ (queue'[m] = queue[m] /\ wakeup'[m] = wakeup[m]) \/ wakeup'[m] = TRUE
    BY <1>1, <1>3, <2>1, DispatchWakes, TaskType DEF DropClient
  <2>3. QED
    BY <1>1, <2>2 DEF BatchOf
<1>4. ASSUME NEW l \in Loops, DrainTask(l)
      PROVE  BatchOf(m)'
  <2>1. /\ lpc' = lpc /\ lpc[l] = "drain" /\ inBatch[l] > 0
        /\ Take(l) \/ \E t : TakeAndDispatch(l, t)
    BY <1>4, HeadOK DEF DrainTask, ConstructHandle, QueryStored, QueryFailed, UnpauseRecv,
       UnpauseRecvFailed, DropHandle, Shutdown
  <2>2. CASE l # m
    <3>1. queue'[m] = queue[m] /\ inBatch'[m] = inBatch[m] /\ wakeup'[m] = wakeup[m]
      BY <1>1, <2>1, <2>2 DEF Take, TakeAndDispatch, WakeThread, TypeOK
    <3>2. QED
      BY <1>1, <2>1, <3>1 DEF BatchOf
  <2>3. CASE l = m /\ Take(l)
    <3>1. queue[m] \in Seq(LoopTask) /\ Len(queue[m]) > 0 /\ inBatch[m] \in Nat
      BY <2>1, <2>3, HeadTask, <1>1 DEF TypeOK
    <3>2. /\ queue'[m] = Tail(queue[m]) /\ inBatch'[m] = inBatch[m] - 1
          /\ wakeup'[m] = wakeup[m]
      BY <1>1, <2>3 DEF Take, TypeOK
    <3>3. Len(queue'[m]) = Len(queue[m]) - 1
      BY <3>1, <3>2
    <3>4. Len(queue[m]) \in Nat
      BY <3>1
    <3>5. QED
      BY <1>1, <2>1, <2>3, <3>1, <3>2, <3>3, <3>4 DEF BatchOf
  <2>4. CASE l = m /\ ~Take(l)
    <3>1. wakeup'[m] = TRUE
      BY <1>1, <2>1, <2>4 DEF TakeAndDispatch, WakeThread, TypeOK
    <3>2. QED
      BY <2>1, <2>4, <3>1 DEF BatchOf
  <2>5. QED
    BY <2>2, <2>3, <2>4
<1>5. ASSUME NEW l \in Loops,
             PollReturn(l) \/ DrainDone(l) \/ Messages(l) \/ LoopFail(l) \/ DropInner(l)
      PROVE  BatchOf(m)'
  <2>1. CASE l # m
    <3>1. /\ queue'[m] = queue[m] /\ inBatch'[m] = inBatch[m] /\ wakeup'[m] = wakeup[m]
          /\ lpc'[m] = lpc[m]
      BY <1>1, <1>5, <2>1 DEF PollReturn, DrainDone, Messages, EndOfRound, LoopFail, DropInner,
         TypeOK
    <3>2. QED
      BY <1>1, <3>1 DEF BatchOf
  <2>2. CASE l = m /\ PollReturn(l)
    <3>1. lpc'[m] = "drain" /\ queue'[m] = queue[m] /\ inBatch'[m] = Len(queue[m])
      BY <1>1, <2>2 DEF PollReturn, TypeOK
    <3>2. Len(queue[m]) \in Nat
      BY <1>1 DEF TypeOK
    <3>3. QED
      BY <3>1, <3>2 DEF BatchOf
  <2>3. CASE l = m /\ (DrainDone(l) \/ Messages(l) \/ LoopFail(l))
    <3>1. /\ queue'[m] = queue[m] /\ inBatch'[m] = inBatch[m] /\ wakeup'[m] = wakeup[m]
          /\ lpc[m] # "dead" /\ inBatch[m] = 0
      BY <1>1, <2>3 DEF DrainDone, Messages, LoopFail, BatchOf
    <3>2. QED
      BY <1>1, <3>1 DEF BatchOf
  <2>4. CASE l = m /\ DropInner(l)
    <3>1. lpc'[m] = "dead"
      BY <1>1, <2>4 DEF DropInner, TypeOK
    <3>2. QED
      BY <3>1 DEF BatchOf
  <2>5. QED
    BY <1>5, <2>1, <2>2, <2>3, <2>4
<1>6. ASSUME NEW l \in Loops, NEW q \in Req, Perform(l, q)
      PROVE  BatchOf(m)'
  <2>1. UNCHANGED <<lpc, queue, inBatch, wakeup>>
    BY <1>6 DEF Perform, HeaderCallback, WriteCallback, Complete
  <2>2. QED
    BY <1>1, <2>1 DEF BatchOf
<1>7. QED
  BY <1>2, <1>3, <1>4, <1>5, <1>6 DEF Next, LoopThread

-----------------------------------------------------------------------------
(* Together: no wake-up is lost.                                           *)

Waking == (\A r \in Req : WakeOf(r)) /\ MessagesDue

LEMMA WakingInit == Init => Waking
BY DEF Init, Waking, WakeOf, TransferRuns, QueryIsAnswered, ReadIsAsked, SleepIsDue,
   MessagesDue, IsDone

LEMMA WakingStep ==
  ASSUME ~MayRereadEnd, IndInv, AllTold, SuccessFinished, Waking, [Next]_vars
  PROVE  Waking'
<1>1. CASE Next
  <2>1. ASSUME NEW r \in Req
        PROVE  WakeOf(r)'
    <3>1. WakeOf(r)
      BY DEF Waking
    <3>2. QED
      BY <1>1, <3>1, TransferStep, QueryStep, ReadStep, SleepStep DEF WakeOf
  <2>2. MessagesDue'
    BY <1>1, MessagesDueStep DEF Waking
  <2>3. QED
    BY <2>1, <2>2 DEF Waking
<1>2. CASE UNCHANGED vars
  <2>1. UNCHANGED <<lpc, queue, pc, cm, unpauseSent, parked, result, header, buf, easy, handle,
                    xfer>>
    BY <1>2 DEF vars, clientVars, loopVars, futureVars, sharedVars, ownerVars, curlVars
  <2>2. \A r \in Req, kind \in {"Query", "UnpauseRecv"} : Pending(r, kind) => Pending(r, kind)'
    BY <2>1 DEF Pending, Queued, Tasks
  <2>3. ASSUME NEW r \in Req
        PROVE  WakeOf(r)'
    <3>1. WakeOf(r)
      BY DEF Waking
    <3>2. TransferRuns(r)' /\ SleepIsDue(r)'
      BY <2>1, <3>1 DEF WakeOf, TransferRuns, SleepIsDue, IsDone
    <3>3. QueryIsAnswered(r)' /\ ReadIsAsked(r)'
      BY <2>1, <2>2, <3>1 DEF WakeOf, QueryIsAnswered, ReadIsAsked, IsDone
    <3>4. QED
      BY <3>2, <3>3 DEF WakeOf
  <2>4. MessagesDue'
    BY <2>1 DEF Waking, MessagesDue
  <2>5. QED
    BY <2>3, <2>4 DEF Waking
<1>3. QED
  BY <1>1, <1>2

\* The thread of a request whose easy handle is in the slab, and which has not been
\* told, goes on.
LEMMA ThreadGoesOn ==
  ASSUME IndInv, AllTold, NEW r \in Req, easy[r] = "slab", ~Told(r)
  PROVE  lpc[cm[r]] \in {"poll", "drain", "perform"}
<1>1. cm[r] \in Loops /\ lpc[cm[r]] \notin {"unborn", "dead"} /\ r \in Owned(cm[r])
  BY DEF IndInv, SlabConsistent, Alive, Owned
<1>2. lpc[cm[r]] # "exiting"
  BY <1>1 DEF AllTold
<1>3. QED
  BY <1>1, <1>2 DEF IndInv, TypeOK

LEMMA WakingAwaits ==
  ASSUME IndInv, AllTold, WaitingQueued, Waking
  PROVE  SleeperIsAwaited
<1> SUFFICES ASSUME NEW r \in Req, parked[r]
             PROVE  SleepIsAwaited(r)
  BY DEF SleeperIsAwaited
<1>1. TypeOK /\ TransferRuns(r) /\ QueryIsAnswered(r) /\ ReadIsAsked(r) /\ SleepIsDue(r)
  BY DEF Waking, WakeOf, IndInv
<1>2. pc[r] \in {"starting", "wait1", "wait2", "reading"}
  BY <1>1 DEF SleepIsDue
<1>3. easy[r] = "slab" /\ xfer[r] \in {"okMsg", "errMsg"} => lpc[cm[r]] \in {"perform", "exiting"}
  BY DEF Waking, MessagesDue
<1>4. pc[r] \in {"wait1", "reading"} => handle[r] = "client"
  BY DEF IndInv, FutureConsistent, BodyPc
<1>5. CASE pc[r] = "starting"
  <2>1. easy[r] = "queue"
    BY <1>1, <1>5 DEF SleepIsDue, TransferRuns
  <2>2. cm[r] \in Loops /\ r \in Queued(cm[r], "Construct")
    BY <2>1 DEF WaitingQueued
  <2>3. Alive(cm[r])
    BY <2>2 DEF Queued, IndInv, TaskConsistent, TaskOK
  <2>4. QED
    BY <1>5, <2>1, <2>2, <2>3 DEF SleepIsAwaited
<1>6. CASE pc[r] = "wait1"
  <2>1. ~IsDone(r) /\ ~header[r]
    BY <1>1, <1>6 DEF SleepIsDue
  <2>2. easy[r] = "slab" /\ xfer[r] \in {"headers", "okMsg", "errMsg"}
    BY <1>1, <1>6, <2>1 DEF TransferRuns, TypeOK
  <2>3. lpc[cm[r]] \in {"poll", "drain", "perform"}
    BY <1>4, <1>6, <2>1, <2>2, ThreadGoesOn DEF Told, FinalPc
  <2>4. QED
    BY <1>3, <1>6, <2>1, <2>2, <2>3 DEF SleepIsAwaited
<1>7. CASE pc[r] = "wait2"
  <2>1. handle[r] # "shared" /\ result[r] # "DoneErr"
    BY <1>1, <1>7 DEF SleepIsDue
  <2>2. \/ handle[r] = "task" /\ Pending(r, "Query")
        \/ handle[r] = "gone" /\ IsDone(r)
    BY <1>1, <1>7, <2>1 DEF QueryIsAnswered
  <2>3. Pending(r, "Query") => Alive(cm[r])
    BY DEF Pending, Queued, IndInv, TaskConsistent, TaskOK
  <2>4. QED
    BY <1>7, <2>1, <2>2, <2>3 DEF Pending, IsDone, SleepIsAwaited
<1>8. CASE pc[r] = "reading"
  <2>1. ~IsDone(r) /\ ~buf[r]
    BY <1>1, <1>8 DEF SleepIsDue
  <2>2. easy[r] = "slab" /\ xfer[r] \in {"paused", "flowing", "okMsg", "errMsg"}
    BY <1>1, <1>8, <2>1 DEF TransferRuns, TypeOK
  <2>3. lpc[cm[r]] \in {"poll", "drain", "perform"}
    BY <1>4, <1>8, <2>1, <2>2, ThreadGoesOn DEF Told, FinalPc
  <2>4. xfer[r] = "paused" => r \in Queued(cm[r], "UnpauseRecv")
    BY <1>1, <1>8, <2>1 DEF ReadIsAsked, Pending
  <2>5. QED
    BY <1>3, <1>8, <2>1, <2>2, <2>3, <2>4 DEF SleepIsAwaited
<1>9. QED
  BY <1>2, <1>5, <1>6, <1>7, <1>8

\* No wake-up of a request is lost, between the requests, the loop threads and their
\* ends: whatever a future or a read of a request sleeps for is on its way, unless a
\* success was published before its query was dropped, or over the error of a failed one.
THEOREM SleepersAreAwaited == ASSUME ~MayRereadEnd PROVE Spec => []SleeperIsAwaited
<1> DEFINE Strong == AllTold /\ WaitingQueued /\ SuccessFinished /\ Waking
<1>1. Init => Strong
  BY WakingInit DEF Init, AllTold, WaitingQueued, SuccessFinished
<1>2. IndInv /\ Strong /\ [Next]_vars => Strong'
  <2>1. UNCHANGED vars /\ WaitingQueued => WaitingQueued'
    BY DEF vars, loopVars, futureVars, ownerVars, WaitingQueued, Queued, Tasks
  <2>2. UNCHANGED vars /\ SuccessFinished => SuccessFinished'
    BY DEF vars, sharedVars, curlVars, SuccessFinished
  <2>3. QED
    BY <2>1, <2>2, AllToldStep, WaitingQueuedStep, SuccessFinishedStep, WakingStep
<1>3. IndInv /\ Strong => SleeperIsAwaited
  BY WakingAwaits
<1> HIDE DEF Strong
<1>4. QED
  BY <1>1, <1>2, <1>3, InvariantHolds, PTL DEF Spec

\* No wake-up of a loop thread is lost: curl_multi_poll is not entered, or is left at
\* once, while the queue has tasks, wherever between the swap of the deque and the next
\* poll they were pushed, as long as curl_multi_wakeup does not fail.
THEOREM PollersAreWoken == ASSUME ~WakeupMayFail PROVE Spec => []PollIsWoken
<1> DEFINE Batches == \A l \in Loops : BatchOf(l)
<1>1. Init => Batches
  BY DEF Init, BatchOf
<1>2. IndInv /\ Batches /\ [Next]_vars => Batches'
  <2>1. UNCHANGED vars /\ Batches => Batches'
    BY DEF vars, loopVars, BatchOf
  <2>2. QED
    BY <2>1, BatchStep
<1>3. IndInv /\ Batches => PollIsWoken
  <2> SUFFICES ASSUME IndInv, Batches, NEW l \in Loops, lpc[l] = "poll", queue[l] # << >>
               PROVE  wakeup[l]
    BY DEF PollIsWoken
  <2>1. queue[l] \in Seq(LoopTask) /\ inBatch[l] = 0
    BY DEF IndInv, TypeOK, BatchOf
  <2>2. Len(queue[l]) \in Nat /\ Len(queue[l]) > 0
    BY <2>1
  <2>3. QED
    BY <2>1, <2>2 DEF BatchOf
<1> HIDE DEF Batches
<1>4. QED
  BY <1>1, <1>2, <1>3, InvariantHolds, PTL DEF Spec

=============================================================================
