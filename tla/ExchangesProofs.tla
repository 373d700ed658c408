--------------------------- MODULE ExchangesProofs ---------------------------
(***************************************************************************)
(* Proofs about the requests of WinRT, NSURLSession and reqwest and the    *)
(* messages of every backend: an inductive invariant of each part, kept by *)
(* every step of Exchanges, and the properties that follow, for any body,  *)
(* limit, timeout and thread.                                              *)
(***************************************************************************)
EXTENDS Exchanges, SequenceLemmas

LEMMA ExchangesStep ==
  [ExchangesNext]_ExchangesVars =>
    /\ [Winrt!Next]_(Winrt!vars) /\ [Task!Next]_(Task!vars)
    /\ [Reqwest!Next]_(Reqwest!vars)
<1>1. UNCHANGED winrtVars => UNCHANGED Winrt!vars
  BY DEF winrtVars, Winrt!vars
<1>2. UNCHANGED nsVars => UNCHANGED Task!vars
  BY DEF nsVars, Task!vars, Task!callVars, Task!wakeVars, Task!sharedVars, Task!taskVars
<1>3. UNCHANGED reqwestVars => UNCHANGED Reqwest!vars
  BY DEF reqwestVars, Reqwest!vars, Reqwest!callVars, Reqwest!bodyVars
<1>. QED
  BY <1>1, <1>2, <1>3 DEF ExchangesNext, ExchangesVars

-----------------------------------------------------------------------------
(* NSURLSession's data task.                                               *)

\* What excuses bytes() from returning less than the body: it is too large, or the
\* task was cancelled.
Excused == cb = "tooLarge" \/ cancelled

TaskTypeOK ==
  /\ suspended \in Nat /\ ngot \in Nat /\ nbuffer \in Nat /\ nleft \in Nat
  /\ buf \in Nat

\* Every byte is in the network, in the buffer or with the caller.
BytesAreCounted == ngot + nbuffer + nleft = NsLen \/ Excused

\* The task completes when nothing is left or with an error.
CompletedAtTheEnd == completed => nleft = 0 \/ taskError # "none" \/ Excused

\* bytes() announces the limit, and takes the buffer of a completed task once.
TakenOnce ==
  nop = "bytes" =>
    /\ limited
    /\ at \in {"take", "error"} => completed
    /\ at = "error" => nbuffer = 0 \/ taskError # "none" \/ Excused

TaskInv ==
  /\ TaskTypeOK /\ SuspendedOnce
  /\ BytesAreCounted /\ CompletedAtTheEnd /\ TakenOnce

LEMMA TaskInit == Task!Init => TaskInv
  BY ExchangesAssumption
  DEF Task!Init, TaskInv, TaskTypeOK, SuspendedOnce, Task!SuspendedOnce, BytesAreCounted,
      CompletedAtTheEnd, TakenOnce, Excused

LEMMA TaskCall == ASSUME TaskInv, Task!Call PROVE TaskInv'
  BY
  DEF Task!Call, Task!StartRequest, Task!StartBytes, Task!StartRead, Task!Move,
      Task!Close,
         Task!Resume, Task!callVars, Task!wakeVars, Task!sharedVars, Task!taskVars,
         TaskInv, TaskTypeOK, SuspendedOnce, Task!SuspendedOnce, BytesAreCounted,
         CompletedAtTheEnd, TakenOnce, Excused

LEMMA TaskStep == ASSUME TaskInv, Task!Step PROVE TaskInv'
<1>. USE DEF TaskInv, TaskTypeOK, SuspendedOnce, Task!SuspendedOnce, BytesAreCounted,
             CompletedAtTheEnd, TakenOnce, Excused, Task!Return, Task!callVars,
             Task!wakeVars, Task!sharedVars, Task!taskVars
<1>1. CASE Task!TakeResponse
  BY <1>1 DEF Task!TakeResponse
<1>2. CASE Task!RegisterAndPark
  BY <1>2 DEF Task!RegisterAndPark, Task!Resume
<1>3. CASE Task!Resumed
  BY <1>3 DEF Task!Resumed
<1>4. CASE Task!IsCompleted
  BY <1>4 DEF Task!IsCompleted
<1>5. CASE Task!TakeBuffer
  BY <1>5 DEF Task!TakeBuffer
<1>6. CASE Task!CheckTaskError
  BY <1>6 DEF Task!CheckTaskError
<1>7. CASE Task!TakeError
  BY <1>7 DEF Task!TakeError
<1>8. CASE Task!TakeData
  BY <1>8 DEF Task!TakeData, Task!Suspend
<1>9. CASE Task!NoData
  BY <1>9 DEF Task!NoData
<1>. QED
  BY <1>1, <1>2, <1>3, <1>4, <1>5, <1>6, <1>7, <1>8, <1>9 DEF Task!Step

LEMMA TaskSession == ASSUME TaskInv, Task!Session PROVE TaskInv'
<1>. USE DEF TaskInv, TaskTypeOK, SuspendedOnce, Task!SuspendedOnce, BytesAreCounted,
             CompletedAtTheEnd, TakenOnce, Excused, Task!Idle, Task!callVars,
             Task!wakeVars, Task!sharedVars, Task!taskVars
<1>1. CASE Task!DidReceiveResponse
  BY <1>1 DEF Task!DidReceiveResponse
<1>2. CASE Task!DidReceiveData
  BY <1>2 DEF Task!DidReceiveData
<1>3. CASE Task!DidComplete
  BY <1>3 DEF Task!DidComplete
<1>4. CASE Task!SetError
  BY <1>4 DEF Task!SetError
<1>. QED
  BY <1>1, <1>2, <1>3, <1>4 DEF Task!Session

LEMMA TaskNext == TaskInv /\ [Task!Next]_(Task!vars) => TaskInv'
<1>1. UNCHANGED Task!vars /\ TaskInv => TaskInv'
  BY DEF Task!vars, Task!callVars, Task!wakeVars, Task!sharedVars, Task!taskVars, TaskInv,
         TaskTypeOK, SuspendedOnce, Task!SuspendedOnce, BytesAreCounted,
         CompletedAtTheEnd,
         TakenOnce, Excused
<1>. QED
  BY <1>1, TaskCall, TaskStep, TaskSession DEF Task!Next

\* A task is never suspended twice: one resume() gets it going again.
THEOREM TaskIsSuspendedOnce == ExchangesSpec => []SuspendedOnce
<1>1. ExchangesInit => TaskInv
  BY TaskInit DEF ExchangesInit
<1>2. TaskInv /\ [ExchangesNext]_ExchangesVars => TaskInv'
  BY TaskNext, ExchangesStep
<1>3. TaskInv => SuspendedOnce
  BY DEF TaskInv
<1>. QED
  BY <1>1, <1>2, <1>3, PTL DEF ExchangesSpec

LEMMA BytesStep ==
  ASSUME TaskInv, nop = "bytes", Task!Next
  PROVE  /\ ngot' - ngot <= NsLimit
         /\ nop' = "none" /\ last' = "bytes" /\ ngot' # NsLen =>
              cb' = "tooLarge" \/ cancelled'
<1>. USE ExchangesAssumption DEF TaskInv, TaskTypeOK, Task!Return, Task!callVars,
         Task!wakeVars, Task!sharedVars, Task!taskVars
<1>1. CASE Task!Call
  BY <1>1 DEF Task!Call, Task!StartRequest, Task!StartBytes, Task!StartRead, Task!Move,
              Task!Close
<1>2. CASE Task!Session
  BY <1>2 DEF Task!Session, Task!DidReceiveResponse, Task!DidReceiveData,
              Task!DidComplete, Task!SetError
<1>3. CASE Task!TakeBuffer
  BY <1>3 DEF Task!TakeBuffer, Task!MaxSize, TakenOnce
<1>4. CASE Task!CheckTaskError
  BY <1>4 DEF Task!CheckTaskError, TakenOnce, BytesAreCounted, CompletedAtTheEnd, Excused
<1>5. CASE Task!RegisterAndPark \/ Task!Resumed \/ Task!IsCompleted
  BY <1>5 DEF Task!RegisterAndPark, Task!Resumed, Task!IsCompleted
<1>6. CASE Task!TakeResponse \/ Task!TakeError \/ Task!TakeData \/ Task!NoData
  BY <1>6 DEF Task!TakeResponse, Task!TakeError, Task!TakeData, Task!NoData
<1>. QED
  BY <1>1, <1>2, <1>3, <1>4, <1>5, <1>6 DEF Task!Next, Task!Step

\* A step of bytes() takes no more than the limit, and bytes() succeeds with less than
\* the body only when it is too large or the task was cancelled.
THEOREM TaskBytesAreHonest == ExchangesSpec => BytesAreHonest
<1>1. ExchangesInit => TaskInv
  BY TaskInit DEF ExchangesInit
<1>2. TaskInv /\ [ExchangesNext]_ExchangesVars => TaskInv'
  BY TaskNext, ExchangesStep
<1>3. TaskInv /\ [ExchangesNext]_ExchangesVars =>
        [nop = "bytes" =>
           /\ ngot' - ngot <= NsLimit
           /\ nop' = "none" /\ last' = "bytes" /\ ngot' # NsLen =>
                cb' = "tooLarge" \/ cancelled']_(Task!vars)
  BY BytesStep, ExchangesStep
<1>. QED
  BY <1>1, <1>2, <1>3, PTL DEF ExchangesSpec, BytesAreHonest, Task!BytesAreHonest

-----------------------------------------------------------------------------
(* WinRT's requests.                                                       *)

WinrtConfs == [client: {"async", "blocking"}, timeout: Timeouts, limit: WinrtLimits,
               content: BOOLEAN, whole: {WinrtLen} \cup TextLens]
WinrtOps == [kind: {"none", "send", "bytes", "open", "load"},
             state: {"started", "done", "error", "cancelled"}, got: Nat, want: Nat]
WinrtTimers == [state: {"off", "set", "firing"}, at: Nat, cancelled: BOOLEAN]
WinrtReaders == [state: {"none", "ready", "lost"}, loaded: Nat, want: Nat, empty: BOOLEAN]
WinrtResults ==
  {"none", "response", "timeout", "error", "large", "bytes", "read", "failed"} \X Nat

WinrtTypeOK ==
  /\ conf \in WinrtConfs
  /\ wcall \in {"none", "send", "bytes", "read", "over"}
  /\ wop \in WinrtOps /\ remaining \in Nat \cup {NoTimeout}
  /\ timer \in WinrtTimers /\ exceeded \in BOOLEAN /\ reader \in WinrtReaders
  /\ wbody \in [loaded: Nat, got: Nat] /\ result \in WinrtResults /\ now \in Nat

\* What the timeout leaves at a time.
LeftAt(time) == IF time < conf.timeout THEN conf.timeout - time ELSE 0

\* `remaining` is what was left when the running operation, or the last one, began or
\* ended; the timer runs for an operation that may not run out of it.
TimerIsKept ==
  /\ remaining = NoTimeout <=> conf.timeout = NoTimeout
  /\ timer.state # "off" => wcall \in {"send", "bytes"} /\ conf.timeout # NoTimeout
  /\ wcall \in {"none", "read"} =>
       ~timer.cancelled /\ (conf.timeout # NoTimeout => remaining = LeftAt(now))
  /\ wcall \in {"send", "bytes"} /\ conf.timeout # NoTimeout =>
       remaining = LeftAt(timer.at) /\ remaining # 0 /\ timer.at <= now
  /\ timer.cancelled => conf.timeout # NoTimeout /\ now >= conf.timeout

\* A time-out is an answer when the time is up, an error is the last answer.
TimeoutsAreDue ==
  /\ result[1] = "timeout" => conf.timeout # NoTimeout /\ now >= conf.timeout
  /\ result[1] = "error" =>
       wcall = "over" /\ timer.state = "off" /\ (~timer.cancelled \/ ~conf.content)

\* The operation is the call's.
OpIsTheCalls ==
  /\ wcall = "send" => wop.kind = "send"
  /\ wcall = "bytes" =>
       wop.kind = "bytes" /\ wop.got <= WinrtLen /\ (wop.state = "done" => wop.got = WinrtLen)
  /\ wop.kind = "load" => wcall = "read" /\ reader.state = "ready" /\ reader.loaded = 0
  /\ wop.kind = "open" => wcall = "read" /\ reader.state = "none"
  /\ wcall = "read" =>
       /\ wop.kind \in {"none", "open", "load"} /\ (wop.kind = "none" => wop.state = "done")
       /\ result[1] \in {"response", "read", "failed"}
  /\ wcall \in {"send", "bytes"} \/ result[1] = "none" => reader.state = "none"

\* The bytes a finished load has brought.
Brought == IF wop.kind = "load" /\ wop.state = "done" THEN wop.got ELSE 0

\* What was loaded is with the caller, in the reader, or just brought; a load that
\* brings nothing was asked for nothing or found the end.
StreamIsCounted ==
  /\ wbody.got + reader.loaded + Brought = wbody.loaded /\ wbody.loaded <= WinrtLen
  /\ reader.state # "ready" => reader.loaded = 0
  /\ wop.kind = "load" /\ wop.state = "done" /\ wop.got = 0 =>
       wop.want = 0 \/ wbody.loaded = WinrtLen
  /\ reader.state = "lost" =>
       result[1] = "failed" \/ reader.empty \/ wbody.got = WinrtLen

\* The body is too large if the handler says so; for an answer, it may be the text.
LargeIsLarge ==
  /\ exceeded => conf.limit # NoLimit /\ WinrtLen > conf.limit
  /\ result[1] = "large" =>
       conf.limit # NoLimit /\ (WinrtLen > conf.limit \/ conf.whole > conf.limit)

WinrtInv ==
  /\ WinrtTypeOK /\ TimerIsKept /\ TimeoutsAreDue /\ OpIsTheCalls /\ StreamIsCounted
  /\ LargeIsLarge /\ ResponseIsHonest

\* The types, field by field.
WinrtFieldTypes ==
  /\ conf.timeout \in Nat \cup {NoTimeout} /\ conf.limit \in Nat \cup {NoLimit}
  /\ conf.whole \in Nat
  /\ NoTimeout \notin Nat /\ NoLimit \notin Nat /\ WinrtLen \in Nat
  /\ remaining \in Nat \cup {NoTimeout} /\ now \in Nat
  /\ timer.at \in Nat /\ timer.state \in {"off", "set", "firing"}
  /\ timer.cancelled \in BOOLEAN /\ exceeded \in BOOLEAN
  /\ wop.state \in {"started", "done", "error", "cancelled"}
  /\ wop.got \in Nat /\ wop.want \in Nat
  /\ reader.loaded \in Nat /\ reader.want \in Nat /\ reader.empty \in BOOLEAN
  /\ wbody.loaded \in Nat /\ wbody.got \in Nat
  /\ result[2] \in Nat

LEMMA WinrtFields == WinrtTypeOK => WinrtFieldTypes
<1>. SUFFICES ASSUME WinrtTypeOK PROVE WinrtFieldTypes
  OBVIOUS
<1>1. /\ conf.timeout \in Nat \cup {NoTimeout} /\ conf.limit \in Nat \cup {NoLimit}
      /\ NoTimeout \notin Nat /\ NoLimit \notin Nat
  BY ExchangesAssumption
  DEF WinrtTypeOK, WinrtConfs, WinrtOps, WinrtTimers, WinrtReaders, WinrtResults
<1>2. WinrtLen \in Nat /\ conf.whole \in Nat
  BY ExchangesAssumption
  DEF WinrtTypeOK, WinrtConfs, WinrtOps, WinrtTimers, WinrtReaders, WinrtResults
<1>3. timer.cancelled \in BOOLEAN /\ exceeded \in BOOLEAN /\ reader.empty \in BOOLEAN
  BY DEF WinrtTypeOK, WinrtConfs, WinrtOps, WinrtTimers, WinrtReaders, WinrtResults
<1>4. /\ timer.at \in Nat /\ timer.state \in {"off", "set", "firing"}
      /\ wop.state \in {"started", "done", "error", "cancelled"}
      /\ wop.got \in Nat /\ wop.want \in Nat
  BY DEF WinrtTypeOK, WinrtConfs, WinrtOps, WinrtTimers, WinrtReaders, WinrtResults
<1>5. /\ reader.loaded \in Nat /\ reader.want \in Nat
      /\ wbody.loaded \in Nat /\ wbody.got \in Nat
      /\ result[2] \in Nat /\ now \in Nat /\ remaining \in Nat \cup {NoTimeout}
  BY DEF WinrtTypeOK, WinrtConfs, WinrtOps, WinrtTimers, WinrtReaders, WinrtResults
<1>. QED
  BY <1>1, <1>2, <1>3, <1>4, <1>5 DEF WinrtFieldTypes

LEMMA WinrtInit == Winrt!Init => WinrtInv
<1>. SUFFICES ASSUME Winrt!Init PROVE WinrtInv
  OBVIOUS
<1>1. /\ conf \in WinrtConfs /\ wop \in WinrtOps /\ timer \in WinrtTimers
      /\ reader \in WinrtReaders /\ wbody \in [loaded: Nat, got: Nat]
      /\ result \in WinrtResults
  BY
  DEF Winrt!Init, Winrt!NoOp, WinrtConfs, WinrtOps, WinrtTimers, WinrtReaders,
      WinrtResults
<1>2. WinrtTypeOK
  <2>1. remaining \in Nat \cup {NoTimeout}
    BY <1>1, ExchangesAssumption DEF Winrt!Init, WinrtConfs
  <2>. QED
    BY <1>1, <2>1 DEF Winrt!Init, WinrtTypeOK
<1>3. WinrtFieldTypes
  BY <1>2, WinrtFields
<1>4. TimerIsKept
  BY <1>3 DEF Winrt!Init, TimerIsKept, LeftAt, WinrtFieldTypes
<1>5. TimeoutsAreDue /\ OpIsTheCalls /\ LargeIsLarge
  BY DEF Winrt!Init, Winrt!NoOp, TimeoutsAreDue, OpIsTheCalls, LargeIsLarge
<1>6. StreamIsCounted
  BY <1>3 DEF Winrt!Init, Winrt!NoOp, StreamIsCounted, Brought, WinrtFieldTypes
<1>7. ResponseIsHonest
  BY DEF Winrt!Init, ResponseIsHonest, Winrt!ResponseIsHonest
<1>. QED
  BY <1>2, <1>4, <1>5, <1>6, <1>7 DEF WinrtInv

LEMMA WinrtTimerFires == ASSUME WinrtInv, Winrt!TimerFires PROVE WinrtInv'
<1>1. WinrtFieldTypes
  BY WinrtFields DEF WinrtInv
<1>2. WinrtTypeOK'
  <2>1. timer' \in WinrtTimers
    BY <1>1
    DEF Winrt!TimerFires, Winrt!Elapsed, WinrtInv, WinrtTypeOK, WinrtFieldTypes,
        WinrtTimers
  <2>. QED
    BY <2>1, <1>1
    DEF Winrt!TimerFires, Winrt!Elapsed, WinrtInv, WinrtTypeOK, WinrtFieldTypes
<1>3. /\ timer.state = "set" /\ now - timer.at >= remaining
      /\ timer'.state = "firing" /\ timer'.cancelled = TRUE /\ timer'.at = timer.at
      /\ UNCHANGED <<conf, wcall, wop, remaining, exceeded, reader, wbody, result, now>>
  BY <1>1 DEF Winrt!TimerFires, Winrt!Elapsed, WinrtInv, WinrtTypeOK, WinrtFieldTypes,
         WinrtOps, WinrtTimers, WinrtReaders, WinrtResults
<1>4. TimerIsKept'
  BY <1>1, <1>3 DEF WinrtInv, WinrtFieldTypes, TimerIsKept, LeftAt
<1>5. TimeoutsAreDue'
  BY <1>1, <1>3 DEF WinrtInv, WinrtFieldTypes, TimeoutsAreDue, TimerIsKept, LeftAt
<1>6. OpIsTheCalls'
  BY <1>1, <1>3 DEF WinrtInv, WinrtFieldTypes, OpIsTheCalls, TimerIsKept
<1>7. StreamIsCounted'
  BY <1>1, <1>3 DEF WinrtInv, WinrtFieldTypes, StreamIsCounted, Brought, OpIsTheCalls
<1>8. LargeIsLarge'
  BY <1>1, <1>3 DEF WinrtInv, WinrtFieldTypes, LargeIsLarge, OpIsTheCalls
<1>9. ResponseIsHonest'
  BY <1>1, <1>3
  DEF WinrtInv, WinrtFieldTypes, ResponseIsHonest, Winrt!ResponseIsHonest, OpIsTheCalls,
      StreamIsCounted, Brought, LargeIsLarge
<1>. QED
  BY <1>2, <1>4, <1>5, <1>6, <1>7, <1>8, <1>9 DEF WinrtInv

LEMMA WinrtTimerCancels == ASSUME WinrtInv, Winrt!TimerCancels PROVE WinrtInv'
<1>1. WinrtFieldTypes
  BY WinrtFields DEF WinrtInv
<1>2. WinrtTypeOK'
  <2>1. timer' \in WinrtTimers
    BY <1>1
    DEF Winrt!TimerCancels, Winrt!Cancelled, WinrtInv, WinrtTypeOK, WinrtFieldTypes,
        WinrtTimers
  <2>2. wop' \in WinrtOps
    BY <1>1
    DEF Winrt!TimerCancels, Winrt!Cancelled, WinrtInv, WinrtTypeOK, WinrtFieldTypes,
        WinrtOps
  <2>. QED
    BY <2>1, <2>2, <1>1
    DEF Winrt!TimerCancels, Winrt!Cancelled, WinrtInv, WinrtTypeOK, WinrtFieldTypes
<1>3. /\ timer.state = "firing" /\ timer'.state = "off"
      /\ timer'.cancelled = timer.cancelled /\ timer'.at = timer.at
      /\ wop'.kind = wop.kind /\ wop'.got = wop.got /\ wop'.want = wop.want
      /\ wop'.state \in {wop.state, "cancelled"} /\ (wop.state # "started" => wop'.state = wop.state)
      /\ UNCHANGED <<conf, wcall, remaining, exceeded, reader, wbody, result, now>>
  BY <1>1 DEF Winrt!TimerCancels, Winrt!Cancelled, WinrtInv, WinrtTypeOK, WinrtFieldTypes,
         WinrtOps, WinrtTimers, WinrtReaders, WinrtResults
<1>4. TimerIsKept'
  BY <1>1, <1>3 DEF WinrtInv, WinrtFieldTypes, TimerIsKept, LeftAt
<1>5. TimeoutsAreDue'
  BY <1>1, <1>3 DEF WinrtInv, WinrtFieldTypes, TimeoutsAreDue, TimerIsKept, LeftAt
<1>6. OpIsTheCalls'
  BY <1>1, <1>3 DEF WinrtInv, WinrtFieldTypes, OpIsTheCalls, TimerIsKept
<1>7. StreamIsCounted'
  BY <1>1, <1>3 DEF WinrtInv, WinrtFieldTypes, StreamIsCounted, Brought, OpIsTheCalls
<1>8. LargeIsLarge'
  BY <1>1, <1>3 DEF WinrtInv, WinrtFieldTypes, LargeIsLarge, OpIsTheCalls
<1>9. ResponseIsHonest'
  BY <1>1, <1>3
  DEF WinrtInv, WinrtFieldTypes, ResponseIsHonest, Winrt!ResponseIsHonest, OpIsTheCalls,
      StreamIsCounted, Brought, LargeIsLarge
<1>. QED
  BY <1>2, <1>4, <1>5, <1>6, <1>7, <1>8, <1>9 DEF WinrtInv

LEMMA WinrtTick == ASSUME WinrtInv, Winrt!Tick PROVE WinrtInv'
<1>1. WinrtFieldTypes
  BY WinrtFields DEF WinrtInv
<1>2. WinrtTypeOK'
  <2>. QED
    BY <1>1 DEF Winrt!Tick, Winrt!Running, WinrtInv, WinrtTypeOK, WinrtFieldTypes
<1>3. /\ timer.state # "off" /\ now' = now + 1
      /\ UNCHANGED <<conf, wcall, wop, remaining, timer, exceeded, reader, wbody, result>>
  BY <1>1 DEF Winrt!Tick, Winrt!Running, WinrtInv, WinrtTypeOK, WinrtFieldTypes,
         WinrtOps, WinrtTimers, WinrtReaders, WinrtResults
<1>4. TimerIsKept'
  BY <1>1, <1>3 DEF WinrtInv, WinrtFieldTypes, TimerIsKept, LeftAt
<1>5. TimeoutsAreDue'
  BY <1>1, <1>3 DEF WinrtInv, WinrtFieldTypes, TimeoutsAreDue, TimerIsKept, LeftAt
<1>6. OpIsTheCalls'
  BY <1>1, <1>3 DEF WinrtInv, WinrtFieldTypes, OpIsTheCalls, TimerIsKept
<1>7. StreamIsCounted'
  BY <1>1, <1>3 DEF WinrtInv, WinrtFieldTypes, StreamIsCounted, Brought, OpIsTheCalls
<1>8. LargeIsLarge'
  BY <1>1, <1>3 DEF WinrtInv, WinrtFieldTypes, LargeIsLarge, OpIsTheCalls
<1>9. ResponseIsHonest'
  BY <1>1, <1>3
  DEF WinrtInv, WinrtFieldTypes, ResponseIsHonest, Winrt!ResponseIsHonest, OpIsTheCalls,
      StreamIsCounted, Brought, LargeIsLarge
<1>. QED
  BY <1>2, <1>4, <1>5, <1>6, <1>7, <1>8, <1>9 DEF WinrtInv

LEMMA WinrtBodyArrives == ASSUME WinrtInv, Winrt!BodyArrives PROVE WinrtInv'
<1>1. WinrtFieldTypes
  BY WinrtFields DEF WinrtInv
<1>2. WinrtTypeOK'
  <2>1. wop' \in WinrtOps
    <3>. DEFINE o == [wop EXCEPT !.got = wop.got + 1]
    <3>0. wop \in WinrtOps /\ wop.got + 1 \in Nat
      BY <1>1 DEF WinrtInv, WinrtTypeOK, WinrtFieldTypes
    <3>1. o \in WinrtOps /\ [o EXCEPT !.state = "cancelled"] \in WinrtOps
      <4>1. o \in WinrtOps
        BY <3>0 DEF WinrtOps
      <4>. HIDE DEF o
      <4>. QED
        BY <4>1 DEF WinrtOps
    <3>2. wop' \in {o, Winrt!Cancelled(o)}
      BY DEF Winrt!BodyArrives, Winrt!HookProgress
    <3>3. o.state = "started" \/ o.state # "started"
      OBVIOUS
    <3>4. Winrt!Cancelled(o) \in {o, [o EXCEPT !.state = "cancelled"]}
      BY <3>1 DEF Winrt!Cancelled, WinrtOps
    <3>. QED
      BY <3>1, <3>2, <3>4
  <2>2. exceeded' \in BOOLEAN
    BY <1>1
    DEF Winrt!BodyArrives, Winrt!Running, Winrt!HookProgress, Winrt!Cancelled, WinrtInv,
        WinrtTypeOK, WinrtFieldTypes
  <2>. QED
    BY <2>1, <2>2, <1>1
    DEF Winrt!BodyArrives, Winrt!Running, Winrt!HookProgress, Winrt!Cancelled, WinrtInv,
        WinrtTypeOK, WinrtFieldTypes
<1>3. /\ wcall \in {"send", "bytes", "read"} /\ wop.kind = "bytes" /\ wop.state = "started" /\ wop.got < WinrtLen
      /\ wop'.kind = "bytes" /\ wop'.got = wop.got + 1 /\ wop'.state \in {"started", "cancelled"}
      /\ exceeded' = exceeded \/ (conf.limit # NoLimit /\ wop.got + 1 > conf.limit /\ exceeded' = TRUE)
      /\ UNCHANGED <<conf, wcall, remaining, timer, reader, wbody, result, now>>
  BY <1>1
  DEF Winrt!BodyArrives, Winrt!Running, Winrt!HookProgress, Winrt!Cancelled, WinrtInv,
      WinrtTypeOK, WinrtFieldTypes,
         WinrtOps, WinrtTimers, WinrtReaders, WinrtResults
<1>4. TimerIsKept'
  BY <1>1, <1>3 DEF WinrtInv, WinrtFieldTypes, TimerIsKept, LeftAt
<1>5. TimeoutsAreDue'
  BY <1>1, <1>3 DEF WinrtInv, WinrtFieldTypes, TimeoutsAreDue, TimerIsKept, LeftAt
<1>6. OpIsTheCalls'
  BY <1>1, <1>3 DEF WinrtInv, WinrtFieldTypes, OpIsTheCalls, TimerIsKept
<1>7. StreamIsCounted'
  BY <1>1, <1>3 DEF WinrtInv, WinrtFieldTypes, StreamIsCounted, Brought, OpIsTheCalls
<1>8. LargeIsLarge'
  BY <1>1, <1>3 DEF WinrtInv, WinrtFieldTypes, LargeIsLarge, OpIsTheCalls
<1>9. ResponseIsHonest'
  BY <1>1, <1>3
  DEF WinrtInv, WinrtFieldTypes, ResponseIsHonest, Winrt!ResponseIsHonest, OpIsTheCalls,
      StreamIsCounted, Brought, LargeIsLarge
<1>. QED
  BY <1>2, <1>4, <1>5, <1>6, <1>7, <1>8, <1>9 DEF WinrtInv

LEMMA WinrtOpEnds == ASSUME WinrtInv, Winrt!OpEnds PROVE WinrtInv'
<1>1. WinrtFieldTypes
  BY WinrtFields DEF WinrtInv
<1>2. wop \in WinrtOps /\ wbody \in [loaded: Nat, got: Nat] /\ wbody.loaded <= WinrtLen
  BY <1>1 DEF WinrtInv, WinrtTypeOK, StreamIsCounted, WinrtFieldTypes
<1>3. PICK n \in Nat :
        \/ /\ wop.kind = "load" /\ n <= WinrtLen - wbody.loaded
           /\ n = 0 => wop.want = 0 \/ WinrtLen <= wbody.loaded
           /\ wop' = [wop EXCEPT !.state = "done", !.got = n]
           /\ wbody' = [wbody EXCEPT !.loaded = wbody.loaded + n]
        \/ /\ wop.kind # "load" /\ (wop.kind = "bytes" => wop.got = WinrtLen)
           /\ wop' = [wop EXCEPT !.state = "done"] /\ wbody' = wbody
        \/ wop' = [wop EXCEPT !.state = "error"] /\ wbody' = wbody
  <2>1. CASE wop.kind = "load" /\ wop' # [wop EXCEPT !.state = "error"]
    <3>. DEFINE most == IF wop.want < WinrtLen - wbody.loaded
                        THEN wop.want ELSE WinrtLen - wbody.loaded
    <3>1. /\ most \in Nat /\ most <= WinrtLen - wbody.loaded
          /\ most = 0 => wop.want = 0 \/ WinrtLen <= wbody.loaded
      BY <1>1, <1>2 DEF WinrtFieldTypes
    <3>2. PICK n \in 0..most : /\ n = 0 <=> most = 0
                             /\ wop' = [wop EXCEPT !.state = "done", !.got = n]
                             /\ wbody' = [wbody EXCEPT !.loaded = wbody.loaded + n]
      BY <2>1 DEF Winrt!OpEnds
    <3>3. n \in Nat /\ n <= WinrtLen - wbody.loaded /\ (n = 0 => most = 0)
      <4>. HIDE DEF most
      <4>. QED
        BY <1>1, <1>2, <3>1, <3>2 DEF WinrtFieldTypes
    <3>. QED
      BY <2>1, <3>1, <3>2, <3>3
  <2>2. CASE wop.kind # "load" \/ wop' = [wop EXCEPT !.state = "error"]
    <3>1. 0 \in Nat
      OBVIOUS
    <3>2. \/ wop' = [wop EXCEPT !.state = "error"] /\ wbody' = wbody
          \/ /\ wop.kind # "load" /\ (wop.kind = "bytes" => wop.got = WinrtLen)
             /\ wop' = [wop EXCEPT !.state = "done"] /\ wbody' = wbody
          \/ wop.kind = "load" /\ wop' = [wop EXCEPT !.state = "error"]
      BY <2>2 DEF Winrt!OpEnds
    <3>3. wop.kind = "load" /\ wop' = [wop EXCEPT !.state = "error"] => wbody' = wbody
      BY <1>2 DEF Winrt!OpEnds, WinrtOps
    <3>. QED
      BY <3>1, <3>2, <3>3
  <2>. QED
    BY <2>1, <2>2
<1>4. /\ wcall \in {"send", "bytes", "read"} /\ wop.state = "started"
      /\ UNCHANGED <<conf, wcall, remaining, timer, exceeded, reader, result, now>>
  BY DEF Winrt!OpEnds, Winrt!Running
<1>5. /\ wop' \in WinrtOps /\ wop'.kind = wop.kind /\ wop'.want = wop.want
      /\ wbody' \in [loaded: Nat, got: Nat] /\ wbody'.got = wbody.got
  <2>1. n \in Nat /\ wbody.loaded + n \in Nat
    BY <1>1, <1>3 DEF WinrtFieldTypes
  <2>2. wop' \in WinrtOps /\ wop'.kind = wop.kind /\ wop'.want = wop.want
    BY <1>2, <1>3, <2>1 DEF WinrtOps
  <2>3. wbody' \in [loaded: Nat, got: Nat] /\ wbody'.got = wbody.got
    BY <1>2, <1>3, <2>1
  <2>. QED
    BY <2>2, <2>3
<1>6. \/ /\ wop.kind = "load" /\ wop'.state = "done" /\ wop'.got = n
         /\ n <= WinrtLen - wbody.loaded /\ wbody'.loaded = wbody.loaded + n
         /\ n = 0 => wop.want = 0 \/ WinrtLen <= wbody.loaded
      \/ /\ wop'.got = wop.got /\ wbody'.loaded = wbody.loaded
         /\ \/ wop'.state = "error"
            \/ /\ wop'.state = "done" /\ wop.kind # "load"
               /\ wop.kind = "bytes" => wop.got = WinrtLen
  BY <1>2, <1>3 DEF WinrtOps
<1>7. WinrtTypeOK'
  BY <1>4, <1>5 DEF WinrtInv, WinrtTypeOK
<1>8. TimerIsKept' /\ TimeoutsAreDue' /\ LargeIsLarge'
  BY <1>4 DEF WinrtInv, TimerIsKept, TimeoutsAreDue, LargeIsLarge, LeftAt
<1>9. OpIsTheCalls'
  BY <1>1, <1>4, <1>5, <1>6 DEF WinrtInv, WinrtFieldTypes, OpIsTheCalls
<1>10. StreamIsCounted'
  BY <1>1, <1>2, <1>4, <1>5, <1>6
  DEF WinrtInv, WinrtFieldTypes, StreamIsCounted, Brought, OpIsTheCalls
<1>11. ResponseIsHonest'
  BY <1>4, <1>5 DEF WinrtInv, ResponseIsHonest, Winrt!ResponseIsHonest
<1>. QED
  BY <1>7, <1>8, <1>9, <1>10, <1>11 DEF WinrtInv

LEMMA WinrtSent == ASSUME WinrtInv, Winrt!Sent PROVE WinrtInv'
<1>1. WinrtFieldTypes
  BY WinrtFields DEF WinrtInv
<1>2. WinrtTypeOK'
  <2>1. result' \in WinrtResults
    BY <1>1
    DEF Winrt!Sent, Winrt!Running, Winrt!Final, Winrt!Deducted, Winrt!Stopped,
        Winrt!Elapsed, WinrtInv, WinrtTypeOK, WinrtFieldTypes, WinrtResults
  <2>2. remaining' \in Nat \cup {NoTimeout}
    BY <1>1
    DEF Winrt!Sent, Winrt!Running, Winrt!Final, Winrt!Deducted, Winrt!Stopped,
        Winrt!Elapsed, WinrtInv, WinrtTypeOK, WinrtFieldTypes
  <2>3. timer' \in WinrtTimers
    BY <1>1
    DEF Winrt!Sent, Winrt!Running, Winrt!Final, Winrt!Deducted, Winrt!Stopped,
        Winrt!Elapsed, WinrtInv, WinrtTypeOK, WinrtFieldTypes, WinrtTimers
  <2>. QED
    BY <2>1, <2>2, <2>3, <1>1
    DEF Winrt!Sent, Winrt!Running, Winrt!Final, Winrt!Deducted, Winrt!Stopped,
        Winrt!Elapsed, WinrtInv, WinrtTypeOK, WinrtFieldTypes
<1>3. /\ wcall = "send" /\ wcall' = IF result'[1] = "response" THEN "none" ELSE "over"
      /\ result'[1] = IF timer.cancelled THEN "timeout"
                     ELSE IF wop.state = "done" THEN "response" ELSE "error"
      /\ remaining' = IF remaining = NoTimeout \/ timer.cancelled THEN remaining
                   ELSE IF now - timer.at < remaining THEN remaining - (now - timer.at) ELSE 0
      /\ timer'.state = "off" /\ timer'.cancelled = timer.cancelled /\ timer'.at = timer.at
      /\ UNCHANGED <<conf, wop, exceeded, reader, wbody, now>>
  BY <1>1
  DEF Winrt!Sent, Winrt!Running, Winrt!Final, Winrt!Deducted, Winrt!Stopped,
      Winrt!Elapsed, WinrtInv, WinrtTypeOK, WinrtFieldTypes,
         WinrtOps, WinrtTimers, WinrtReaders, WinrtResults
<1>4. TimerIsKept'
  BY <1>1, <1>3 DEF WinrtInv, WinrtFieldTypes, TimerIsKept, LeftAt
<1>5. TimeoutsAreDue'
  BY <1>1, <1>3 DEF WinrtInv, WinrtFieldTypes, TimeoutsAreDue, TimerIsKept, LeftAt
<1>6. OpIsTheCalls'
  BY <1>1, <1>3 DEF WinrtInv, WinrtFieldTypes, OpIsTheCalls, TimerIsKept
<1>7. StreamIsCounted'
  BY <1>1, <1>3 DEF WinrtInv, WinrtFieldTypes, StreamIsCounted, Brought, OpIsTheCalls
<1>8. LargeIsLarge'
  BY <1>1, <1>3 DEF WinrtInv, WinrtFieldTypes, LargeIsLarge, OpIsTheCalls
<1>9. ResponseIsHonest'
  BY <1>1, <1>3
  DEF WinrtInv, WinrtFieldTypes, ResponseIsHonest, Winrt!ResponseIsHonest, OpIsTheCalls,
      StreamIsCounted, Brought, LargeIsLarge
<1>. QED
  BY <1>2, <1>4, <1>5, <1>6, <1>7, <1>8, <1>9 DEF WinrtInv

LEMMA WinrtBytesEnd == ASSUME WinrtInv, Winrt!BytesEnd PROVE WinrtInv'
<1>1. WinrtFieldTypes
  BY WinrtFields DEF WinrtInv
<1>2. WinrtTypeOK'
  <2>1. result' \in WinrtResults
    BY <1>1
    DEF Winrt!BytesEnd, Winrt!Running, Winrt!Final, Winrt!Deducted, Winrt!Stopped,
        Winrt!Elapsed, Winrt!AssertSize, WinrtInv, WinrtTypeOK, WinrtFieldTypes,
        WinrtResults
  <2>2. remaining' \in Nat \cup {NoTimeout}
    BY <1>1
    DEF Winrt!BytesEnd, Winrt!Running, Winrt!Final, Winrt!Deducted, Winrt!Stopped,
        Winrt!Elapsed, Winrt!AssertSize, WinrtInv, WinrtTypeOK, WinrtFieldTypes
  <2>3. timer' \in WinrtTimers
    BY <1>1
    DEF Winrt!BytesEnd, Winrt!Running, Winrt!Final, Winrt!Deducted, Winrt!Stopped,
        Winrt!Elapsed, Winrt!AssertSize, WinrtInv, WinrtTypeOK, WinrtFieldTypes,
        WinrtTimers
  <2>. QED
    BY <2>1, <2>2, <2>3, <1>1
    DEF Winrt!BytesEnd, Winrt!Running, Winrt!Final, Winrt!Deducted, Winrt!Stopped,
        Winrt!Elapsed, Winrt!AssertSize, WinrtInv, WinrtTypeOK, WinrtFieldTypes
<1>3. /\ wcall = "bytes" /\ wcall' = "over"
      /\ \/ conf.limit # NoLimit /\ result' = <<"large", 0>>
            /\ (exceeded \/ (wop.state = "done" /\ conf.whole > conf.limit))
         \/ /\ conf.limit # NoLimit /\ wop.state = "done" /\ ~timer.cancelled =>
                 conf.whole <= conf.limit
            /\ result' = IF timer.cancelled THEN <<"timeout", 0>>
                      ELSE IF wop.state = "done" THEN <<"bytes", conf.whole>>
                      ELSE <<"error", 0>>
      /\ remaining' = IF remaining = NoTimeout \/ timer.cancelled THEN remaining
                   ELSE IF now - timer.at < remaining THEN remaining - (now - timer.at) ELSE 0
      /\ timer'.state = "off" /\ timer'.cancelled = timer.cancelled /\ timer'.at = timer.at
      /\ UNCHANGED <<conf, wop, exceeded, reader, wbody, now>>
  BY <1>1
  DEF Winrt!BytesEnd, Winrt!Running, Winrt!Final, Winrt!Deducted, Winrt!Stopped,
      Winrt!Elapsed, Winrt!AssertSize, WinrtInv, WinrtTypeOK, WinrtFieldTypes,
         WinrtOps, WinrtTimers, WinrtReaders, WinrtResults
<1>4. TimerIsKept'
  BY <1>1, <1>3 DEF WinrtInv, WinrtFieldTypes, TimerIsKept, LeftAt
<1>5. TimeoutsAreDue'
  BY <1>1, <1>3 DEF WinrtInv, WinrtFieldTypes, TimeoutsAreDue, TimerIsKept, LeftAt
<1>6. OpIsTheCalls'
  BY <1>1, <1>3 DEF WinrtInv, WinrtFieldTypes, OpIsTheCalls, TimerIsKept
<1>7. StreamIsCounted'
  BY <1>1, <1>3 DEF WinrtInv, WinrtFieldTypes, StreamIsCounted, Brought, OpIsTheCalls
<1>8. LargeIsLarge'
  BY <1>1, <1>3 DEF WinrtInv, WinrtFieldTypes, LargeIsLarge, OpIsTheCalls
<1>9. ResponseIsHonest'
  BY <1>1, <1>3
  DEF WinrtInv, WinrtFieldTypes, ResponseIsHonest, Winrt!ResponseIsHonest, OpIsTheCalls,
      StreamIsCounted, Brought, LargeIsLarge
<1>. QED
  BY <1>2, <1>4, <1>5, <1>6, <1>7, <1>8, <1>9 DEF WinrtInv

LEMMA WinrtReadNothing == ASSUME WinrtInv, Winrt!ReadNothing PROVE WinrtInv'
<1>1. WinrtFieldTypes
  BY WinrtFields DEF WinrtInv
<1>0. reader' = reader \/ reader' = [reader EXCEPT !.loaded = 0]
  <2>1. wop.kind = "none" /\ reader \in WinrtReaders
    BY DEF Winrt!ReadNothing, WinrtInv, WinrtTypeOK
  <2>2. \/ reader' = reader
        \/ reader' = [reader EXCEPT !.state = reader.state, !.loaded = 0,
                                   !.empty = @ \/ (wop.kind = "load" /\ wop.want = 0)]
    BY DEF Winrt!ReadNothing, Winrt!Returns
  <2>3. [reader EXCEPT !.state = reader.state, !.loaded = 0,
                       !.empty = @ \/ (wop.kind = "load" /\ wop.want = 0)]
          = [reader EXCEPT !.loaded = 0]
    BY <2>1 DEF WinrtReaders
  <2>. QED
    BY <2>2, <2>3
<1>2. WinrtTypeOK'
  <2>1. wop' \in WinrtOps
    BY <1>1
    DEF Winrt!ReadNothing, Winrt!Returns, Winrt!NoOp, WinrtInv, WinrtTypeOK,
        WinrtFieldTypes, WinrtOps
  <2>2. result' \in WinrtResults
    BY <1>1
    DEF Winrt!ReadNothing, Winrt!Returns, Winrt!NoOp, WinrtInv, WinrtTypeOK,
        WinrtFieldTypes, WinrtResults
  <2>3. reader' \in WinrtReaders
    BY <1>0, <1>1 DEF WinrtInv, WinrtTypeOK, WinrtReaders
  <2>. QED
    BY <2>1, <2>2, <2>3, <1>1
    DEF Winrt!ReadNothing, Winrt!Returns, Winrt!NoOp, WinrtInv, WinrtTypeOK,
        WinrtFieldTypes
<1>3. /\ wcall = "read" /\ wcall' = "none" /\ wop.kind = "none" /\ wop'.kind = "none"
      /\ reader.state = "lost" \/ (reader.state = "none" /\ ~conf.content)
      /\ result'[1] = "failed" \/ (result[1] # "failed" /\ result'[1] = "read")
      /\ reader'.state = reader.state /\ reader'.empty = reader.empty /\ reader'.want = reader.want
      /\ reader'.loaded = reader.loaded \/ reader'.loaded = 0
      /\ UNCHANGED <<conf, remaining, timer, exceeded, wbody, now>>
  <2>1. /\ reader'.state = reader.state /\ reader'.empty = reader.empty
        /\ reader'.want = reader.want /\ reader'.loaded \in {reader.loaded, 0}
    BY <1>0 DEF WinrtInv, WinrtTypeOK, WinrtReaders
  <2>. QED
    BY <1>1, <2>1 DEF Winrt!ReadNothing, Winrt!Returns, Winrt!NoOp, WinrtInv, WinrtTypeOK,
                      WinrtFieldTypes
<1>4. TimerIsKept'
  BY <1>1, <1>3 DEF WinrtInv, WinrtFieldTypes, TimerIsKept, LeftAt
<1>5. TimeoutsAreDue'
  BY <1>1, <1>3 DEF WinrtInv, WinrtFieldTypes, TimeoutsAreDue, TimerIsKept, LeftAt
<1>6. OpIsTheCalls'
  BY <1>1, <1>3 DEF WinrtInv, WinrtFieldTypes, OpIsTheCalls, TimerIsKept
<1>7. StreamIsCounted'
  BY <1>1, <1>3 DEF WinrtInv, WinrtFieldTypes, StreamIsCounted, Brought, OpIsTheCalls
<1>8. LargeIsLarge'
  BY <1>1, <1>3 DEF WinrtInv, WinrtFieldTypes, LargeIsLarge, OpIsTheCalls
<1>9. ResponseIsHonest'
  BY <1>1, <1>3
  DEF WinrtInv, WinrtFieldTypes, ResponseIsHonest, Winrt!ResponseIsHonest, OpIsTheCalls,
      StreamIsCounted, Brought, LargeIsLarge
<1>. QED
  BY <1>2, <1>4, <1>5, <1>6, <1>7, <1>8, <1>9 DEF WinrtInv

LEMMA WinrtLoad == ASSUME WinrtInv, Winrt!Load PROVE WinrtInv'
<1>1. WinrtFieldTypes
  BY WinrtFields DEF WinrtInv
<1>2. WinrtTypeOK'
  <2>1. wop' \in WinrtOps
    BY <1>1
    DEF Winrt!Load, Winrt!Started, WinrtInv, WinrtTypeOK, WinrtFieldTypes, WinrtOps
  <2>. QED
    BY <2>1, <1>1 DEF Winrt!Load, Winrt!Started, WinrtInv, WinrtTypeOK, WinrtFieldTypes
<1>3. /\ wcall = "read" /\ reader.state = "ready" /\ reader.loaded = 0 /\ wop.kind = "none"
      /\ wop'.kind = "load" /\ wop'.state = "started"
      /\ UNCHANGED <<conf, wcall, remaining, timer, exceeded, reader, wbody, result, now>>
  BY <1>1 DEF Winrt!Load, Winrt!Started, WinrtInv, WinrtTypeOK, WinrtFieldTypes,
         WinrtOps, WinrtTimers, WinrtReaders, WinrtResults
<1>4. TimerIsKept'
  BY <1>1, <1>3 DEF WinrtInv, WinrtFieldTypes, TimerIsKept, LeftAt
<1>5. TimeoutsAreDue'
  BY <1>1, <1>3 DEF WinrtInv, WinrtFieldTypes, TimeoutsAreDue, TimerIsKept, LeftAt
<1>6. OpIsTheCalls'
  BY <1>1, <1>3 DEF WinrtInv, WinrtFieldTypes, OpIsTheCalls, TimerIsKept
<1>7. StreamIsCounted'
  BY <1>1, <1>3 DEF WinrtInv, WinrtFieldTypes, StreamIsCounted, Brought, OpIsTheCalls
<1>8. LargeIsLarge'
  BY <1>1, <1>3 DEF WinrtInv, WinrtFieldTypes, LargeIsLarge, OpIsTheCalls
<1>9. ResponseIsHonest'
  BY <1>1, <1>3
  DEF WinrtInv, WinrtFieldTypes, ResponseIsHonest, Winrt!ResponseIsHonest, OpIsTheCalls,
      StreamIsCounted, Brought, LargeIsLarge
<1>. QED
  BY <1>2, <1>4, <1>5, <1>6, <1>7, <1>8, <1>9 DEF WinrtInv

LEMMA WinrtConsume == ASSUME WinrtInv, Winrt!Consume PROVE WinrtInv'
<1>1. WinrtFieldTypes
  BY WinrtFields DEF WinrtInv
<1>2. WinrtTypeOK'
  <2>1. reader' \in WinrtReaders
    BY <1>1 DEF Winrt!Consume, WinrtInv, WinrtTypeOK, WinrtFieldTypes, WinrtReaders
  <2>2. wbody' \in [loaded: Nat, got: Nat]
    BY <1>1 DEF Winrt!Consume, WinrtInv, WinrtTypeOK, WinrtFieldTypes
  <2>3. result' \in WinrtResults
    BY <1>1 DEF Winrt!Consume, WinrtInv, WinrtTypeOK, WinrtFieldTypes, WinrtResults
  <2>. QED
    BY <2>1, <2>2, <2>3, <1>1 DEF Winrt!Consume, WinrtInv, WinrtTypeOK, WinrtFieldTypes
<1>3. /\ wcall = "read" /\ wcall' = "none" /\ wop.kind = "none" /\ reader.state = "ready"
      /\ reader'.state = "ready" /\ reader'.empty = reader.empty /\ reader'.want = reader.want
      /\ \E n \in Nat : /\ n <= reader.loaded /\ (n = 0 => reader.want = 0)
                       /\ reader'.loaded = reader.loaded - n
                       /\ wbody'.got = wbody.got + n /\ wbody'.loaded = wbody.loaded
                       /\ result' = <<IF result[1] = "failed" THEN "failed" ELSE "read", n>>
      /\ UNCHANGED <<conf, wop, remaining, timer, exceeded, now>>
  BY <1>1 DEF Winrt!Consume, WinrtInv, WinrtTypeOK, WinrtFieldTypes,
         WinrtOps, WinrtTimers, WinrtReaders, WinrtResults
<1>4. TimerIsKept'
  BY <1>1, <1>3 DEF WinrtInv, WinrtFieldTypes, TimerIsKept, LeftAt
<1>5. TimeoutsAreDue'
  BY <1>1, <1>3 DEF WinrtInv, WinrtFieldTypes, TimeoutsAreDue, TimerIsKept, LeftAt
<1>6. OpIsTheCalls'
  BY <1>1, <1>3 DEF WinrtInv, WinrtFieldTypes, OpIsTheCalls, TimerIsKept
<1>7. StreamIsCounted'
  BY <1>1, <1>3 DEF WinrtInv, WinrtFieldTypes, StreamIsCounted, Brought, OpIsTheCalls
<1>8. LargeIsLarge'
  BY <1>1, <1>3 DEF WinrtInv, WinrtFieldTypes, LargeIsLarge, OpIsTheCalls
<1>9. ResponseIsHonest'
  BY <1>1, <1>3
  DEF WinrtInv, WinrtFieldTypes, ResponseIsHonest, Winrt!ResponseIsHonest, OpIsTheCalls,
      StreamIsCounted, Brought, LargeIsLarge
<1>. QED
  BY <1>2, <1>4, <1>5, <1>6, <1>7, <1>8, <1>9 DEF WinrtInv

LEMMA WinrtOpened == ASSUME WinrtInv, Winrt!Opened PROVE WinrtInv'
<1>1. WinrtFieldTypes
  BY WinrtFields DEF WinrtInv
<1>2. WinrtTypeOK'
  <2>1. wop' \in WinrtOps
    BY <1>1 DEF Winrt!Opened, Winrt!NoOp, WinrtInv, WinrtTypeOK, WinrtFieldTypes, WinrtOps
  <2>2. reader' \in WinrtReaders
    BY <1>1
    DEF Winrt!Opened, Winrt!NoOp, WinrtInv, WinrtTypeOK, WinrtFieldTypes, WinrtReaders
  <2>. QED
    BY <2>1, <2>2, <1>1
    DEF Winrt!Opened, Winrt!NoOp, WinrtInv, WinrtTypeOK, WinrtFieldTypes
<1>3. /\ wcall = "read" /\ wop.kind = "open" /\ wop'.kind = "none" /\ wop'.state = "done"
      /\ reader'.state = "ready" /\ reader'.empty = reader.empty /\ reader'.want = reader.want
      /\ reader'.loaded = reader.loaded
      /\ UNCHANGED <<conf, wcall, remaining, timer, exceeded, wbody, result, now>>
  BY <1>1 DEF Winrt!Opened, Winrt!NoOp, WinrtInv, WinrtTypeOK, WinrtFieldTypes,
         WinrtOps, WinrtTimers, WinrtReaders, WinrtResults
<1>4. TimerIsKept'
  BY <1>1, <1>3 DEF WinrtInv, WinrtFieldTypes, TimerIsKept, LeftAt
<1>5. TimeoutsAreDue'
  BY <1>1, <1>3 DEF WinrtInv, WinrtFieldTypes, TimeoutsAreDue, TimerIsKept, LeftAt
<1>6. OpIsTheCalls'
  BY <1>1, <1>3 DEF WinrtInv, WinrtFieldTypes, OpIsTheCalls, TimerIsKept
<1>7. StreamIsCounted'
  BY <1>1, <1>3 DEF WinrtInv, WinrtFieldTypes, StreamIsCounted, Brought, OpIsTheCalls
<1>8. LargeIsLarge'
  BY <1>1, <1>3 DEF WinrtInv, WinrtFieldTypes, LargeIsLarge, OpIsTheCalls
<1>9. ResponseIsHonest'
  BY <1>1, <1>3
  DEF WinrtInv, WinrtFieldTypes, ResponseIsHonest, Winrt!ResponseIsHonest, OpIsTheCalls,
      StreamIsCounted, Brought, LargeIsLarge
<1>. QED
  BY <1>2, <1>4, <1>5, <1>6, <1>7, <1>8, <1>9 DEF WinrtInv

LEMMA WinrtLoadedNothing == ASSUME WinrtInv, Winrt!LoadedNothing PROVE WinrtInv'
<1>1. WinrtFieldTypes
  BY WinrtFields DEF WinrtInv
<1>2. WinrtTypeOK'
  <2>1. wop' \in WinrtOps
    BY <1>1
    DEF Winrt!LoadedNothing, Winrt!Returns, Winrt!NoOp, WinrtInv, WinrtTypeOK,
        WinrtFieldTypes, WinrtOps
  <2>2. reader' \in WinrtReaders
    BY <1>1
    DEF Winrt!LoadedNothing, Winrt!Returns, Winrt!NoOp, WinrtInv, WinrtTypeOK,
        WinrtFieldTypes, WinrtReaders
  <2>3. result' \in WinrtResults
    BY <1>1
    DEF Winrt!LoadedNothing, Winrt!Returns, Winrt!NoOp, WinrtInv, WinrtTypeOK,
        WinrtFieldTypes, WinrtResults
  <2>. QED
    BY <2>1, <2>2, <2>3, <1>1
    DEF Winrt!LoadedNothing, Winrt!Returns, Winrt!NoOp, WinrtInv, WinrtTypeOK,
        WinrtFieldTypes
<1>3. /\ wcall = "read" /\ wcall' = "none" /\ wop'.kind = "none"
      /\ wop.kind = "load" /\ wop.state = "done" /\ wop.got = 0
      /\ result'[1] \in {"failed", "read"} /\ (result[1] = "failed" => result'[1] = "failed")
      /\ reader.empty \/ wop.want = 0 => reader'.empty
      /\ reader'.loaded = 0
      /\ UNCHANGED <<conf, remaining, timer, exceeded, wbody, now>>
  BY <1>1
  DEF Winrt!LoadedNothing, Winrt!Returns, Winrt!NoOp, WinrtInv, WinrtTypeOK,
      WinrtFieldTypes,
         WinrtOps, WinrtTimers, WinrtReaders, WinrtResults
<1>4. TimerIsKept'
  BY <1>1, <1>3 DEF WinrtInv, WinrtFieldTypes, TimerIsKept, LeftAt
<1>5. TimeoutsAreDue'
  BY <1>1, <1>3 DEF WinrtInv, WinrtFieldTypes, TimeoutsAreDue, TimerIsKept, LeftAt
<1>6. OpIsTheCalls'
  BY <1>1, <1>3 DEF WinrtInv, WinrtFieldTypes, OpIsTheCalls, TimerIsKept
<1>7. StreamIsCounted'
  BY <1>1, <1>3 DEF WinrtInv, WinrtFieldTypes, StreamIsCounted, Brought, OpIsTheCalls
<1>8. LargeIsLarge'
  BY <1>1, <1>3 DEF WinrtInv, WinrtFieldTypes, LargeIsLarge, OpIsTheCalls
<1>9. ResponseIsHonest'
  BY <1>1, <1>3
  DEF WinrtInv, WinrtFieldTypes, ResponseIsHonest, Winrt!ResponseIsHonest, OpIsTheCalls,
      StreamIsCounted, Brought, LargeIsLarge
<1>. QED
  BY <1>2, <1>4, <1>5, <1>6, <1>7, <1>8, <1>9 DEF WinrtInv

LEMMA WinrtLoaded == ASSUME WinrtInv, Winrt!Loaded PROVE WinrtInv'
<1>1. WinrtFieldTypes
  BY WinrtFields DEF WinrtInv
<1>2. WinrtTypeOK'
  <2>1. wop' \in WinrtOps
    BY <1>1 DEF Winrt!Loaded, Winrt!NoOp, WinrtInv, WinrtTypeOK, WinrtFieldTypes, WinrtOps
  <2>2. reader' \in WinrtReaders
    BY <1>1
    DEF Winrt!Loaded, Winrt!NoOp, WinrtInv, WinrtTypeOK, WinrtFieldTypes, WinrtReaders
  <2>. QED
    BY <2>1, <2>2, <1>1
    DEF Winrt!Loaded, Winrt!NoOp, WinrtInv, WinrtTypeOK, WinrtFieldTypes
<1>3. /\ wcall = "read" /\ wop'.kind = "none" /\ wop'.state = "done"
      /\ wop.kind = "load" /\ wop.state = "done" /\ wop.got > 0
      /\ reader'.state = reader.state /\ reader'.empty = reader.empty /\ reader'.want = reader.want
      /\ reader'.loaded = wop.got
      /\ UNCHANGED <<conf, wcall, remaining, timer, exceeded, wbody, result, now>>
  BY <1>1 DEF Winrt!Loaded, Winrt!NoOp, WinrtInv, WinrtTypeOK, WinrtFieldTypes,
         WinrtOps, WinrtTimers, WinrtReaders, WinrtResults
<1>4. TimerIsKept'
  BY <1>1, <1>3 DEF WinrtInv, WinrtFieldTypes, TimerIsKept, LeftAt
<1>5. TimeoutsAreDue'
  BY <1>1, <1>3 DEF WinrtInv, WinrtFieldTypes, TimeoutsAreDue, TimerIsKept, LeftAt
<1>6. OpIsTheCalls'
  BY <1>1, <1>3 DEF WinrtInv, WinrtFieldTypes, OpIsTheCalls, TimerIsKept
<1>7. StreamIsCounted'
  BY <1>1, <1>3 DEF WinrtInv, WinrtFieldTypes, StreamIsCounted, Brought, OpIsTheCalls
<1>8. LargeIsLarge'
  BY <1>1, <1>3 DEF WinrtInv, WinrtFieldTypes, LargeIsLarge, OpIsTheCalls
<1>9. ResponseIsHonest'
  BY <1>1, <1>3
  DEF WinrtInv, WinrtFieldTypes, ResponseIsHonest, Winrt!ResponseIsHonest, OpIsTheCalls,
      StreamIsCounted, Brought, LargeIsLarge
<1>. QED
  BY <1>2, <1>4, <1>5, <1>6, <1>7, <1>8, <1>9 DEF WinrtInv

LEMMA WinrtReadFails == ASSUME WinrtInv, Winrt!ReadFails PROVE WinrtInv'
<1>1. WinrtFieldTypes
  BY WinrtFields DEF WinrtInv
<1>2. WinrtTypeOK'
  <2>1. wop' \in WinrtOps
    BY <1>1
    DEF Winrt!ReadFails, Winrt!NoOp, WinrtInv, WinrtTypeOK, WinrtFieldTypes, WinrtOps
  <2>2. reader' \in WinrtReaders
    BY <1>1
    DEF Winrt!ReadFails, Winrt!NoOp, WinrtInv, WinrtTypeOK, WinrtFieldTypes, WinrtReaders
  <2>3. result' \in WinrtResults
    BY <1>1
    DEF Winrt!ReadFails, Winrt!NoOp, WinrtInv, WinrtTypeOK, WinrtFieldTypes, WinrtResults
  <2>. QED
    BY <2>1, <2>2, <2>3, <1>1
    DEF Winrt!ReadFails, Winrt!NoOp, WinrtInv, WinrtTypeOK, WinrtFieldTypes
<1>3. /\ wcall = "read" /\ wcall' = "none" /\ wop.state = "error" /\ wop'.kind = "none"
      /\ result' = <<"failed", 0>>
      /\ reader'.empty = reader.empty /\ reader'.loaded = reader.loaded
      /\ UNCHANGED <<conf, remaining, timer, exceeded, wbody, now>>
  BY <1>1 DEF Winrt!ReadFails, Winrt!NoOp, WinrtInv, WinrtTypeOK, WinrtFieldTypes,
         WinrtOps, WinrtTimers, WinrtReaders, WinrtResults
<1>4. TimerIsKept'
  BY <1>1, <1>3 DEF WinrtInv, WinrtFieldTypes, TimerIsKept, LeftAt
<1>5. TimeoutsAreDue'
  BY <1>1, <1>3 DEF WinrtInv, WinrtFieldTypes, TimeoutsAreDue, TimerIsKept, LeftAt
<1>6. OpIsTheCalls'
  BY <1>1, <1>3 DEF WinrtInv, WinrtFieldTypes, OpIsTheCalls, TimerIsKept
<1>7. StreamIsCounted'
  BY <1>1, <1>3 DEF WinrtInv, WinrtFieldTypes, StreamIsCounted, Brought, OpIsTheCalls
<1>8. LargeIsLarge'
  BY <1>1, <1>3 DEF WinrtInv, WinrtFieldTypes, LargeIsLarge, OpIsTheCalls
<1>9. ResponseIsHonest'
  BY <1>1, <1>3
  DEF WinrtInv, WinrtFieldTypes, ResponseIsHonest, Winrt!ResponseIsHonest, OpIsTheCalls,
      StreamIsCounted, Brought, LargeIsLarge
<1>. QED
  BY <1>2, <1>4, <1>5, <1>6, <1>7, <1>8, <1>9 DEF WinrtInv

LEMMA WinrtPollAgain == ASSUME WinrtInv, NEW n \in 0..BufMax, Winrt!PollAgain(n) PROVE WinrtInv'
<1>1. WinrtFieldTypes
  BY WinrtFields DEF WinrtInv
<1>2. WinrtTypeOK'
  <2>1. reader' \in WinrtReaders
    BY <1>1 DEF Winrt!PollAgain, WinrtInv, WinrtTypeOK, WinrtFieldTypes, WinrtReaders
  <2>. QED
    BY <2>1, <1>1 DEF Winrt!PollAgain, WinrtInv, WinrtTypeOK, WinrtFieldTypes
<1>3. /\ wcall = "read" /\ reader'.state = reader.state /\ reader'.empty = reader.empty
      /\ reader'.loaded = reader.loaded
      /\ UNCHANGED <<conf, wcall, wop, remaining, timer, exceeded, wbody, result, now>>
  BY <1>1 DEF Winrt!PollAgain, WinrtInv, WinrtTypeOK, WinrtFieldTypes,
         WinrtOps, WinrtTimers, WinrtReaders, WinrtResults
<1>4. TimerIsKept'
  BY <1>1, <1>3 DEF WinrtInv, WinrtFieldTypes, TimerIsKept, LeftAt
<1>5. TimeoutsAreDue'
  BY <1>1, <1>3 DEF WinrtInv, WinrtFieldTypes, TimeoutsAreDue, TimerIsKept, LeftAt
<1>6. OpIsTheCalls'
  BY <1>1, <1>3 DEF WinrtInv, WinrtFieldTypes, OpIsTheCalls, TimerIsKept
<1>7. StreamIsCounted'
  BY <1>1, <1>3 DEF WinrtInv, WinrtFieldTypes, StreamIsCounted, Brought, OpIsTheCalls
<1>8. LargeIsLarge'
  BY <1>1, <1>3 DEF WinrtInv, WinrtFieldTypes, LargeIsLarge, OpIsTheCalls
<1>9. ResponseIsHonest'
  BY <1>1, <1>3
  DEF WinrtInv, WinrtFieldTypes, ResponseIsHonest, Winrt!ResponseIsHonest, OpIsTheCalls,
      StreamIsCounted, Brought, LargeIsLarge
<1>. QED
  BY <1>2, <1>4, <1>5, <1>6, <1>7, <1>8, <1>9 DEF WinrtInv

LEMMA WinrtRead == ASSUME WinrtInv, NEW n \in 0..BufMax, Winrt!Read(n) PROVE WinrtInv'
<1>1. WinrtFieldTypes
  BY WinrtFields DEF WinrtInv
<1>2. WinrtTypeOK'
  <2>1. reader' \in WinrtReaders
    BY <1>1
    DEF Winrt!Read, Winrt!Started, Winrt!NoOp, WinrtInv, WinrtTypeOK, WinrtFieldTypes,
        WinrtReaders
  <2>2. wop' \in WinrtOps
    BY <1>1
    DEF Winrt!Read, Winrt!Started, Winrt!NoOp, WinrtInv, WinrtTypeOK, WinrtFieldTypes,
        WinrtOps
  <2>. QED
    BY <2>1, <2>2, <1>1
    DEF Winrt!Read, Winrt!Started, Winrt!NoOp, WinrtInv, WinrtTypeOK, WinrtFieldTypes
<1>3. /\ wcall = "none" /\ wcall' = "read" /\ result[1] \in {"response", "read", "failed"}
      /\ wop'.kind \in {"none", "open"} /\ (wop'.kind = "none" => wop'.state = "done")
      /\ wop'.kind = "open" => reader.state = "none"
      /\ reader'.state = reader.state /\ reader'.empty = reader.empty
      /\ reader'.loaded = reader.loaded
      /\ UNCHANGED <<conf, remaining, timer, exceeded, wbody, result, now>>
  BY <1>1
  DEF Winrt!Read, Winrt!Started, Winrt!NoOp, WinrtInv, WinrtTypeOK, WinrtFieldTypes,
         WinrtOps, WinrtTimers, WinrtReaders, WinrtResults
<1>4. TimerIsKept'
  BY <1>1, <1>3 DEF WinrtInv, WinrtFieldTypes, TimerIsKept, LeftAt
<1>5. TimeoutsAreDue'
  BY <1>1, <1>3 DEF WinrtInv, WinrtFieldTypes, TimeoutsAreDue, TimerIsKept, LeftAt
<1>6. OpIsTheCalls'
  BY <1>1, <1>3 DEF WinrtInv, WinrtFieldTypes, OpIsTheCalls, TimerIsKept
<1>7. StreamIsCounted'
  BY <1>1, <1>3 DEF WinrtInv, WinrtFieldTypes, StreamIsCounted, Brought, OpIsTheCalls
<1>8. LargeIsLarge'
  BY <1>1, <1>3 DEF WinrtInv, WinrtFieldTypes, LargeIsLarge, OpIsTheCalls
<1>9. ResponseIsHonest'
  BY <1>1, <1>3
  DEF WinrtInv, WinrtFieldTypes, ResponseIsHonest, Winrt!ResponseIsHonest, OpIsTheCalls,
      StreamIsCounted, Brought, LargeIsLarge
<1>. QED
  BY <1>2, <1>4, <1>5, <1>6, <1>7, <1>8, <1>9 DEF WinrtInv

LEMMA WinrtSend == ASSUME WinrtInv, Winrt!Send PROVE WinrtInv'
<1>1. WinrtFieldTypes
  BY WinrtFields DEF WinrtInv
<1>2. WinrtTypeOK'
  <2>1. wop' \in WinrtOps
    BY <1>1
    DEF Winrt!Send, Winrt!TimeoutBy, Winrt!Started, WinrtInv, WinrtTypeOK,
        WinrtFieldTypes, WinrtOps
  <2>2. timer' \in WinrtTimers
    <3>1. [state |-> "set", at |-> now, cancelled |-> FALSE] \in WinrtTimers
      BY <1>1 DEF WinrtFieldTypes, WinrtTimers
    <3>2. timer' \in {timer, [state |-> "set", at |-> now, cancelled |-> FALSE]}
      BY DEF Winrt!Send, Winrt!TimeoutBy
    <3>. QED
      BY <3>1, <3>2 DEF WinrtInv, WinrtTypeOK
  <2>3. result' \in WinrtResults
    BY <1>1
    DEF Winrt!Send, Winrt!TimeoutBy, Winrt!Started, WinrtInv, WinrtTypeOK,
        WinrtFieldTypes, WinrtResults
  <2>. QED
    BY <2>1, <2>2, <2>3, <1>1
    DEF Winrt!Send, Winrt!TimeoutBy, Winrt!Started, WinrtInv, WinrtTypeOK, WinrtFieldTypes
<1>3. /\ wcall = "none" /\ result[1] = "none"
      /\ \/ /\ remaining = 0 /\ result' = <<"timeout", 0>> /\ wcall' = "over"
            /\ UNCHANGED <<wop, timer>>
         \/ /\ remaining # 0 /\ wop'.kind = "send" /\ wop'.state = "started" /\ wop'.got = 0
            /\ wcall' = "send" /\ result' = result
            /\ remaining = NoTimeout => timer' = timer
            /\ remaining # NoTimeout =>
                 timer'.state = "set" /\ timer'.at = now /\ timer'.cancelled = FALSE
      /\ UNCHANGED <<conf, remaining, exceeded, reader, wbody, now>>
  BY <1>1
  DEF Winrt!Send, Winrt!TimeoutBy, Winrt!Started, WinrtInv, WinrtTypeOK, WinrtFieldTypes,
         WinrtOps, WinrtTimers, WinrtReaders, WinrtResults
<1>4. TimerIsKept'
  BY <1>1, <1>3 DEF WinrtInv, WinrtFieldTypes, TimerIsKept, LeftAt
<1>5. TimeoutsAreDue'
  BY <1>1, <1>3 DEF WinrtInv, WinrtFieldTypes, TimeoutsAreDue, TimerIsKept, LeftAt
<1>6. OpIsTheCalls'
  BY <1>1, <1>3 DEF WinrtInv, WinrtFieldTypes, OpIsTheCalls, TimerIsKept
<1>7. StreamIsCounted'
  BY <1>1, <1>3 DEF WinrtInv, WinrtFieldTypes, StreamIsCounted, Brought, OpIsTheCalls
<1>8. LargeIsLarge'
  BY <1>1, <1>3 DEF WinrtInv, WinrtFieldTypes, LargeIsLarge, OpIsTheCalls
<1>9. ResponseIsHonest'
  BY <1>1, <1>3
  DEF WinrtInv, WinrtFieldTypes, ResponseIsHonest, Winrt!ResponseIsHonest, OpIsTheCalls,
      StreamIsCounted, Brought, LargeIsLarge
<1>. QED
  BY <1>2, <1>4, <1>5, <1>6, <1>7, <1>8, <1>9 DEF WinrtInv

LEMMA WinrtBytes == ASSUME WinrtInv, Winrt!Bytes PROVE WinrtInv'
<1>1. WinrtFieldTypes
  BY WinrtFields DEF WinrtInv
<1>2. WinrtTypeOK'
  <2>1. wop' \in WinrtOps
    BY <1>1
    DEF Winrt!Bytes, Winrt!TimeoutBy, Winrt!Started, WinrtInv, WinrtTypeOK,
        WinrtFieldTypes, WinrtOps
  <2>2. timer' \in WinrtTimers
    <3>1. [state |-> "set", at |-> now, cancelled |-> FALSE] \in WinrtTimers
      BY <1>1 DEF WinrtFieldTypes, WinrtTimers
    <3>2. timer' \in {timer, [state |-> "set", at |-> now, cancelled |-> FALSE]}
      BY DEF Winrt!Bytes, Winrt!TimeoutBy
    <3>. QED
      BY <3>1, <3>2 DEF WinrtInv, WinrtTypeOK
  <2>3. result' \in WinrtResults
    BY <1>1
    DEF Winrt!Bytes, Winrt!TimeoutBy, Winrt!Started, WinrtInv, WinrtTypeOK,
        WinrtFieldTypes, WinrtResults
  <2>. QED
    BY <2>1, <2>2, <2>3, <1>1
    DEF Winrt!Bytes, Winrt!TimeoutBy, Winrt!Started, WinrtInv, WinrtTypeOK,
        WinrtFieldTypes
<1>3. /\ wcall = "none" /\ result[1] = "response" /\ reader.state = "none"
      /\ \/ /\ \/ remaining = 0 /\ result' = <<"timeout", 0>>
               \/ ~conf.content /\ result' = <<"error", 0>>
               \/ /\ conf.limit # NoLimit /\ WinrtLen > conf.limit
                  /\ result' = <<"large", 0>>
            /\ wcall' = "over" /\ UNCHANGED <<wop, timer>>
         \/ /\ remaining # 0 /\ wop'.kind = "bytes" /\ wop'.state = "started" /\ wop'.got = 0
            /\ wcall' = "bytes" /\ result' = result
            /\ remaining = NoTimeout => timer' = timer
            /\ remaining # NoTimeout =>
                 timer'.state = "set" /\ timer'.at = now /\ timer'.cancelled = FALSE
      /\ UNCHANGED <<conf, remaining, exceeded, reader, wbody, now>>
  BY <1>1
  DEF Winrt!Bytes, Winrt!TimeoutBy, Winrt!Started, WinrtInv, WinrtTypeOK, WinrtFieldTypes,
         WinrtOps, WinrtTimers, WinrtReaders, WinrtResults
<1>4. TimerIsKept'
  BY <1>1, <1>3 DEF WinrtInv, WinrtFieldTypes, TimerIsKept, LeftAt
<1>5. TimeoutsAreDue'
  BY <1>1, <1>3 DEF WinrtInv, WinrtFieldTypes, TimeoutsAreDue, TimerIsKept, LeftAt
<1>6. OpIsTheCalls'
  BY <1>1, <1>3 DEF WinrtInv, WinrtFieldTypes, OpIsTheCalls, TimerIsKept
<1>7. StreamIsCounted'
  BY <1>1, <1>3 DEF WinrtInv, WinrtFieldTypes, StreamIsCounted, Brought, OpIsTheCalls
<1>8. LargeIsLarge'
  BY <1>1, <1>3 DEF WinrtInv, WinrtFieldTypes, LargeIsLarge, OpIsTheCalls
<1>9. ResponseIsHonest'
  BY <1>1, <1>3
  DEF WinrtInv, WinrtFieldTypes, ResponseIsHonest, Winrt!ResponseIsHonest, OpIsTheCalls,
      StreamIsCounted, Brought, LargeIsLarge
<1>. QED
  BY <1>2, <1>4, <1>5, <1>6, <1>7, <1>8, <1>9 DEF WinrtInv

LEMMA WinrtNext == WinrtInv /\ [Winrt!Next]_(Winrt!vars) => WinrtInv'
<1>. SUFFICES ASSUME WinrtInv, [Winrt!Next]_(Winrt!vars) PROVE WinrtInv'
  OBVIOUS
<1>1. CASE UNCHANGED Winrt!vars
  BY <1>1 DEF Winrt!vars, WinrtInv, WinrtTypeOK, TimerIsKept, LeftAt, TimeoutsAreDue,
              OpIsTheCalls, StreamIsCounted, Brought, LargeIsLarge, ResponseIsHonest,
              Winrt!ResponseIsHonest
<1>2. CASE Winrt!Tick \/ Winrt!Windows
  BY <1>2, WinrtTick, WinrtTimerFires, WinrtTimerCancels, WinrtBodyArrives, WinrtOpEnds
  DEF Winrt!Windows
<1>3. CASE Winrt!Send \/ Winrt!Sent \/ Winrt!Bytes \/ Winrt!BytesEnd
  BY <1>3, WinrtSend, WinrtSent, WinrtBytes, WinrtBytesEnd
<1>4. CASE Winrt!ReadStep
  BY <1>4, WinrtReadNothing, WinrtLoad, WinrtConsume, WinrtOpened, WinrtLoadedNothing,
     WinrtLoaded, WinrtReadFails
  DEF Winrt!ReadStep
<1>5. CASE \E n \in 0..BufMax : Winrt!Read(n) \/ Winrt!PollAgain(n)
  BY <1>5, WinrtRead, WinrtPollAgain
<1>. QED
  BY <1>1, <1>2, <1>3, <1>4, <1>5 DEF Winrt!Next

\* The operations of a request share its timeout, a time-out is reported when it is
\* used up and not before, and not as another error.
THEOREM WinrtKeepsTheTimeout == ExchangesSpec => []TimeoutIsTheBudget
<1>1. ExchangesInit => WinrtInv
  BY WinrtInit DEF ExchangesInit
<1>2. WinrtInv /\ [ExchangesNext]_ExchangesVars => WinrtInv'
  BY WinrtNext, ExchangesStep
<1>3. WinrtInv => TimeoutIsTheBudget
  BY DEF WinrtInv, TimerIsKept, TimeoutsAreDue, LeftAt, TimeoutIsTheBudget,
         Winrt!TimeoutIsTheBudget
<1>. QED
  BY <1>1, <1>2, <1>3, PTL DEF ExchangesSpec

\* A caller gets the whole body within the limit, is told that it is too large only
\* when it is, and finds the end of a stream only where it ends.
THEOREM WinrtIsHonest == ExchangesSpec => []ResponseIsHonest
<1>1. ExchangesInit => WinrtInv
  BY WinrtInit DEF ExchangesInit
<1>2. WinrtInv /\ [ExchangesNext]_ExchangesVars => WinrtInv'
  BY WinrtNext, ExchangesStep
<1>3. WinrtInv => ResponseIsHonest
  BY DEF WinrtInv
<1>. QED
  BY <1>1, <1>2, <1>3, PTL DEF ExchangesSpec

-----------------------------------------------------------------------------
(* reqwest's responses.                                                    *)

\* The bytes of the first frames of a body, for any number of frames.
Sums(sizes) ==
  LET sum[i \in 0..Len(sizes)] == IF i = 0 THEN 0 ELSE sum[i - 1] + sizes[i]
  IN sum

Arrivals == [end: BOOLEAN, size: Nat]

Outcomes == {"none", "open", "bytes", "read", "too large", "failed", "dropped"}
Faults == {"none", "closed", "told", "timeout"}

ReqwestTypeOK ==
  /\ rresponse \in [Threads -> Outcomes]
  /\ rpc \in [Threads -> {"none", "request", "bytes", "read"}]
  /\ rcontent \in [Threads -> Seq(Nat)] /\ frames \in [Threads -> Seq(Nat)]
  /\ arrived \in [Threads -> Seq(Arrivals)]
  /\ rbuffer \in [Threads -> Nat] /\ collected \in [Threads -> Nat]
  /\ rgot \in [Threads -> Nat] /\ fault \in [Threads -> Faults]

\* Frames the connection task has passed on, and the bytes of one not taken.
Passed(t) == Len(rcontent[t]) - Len(frames[t])
Waits(t) == IF arrived[t] = <<>> THEN 0 ELSE arrived[t][1].size

\* The task has the rest of the body; what arrived is the frame before it, or the end,
\* which a lost connection comes to early, once its error was told.
FramesAreTheRest(t) ==
  /\ Len(frames[t]) <= Len(rcontent[t])
  /\ \A i \in 1..Len(frames[t]) : frames[t][i] = rcontent[t][Passed(t) + i]
  /\ arrived[t] # <<>> =>
       IF arrived[t][1].end
         THEN arrived[t][1].size = 0 /\ (frames[t] = <<>> \/ fault[t] = "told")
         ELSE Passed(t) >= 1 /\ arrived[t][1].size = rcontent[t][Passed(t)]

\* Every byte passed on is with the caller, or in one of three places.
FramesAreCounted(t) ==
  rgot[t] + rbuffer[t] + collected[t] + Waits(t) = Sums(rcontent[t])[Passed(t)]

\* bytes() is for a response nothing was read of, and collects; read does not.
CollectedByBytes(t) ==
  /\ rpc[t] = "bytes" => rgot[t] = 0 /\ rbuffer[t] = 0
  /\ rpc[t] # "bytes" => collected[t] = 0
  /\ rpc[t] = "none" /\ rgot[t] = 0 => rbuffer[t] = 0
  /\ collected[t] <= ReqwestLimit

ReqwestInv ==
  /\ ReqwestTypeOK
  /\ \A t \in Threads :
       /\ rresponse[t] = "open" =>
            FramesAreTheRest(t) /\ FramesAreCounted(t) /\ CollectedByBytes(t)
       /\ rpc[t] \in {"bytes", "read"} => rresponse[t] = "open"
       /\ rpc[t] = "request" => rresponse[t] = "none"
  /\ BodyIsRead

\* Sums(sizes) up to a number of frames.
SumsTo(sizes, k, f) ==
  f = [i \in 0..k |-> IF i = 0 THEN 0 ELSE f[i - 1] + sizes[i]]

LEMMA SumsExist ==
  ASSUME NEW sizes \in Seq(Nat), NEW n \in 0..Len(sizes)
  PROVE  \E f : SumsTo(sizes, n, f)
<1>. DEFINE Bad == {k \in 0..Len(sizes) : ~\E f : SumsTo(sizes, k, f)}
<1>1. SUFFICES ASSUME Bad # {} PROVE FALSE
  OBVIOUS
<1>2. PICK m \in Bad : \A k \in Bad : m <= k
  <2>1. Bad \subseteq Nat
    OBVIOUS
  <2>. QED
    BY <1>1, <2>1, LeastExists
<1>3. m \in 0..Len(sizes) /\ m \in Nat /\ ~\E f : SumsTo(sizes, m, f)
  BY <1>2
<1>4. CASE m = 0
  <2>1. SumsTo(sizes, m, [i \in 0..m |-> 0])
    BY <1>4 DEF SumsTo
  <2>. QED
    BY <1>3, <2>1
<1>5. CASE m # 0
  <2>1. m - 1 \in 0..Len(sizes) /\ m - 1 \notin Bad
    BY <1>2, <1>3, <1>5
  <2>2. PICK g : SumsTo(sizes, m - 1, g)
    BY <2>1
  <2>. DEFINE h == [i \in 0..m |-> IF i = m THEN g[m - 1] + sizes[m] ELSE g[i]]
  <2>3. \A i \in 0..(m - 1) : g[i] = IF i = 0 THEN 0 ELSE g[i - 1] + sizes[i]
    BY <1>3, <1>5, <2>2 DEF SumsTo
  <2>4. \A i \in 0..m : h[i] = IF i = 0 THEN 0 ELSE h[i - 1] + sizes[i]
    BY <1>3, <1>5, <2>3
  <2>5. SumsTo(sizes, m, h)
    BY <2>4 DEF SumsTo
  <2>. QED
    BY <1>3, <2>5
<1>. QED
  BY <1>4, <1>5

LEMMA SumsUnfold ==
  ASSUME NEW sizes \in Seq(Nat)
  PROVE  /\ Sums(sizes)[0] = 0
         /\ \A i \in 1..Len(sizes) : Sums(sizes)[i] = Sums(sizes)[i - 1] + sizes[i]
<1>1. Len(sizes) \in Nat /\ Len(sizes) \in 0..Len(sizes)
  OBVIOUS
<1>2. Sums(sizes) = CHOOSE f : SumsTo(sizes, Len(sizes), f)
  BY Zenon DEF Sums, SumsTo
<1>3. SumsTo(sizes, Len(sizes), Sums(sizes))
  BY <1>1, <1>2, SumsExist, Zenon
<1>. QED
  BY <1>1, <1>3 DEF SumsTo

\* Sums are numbers, and more frames are no less.
LEMMA SumsType ==
  ASSUME NEW sizes \in Seq(Nat), NEW n \in 0..Len(sizes)
  PROVE  Sums(sizes)[n] \in Nat
<1>. DEFINE Bad == {k \in 0..Len(sizes) : Sums(sizes)[k] \notin Nat}
<1>1. SUFFICES ASSUME Bad # {} PROVE FALSE
  OBVIOUS
<1>2. PICK m \in Bad : \A k \in Bad : m <= k
  <2>1. Bad \subseteq Nat
    OBVIOUS
  <2>. QED
    BY <1>1, <2>1, LeastExists
<1>3. m # 0
  BY <1>2, SumsUnfold
<1>4. m - 1 \in 0..Len(sizes) /\ m - 1 \notin Bad /\ m \in 1..Len(sizes)
  BY <1>2, <1>3
<1>5. Sums(sizes)[m - 1] \in Nat /\ sizes[m] \in Nat
  BY <1>4
<1>. QED
  BY <1>2, <1>4, <1>5, SumsUnfold

LEMMA SumsGrow ==
  ASSUME NEW sizes \in Seq(Nat), NEW n \in 0..Len(sizes)
  PROVE  Sums(sizes)[n] <= Sums(sizes)[Len(sizes)]
<1>. DEFINE all == Len(sizes)
            Bad == {d \in 0..all : ~ Sums(sizes)[all - d] <= Sums(sizes)[all]}
<1>0. all \in Nat
  OBVIOUS
<1>1. SUFFICES ASSUME Bad # {} PROVE FALSE
  <2>1. all - n \in 0..all /\ all - (all - n) = n
    BY <1>0
  <2>. QED
    BY <2>1
<1>2. PICK m \in Bad : \A k \in Bad : m <= k
  <2>1. Bad \subseteq Nat
    OBVIOUS
  <2>. QED
    BY <1>1, <2>1, LeastExists
<1>3. m # 0
  <2>1. all - 0 = all /\ Sums(sizes)[all] \in Nat
    BY <1>0, SumsType
  <2>. QED
    BY <1>2, <2>1
<1>4. m - 1 \in 0..all /\ m - 1 \notin Bad /\ all - m + 1 \in 1..all /\ all - m \in 0..all
  <2>1. m \in 0..all
    BY <1>2
  <2>2. m - 1 \in 0..all /\ all - m + 1 \in 1..all /\ all - m \in 0..all /\ ~ m <= m - 1
    <3>. HIDE DEF all
    <3>. QED
      BY <1>0, <1>3, <2>1
  <2>. QED
    BY <1>2, <2>2
<1>5. Sums(sizes)[all - (m - 1)] <= Sums(sizes)[all] /\ all - (m - 1) = all - m + 1
  BY <1>0, <1>4
<1>6. Sums(sizes)[all - m + 1] = Sums(sizes)[all - m] + sizes[all - m + 1]
  <2>1. (all - m + 1) - 1 = all - m
    BY <1>0, <1>4
  <2>. QED
    BY <1>4, <2>1, SumsUnfold
<1>7. /\ Sums(sizes)[all] \in Nat /\ Sums(sizes)[all - m] \in Nat
      /\ sizes[all - m + 1] \in Nat
  BY <1>4, SumsType
<1>8. Sums(sizes)[all - m] <= Sums(sizes)[all]
  <2>. HIDE DEF all
  <2>. QED
    BY <1>5, <1>6, <1>7
<1>. QED
  BY <1>2, <1>8

LEMMA TotalIsTheSum == ASSUME NEW sizes PROVE Reqwest!Total(sizes) = Sums(sizes)[Len(sizes)]
  BY Zenon DEF Reqwest!Total, Sums

LEMMA ReqwestInit == Reqwest!Init => ReqwestInv
<1>. SUFFICES ASSUME Reqwest!Init PROVE ReqwestInv
  OBVIOUS
<1>1. ReqwestTypeOK
  BY DEF Reqwest!Init, ReqwestTypeOK, Outcomes, Faults
<1>2. BodyIsRead
  BY DEF Reqwest!Init, BodyIsRead, Reqwest!BodyIsRead
<1>. QED
  BY <1>1, <1>2 DEF Reqwest!Init, ReqwestInv

\* A body that is not being read is not disturbed.
LEMMA BodyIsReadOf ==
  BodyIsRead <=>
    \A t \in Threads :
      /\ /\ rresponse[t] \in {"read", "bytes"}
         /\ \A i \in 1..Len(rcontent[t]) : rcontent[t][i] > 0
         /\ fault[t] # "told"
         => rgot[t] = Sums(rcontent[t])[Len(rcontent[t])]
      /\ rresponse[t] = "bytes" => rgot[t] <= ReqwestLimit
      /\ rresponse[t] = "too large" =>
           Sums(rcontent[t])[Len(rcontent[t])] > ReqwestLimit
  BY TotalIsTheSum DEF BodyIsRead, Reqwest!BodyIsRead

\* The invariant of one thread.
ThreadInv(t) ==
  /\ rresponse[t] = "open" => FramesAreTheRest(t) /\ FramesAreCounted(t) /\ CollectedByBytes(t)
  /\ rpc[t] \in {"bytes", "read"} => rresponse[t] = "open"
  /\ rpc[t] = "request" => rresponse[t] = "none"
  /\ /\ rresponse[t] \in {"read", "bytes"}
     /\ \A i \in 1..Len(rcontent[t]) : rcontent[t][i] > 0
     /\ fault[t] # "told"
     => rgot[t] = Sums(rcontent[t])[Len(rcontent[t])]
  /\ rresponse[t] = "bytes" => rgot[t] <= ReqwestLimit
  /\ rresponse[t] = "too large" => Sums(rcontent[t])[Len(rcontent[t])] > ReqwestLimit

LEMMA ReqwestThreads == ReqwestInv <=> ReqwestTypeOK /\ \A t \in Threads : ThreadInv(t)
  BY BodyIsReadOf DEF ReqwestInv, ThreadInv

LEMMA SameThread ==
  ASSUME NEW u \in Threads, ThreadInv(u),
         /\ rresponse'[u] = rresponse[u] /\ rpc'[u] = rpc[u] /\ rcontent'[u] = rcontent[u]
         /\ frames'[u] = frames[u] /\ arrived'[u] = arrived[u] /\ rbuffer'[u] = rbuffer[u]
         /\ collected'[u] = collected[u] /\ rgot'[u] = rgot[u] /\ fault'[u] = fault[u]
  PROVE  ThreadInv(u)'
  BY DEF ThreadInv, FramesAreTheRest, FramesAreCounted, CollectedByBytes, Passed, Waits

\* A step of one thread leaves the others alone.
LEMMA OtherThreads ==
  ASSUME NEW t \in Threads, NEW u \in Threads, u # t, ThreadInv(u),
         Reqwest!Request(t) \/ Reqwest!Start(t) \/ Reqwest!Drop(t) \/ Reqwest!Step(t)
           \/ Reqwest!RequestFails(t) \/ Reqwest!Lose(t) \/ Reqwest!TimeOut(t),
         ReqwestTypeOK
  PROVE  ThreadInv(u)'
<1>0. \/ Reqwest!Request(t) \/ Reqwest!Start(t) \/ Reqwest!Drop(t) \/ Reqwest!Step(t)
      \/ Reqwest!RequestFails(t) \/ Reqwest!Lose(t) \/ Reqwest!TimeOut(t)
  OBVIOUS
<1>1. /\ rresponse'[u] = rresponse[u] /\ rpc'[u] = rpc[u] /\ rcontent'[u] = rcontent[u]
      /\ frames'[u] = frames[u] /\ arrived'[u] = arrived[u] /\ rbuffer'[u] = rbuffer[u]
      /\ collected'[u] = collected[u] /\ rgot'[u] = rgot[u] /\ fault'[u] = fault[u]
  <2>. USE DEF ReqwestTypeOK, Reqwest!bodyVars, Reqwest!callVars, Reqwest!Return,
               Reqwest!Close, Reqwest!Took, Reqwest!Call
  <2>1. CASE Reqwest!Request(t)
    BY <2>1 DEF Reqwest!Request
  <2>2. CASE Reqwest!Start(t)
    BY <2>2 DEF Reqwest!Start
  <2>3. CASE Reqwest!Respond(t)
    BY <2>3 DEF Reqwest!Respond
  <2>4. CASE Reqwest!Deliver(t)
    BY <2>4 DEF Reqwest!Deliver
  <2>5. CASE Reqwest!Collect(t)
    BY <2>5 DEF Reqwest!Collect
  <2>6. CASE Reqwest!ReceiveFrame(t)
    BY <2>6 DEF Reqwest!ReceiveFrame
  <2>7. CASE \E max \in 1..BufLen : Reqwest!WriteTo(t, max)
    BY <2>7 DEF Reqwest!WriteTo
  <2>8. CASE Reqwest!Drop(t)
    BY <2>8 DEF Reqwest!Drop
  <2>9. CASE Reqwest!RequestFails(t)
    BY <2>9 DEF Reqwest!RequestFails
  <2>10. CASE Reqwest!Lose(t)
    BY <2>10 DEF Reqwest!Lose
  <2>11. CASE Reqwest!TimeOut(t)
    BY <2>11 DEF Reqwest!TimeOut
  <2>12. CASE Reqwest!ReceiveError(t)
    <3>1. CASE fault[t] = "timeout"
      BY <2>12, <3>1 DEF Reqwest!ReceiveError, Reqwest!FrameFails
    <3>2. CASE fault[t] # "timeout"
      BY <2>12, <3>2 DEF Reqwest!ReceiveError, Reqwest!FrameFails
    <3>. QED
      BY <3>1, <3>2
  <2>. QED
    BY <1>0, <2>1, <2>2, <2>3, <2>4, <2>5, <2>6, <2>7, <2>8, <2>9, <2>10, <2>11, <2>12
    DEF Reqwest!Step
<1>. QED
  BY <1>1, SameThread

LEMMA ThreadTypes ==
  ASSUME ReqwestTypeOK, NEW t \in Threads
  PROVE  /\ rcontent[t] \in Seq(Nat) /\ Len(rcontent[t]) \in Nat
         /\ frames[t] \in Seq(Nat) /\ Len(frames[t]) \in Nat
         /\ arrived[t] \in Seq(Arrivals)
         /\ rgot[t] \in Nat /\ rbuffer[t] \in Nat /\ collected[t] \in Nat
<1>1. /\ rcontent[t] \in Seq(Nat) /\ frames[t] \in Seq(Nat) /\ arrived[t] \in Seq(Arrivals)
      /\ rgot[t] \in Nat /\ rbuffer[t] \in Nat /\ collected[t] \in Nat
  BY DEF ReqwestTypeOK
<1>. QED
  BY <1>1

LEMMA RequestThread ==
  ASSUME ReqwestTypeOK, NEW t \in Threads, ThreadInv(t), Reqwest!Request(t)
  PROVE  ReqwestTypeOK' /\ ThreadInv(t)'
<1>1. /\ rresponse' = [rresponse EXCEPT ![t] = "none"]
      /\ rpc' = [rpc EXCEPT ![t] = "request"]
      /\ UNCHANGED <<rcontent, frames, arrived, rbuffer, collected, rgot, fault>>
  BY DEF Reqwest!Request, Reqwest!Call, Reqwest!bodyVars
<1>2. ReqwestTypeOK'
  BY <1>1 DEF ReqwestTypeOK, Outcomes
<1>3. rresponse'[t] = "none" /\ rpc'[t] = "request"
  BY <1>1 DEF ReqwestTypeOK
<1>. QED
  BY <1>2, <1>3 DEF ThreadInv

LEMMA StartThread ==
  ASSUME ReqwestTypeOK, NEW t \in Threads, ThreadInv(t), Reqwest!Start(t)
  PROVE  ReqwestTypeOK' /\ ThreadInv(t)'
<1>1. /\ rpc[t] = "none" /\ rresponse[t] = "open"
      /\ \/ rpc' = [rpc EXCEPT ![t] = "bytes"] /\ rgot[t] = 0
         \/ rpc' = [rpc EXCEPT ![t] = "read"]
      /\ UNCHANGED <<rresponse, rcontent, frames, arrived, rbuffer, collected, rgot, fault>>
  BY DEF Reqwest!Start, Reqwest!Call, Reqwest!bodyVars
<1>2. ReqwestTypeOK'
  BY <1>1 DEF ReqwestTypeOK
<1>3. rpc'[t] = "read" \/ (rpc'[t] = "bytes" /\ rgot[t] = 0)
  BY <1>1 DEF ReqwestTypeOK
<1>. QED
  BY <1>1, <1>2, <1>3
  DEF ThreadInv, FramesAreTheRest, FramesAreCounted, CollectedByBytes, Passed, Waits

LEMMA RespondThread ==
  ASSUME ReqwestTypeOK, NEW t \in Threads, ThreadInv(t), Reqwest!Respond(t)
  PROVE  ReqwestTypeOK' /\ ThreadInv(t)'
<1>1. PICK sizes \in ReqwestBodies :
        /\ rcontent' = [rcontent EXCEPT ![t] = sizes]
        /\ frames' = [frames EXCEPT ![t] = sizes]
  BY DEF Reqwest!Respond
<1>2. sizes \in Seq(Nat) /\ ReqwestLimit \in Nat
  BY ExchangesAssumption
<1>3. /\ arrived' = [arrived EXCEPT ![t] = <<>>] /\ rbuffer' = [rbuffer EXCEPT ![t] = 0]
      /\ collected' = [collected EXCEPT ![t] = 0] /\ rgot' = [rgot EXCEPT ![t] = 0]
      /\ rresponse' = [rresponse EXCEPT ![t] = "open"] /\ rpc' = [rpc EXCEPT ![t] = "none"]
      /\ fault' = [fault EXCEPT ![t] = "none"]
  BY DEF Reqwest!Respond, Reqwest!Return
<1>4. ReqwestTypeOK'
  <2>1. /\ rcontent' \in [Threads -> Seq(Nat)] /\ frames' \in [Threads -> Seq(Nat)]
    BY <1>1, <1>2 DEF ReqwestTypeOK
  <2>2. arrived' \in [Threads -> Seq(Arrivals)]
    <3>1. <<>> \in Seq(Arrivals)
      BY EmptySeq
    <3>2. arrived \in [Threads -> Seq(Arrivals)]
      BY DEF ReqwestTypeOK
    <3>. QED
      BY <1>3, <3>1, <3>2
  <2>3. /\ rbuffer' \in [Threads -> Nat] /\ collected' \in [Threads -> Nat]
        /\ rgot' \in [Threads -> Nat]
    BY <1>3 DEF ReqwestTypeOK
  <2>4. /\ rresponse' \in [Threads -> Outcomes] /\ fault' \in [Threads -> Faults]
        /\ rpc' \in [Threads -> {"none", "request", "bytes", "read"}]
    BY <1>3 DEF ReqwestTypeOK, Outcomes, Faults
  <2>. QED
    BY <2>1, <2>2, <2>3, <2>4 DEF ReqwestTypeOK
<1>5. /\ rcontent'[t] = sizes /\ frames'[t] = sizes /\ arrived'[t] = <<>>
      /\ rbuffer'[t] = 0 /\ collected'[t] = 0 /\ rgot'[t] = 0
      /\ rresponse'[t] = "open" /\ rpc'[t] = "none"
  BY <1>1, <1>3 DEF ReqwestTypeOK
<1>6. Passed(t)' = 0 /\ Len(sizes) \in Nat
  BY <1>2, <1>5 DEF Passed
<1>7. FramesAreTheRest(t)'
  BY <1>2, <1>5, <1>6 DEF FramesAreTheRest
<1>8. FramesAreCounted(t)'
  BY <1>2, <1>5, <1>6, SumsUnfold DEF FramesAreCounted, Waits
<1>9. CollectedByBytes(t)'
  BY <1>2, <1>5 DEF CollectedByBytes
<1>. QED
  BY <1>4, <1>5, <1>7, <1>8, <1>9 DEF ThreadInv

LEMMA DeliverThread ==
  ASSUME ReqwestTypeOK, NEW t \in Threads, ThreadInv(t), Reqwest!Deliver(t)
  PROVE  ReqwestTypeOK' /\ ThreadInv(t)'
<1>1. /\ rresponse[t] = "open" /\ arrived[t] = <<>>
      /\ UNCHANGED <<rresponse, rpc, rcontent, rbuffer, collected, rgot, fault>>
  BY DEF Reqwest!Deliver, Reqwest!callVars
<1>2. /\ rcontent[t] \in Seq(Nat) /\ frames[t] \in Seq(Nat) /\ Len(frames[t]) \in Nat
      /\ Len(rcontent[t]) \in Nat /\ FramesAreTheRest(t) /\ FramesAreCounted(t)
      /\ rgot[t] \in Nat /\ rbuffer[t] \in Nat /\ collected[t] \in Nat
  BY <1>1, ThreadTypes DEF ThreadInv
<1>3. Waits(t) = 0
  BY <1>1 DEF Waits
<1>4. CASE frames[t] = <<>>
  <2>1. arrived' = [arrived EXCEPT ![t] = <<[end |-> TRUE, size |-> 0]>>] /\ frames' = frames
    BY <1>4 DEF Reqwest!Deliver, Reqwest!End
  <2>2. ReqwestTypeOK'
    <3>1. <<[end |-> TRUE, size |-> 0]>> \in Seq(Arrivals)
      BY DEF Arrivals
    <3>. QED
      BY <1>1, <2>1, <3>1 DEF ReqwestTypeOK
  <2>3. /\ arrived'[t] # <<>> /\ arrived'[t][1].end = TRUE /\ arrived'[t][1].size = 0
    BY <2>1 DEF ReqwestTypeOK
  <2>4. Waits(t)' = 0 /\ Passed(t)' = Passed(t)
    BY <1>1, <2>1, <2>3 DEF Waits, Passed
  <2>5. FramesAreTheRest(t)'
    BY <1>1, <1>2, <1>4, <2>1, <2>3, <2>4 DEF FramesAreTheRest
  <2>6. FramesAreCounted(t)'
    BY <1>1, <1>2, <1>3, <2>4 DEF FramesAreCounted
  <2>. QED
    BY <1>1, <2>2, <2>5, <2>6 DEF ThreadInv, CollectedByBytes
<1>5. CASE frames[t] # <<>>
  <2>1. /\ arrived' = [arrived EXCEPT ![t] = <<[end |-> FALSE, size |-> Head(frames[t])]>>]
        /\ frames' = [frames EXCEPT ![t] = Tail(frames[t])]
    BY <1>5 DEF Reqwest!Deliver, Reqwest!Data
  <2>2. /\ Head(frames[t]) = frames[t][1] /\ frames[t][1] \in Nat /\ Len(frames[t]) >= 1
        /\ Tail(frames[t]) \in Seq(Nat) /\ Len(Tail(frames[t])) = Len(frames[t]) - 1
        /\ \A i \in 1..(Len(frames[t]) - 1) : Tail(frames[t])[i] = frames[t][i + 1]
    BY <1>2, <1>5
  <2>3. ReqwestTypeOK'
    <3>1. <<[end |-> FALSE, size |-> Head(frames[t])]>> \in Seq(Arrivals)
      BY <2>2 DEF Arrivals
    <3>. QED
      BY <1>1, <2>1, <2>2, <3>1 DEF ReqwestTypeOK
  <2>4. /\ arrived'[t] # <<>> /\ arrived'[t][1].end = FALSE
        /\ arrived'[t][1].size = frames[t][1] /\ frames'[t] = Tail(frames[t])
    BY <2>1, <2>2 DEF ReqwestTypeOK
  <2>5. /\ Passed(t)' = Passed(t) + 1 /\ Passed(t) \in Nat
        /\ Passed(t) + 1 \in 1..Len(rcontent[t]) /\ Passed(t) + 1 - 1 = Passed(t)
    <3>. DEFINE n == Len(rcontent[t])
                f == Len(frames[t])
    <3>1. /\ n \in Nat /\ f \in Nat /\ 1 <= f /\ f <= n
      BY <1>2, <2>2 DEF FramesAreTheRest
    <3>2. Len(frames'[t]) = f - 1 /\ rcontent' = rcontent
      BY <1>1, <2>2, <2>4
    <3>3. Passed(t) = n - f /\ Passed(t)' = n - (f - 1)
      BY <3>2 DEF Passed
    <3>4. n - (f - 1) = (n - f) + 1 /\ n - f \in Nat /\ (n - f) + 1 \in 1..n
      <4>. HIDE DEF n, f
      <4>. QED
        BY <3>1
    <3>5. (n - f) + 1 - 1 = n - f
      <4>. HIDE DEF n, f
      <4>. QED
        BY <3>1
    <3>. HIDE DEF n, f
    <3>6. /\ Passed(t)' = Passed(t) + 1 /\ Passed(t) \in Nat
          /\ Passed(t) + 1 \in 1..n /\ Passed(t) + 1 - 1 = Passed(t)
      BY <3>3, <3>4, <3>5, Zenon
    <3>. QED
      BY <3>6 DEF n
  <2>6. frames[t][1] = rcontent[t][Passed(t) + 1]
    BY <1>2, <2>2 DEF FramesAreTheRest
  <2>7. FramesAreTheRest(t)'
    <3>1. \A i \in 1..Len(frames'[t]) : frames'[t][i] = rcontent'[t][Passed(t)' + i]
      <4>. SUFFICES ASSUME NEW i \in 1..(Len(frames[t]) - 1)
                    PROVE  frames[t][i + 1] = rcontent[t][Passed(t) + 1 + i]
        BY <1>1, <2>2, <2>4, <2>5
      <4>1. i + 1 \in 1..Len(frames[t]) /\ Passed(t) + (i + 1) = Passed(t) + 1 + i
        <5>1. Len(frames[t]) \in Nat /\ Passed(t) \in Nat
          BY <1>2, <2>5
        <5>. QED
          BY <5>1
      <4>. QED
        BY <1>2, <4>1 DEF FramesAreTheRest
    <3>2. Len(frames'[t]) <= Len(rcontent'[t])
      BY <1>1, <1>2, <2>2, <2>4 DEF FramesAreTheRest
    <3>. QED
      BY <1>1, <2>4, <2>5, <2>6, <3>1, <3>2 DEF FramesAreTheRest
  <2>8. FramesAreCounted(t)'
    <3>1. Sums(rcontent[t])[Passed(t) + 1] = Sums(rcontent[t])[Passed(t)] + frames[t][1]
      BY <1>2, <2>5, <2>6, SumsUnfold
    <3>2. Waits(t)' = frames[t][1]
      BY <2>4 DEF Waits
    <3>3. Sums(rcontent[t])[Passed(t)] = rgot[t] + rbuffer[t] + collected[t] + 0
      BY <1>2, <1>3 DEF FramesAreCounted
    <3>. QED
      BY <1>1, <1>2, <2>2, <2>5, <3>1, <3>2, <3>3 DEF FramesAreCounted
  <2>. QED
    BY <1>1, <2>3, <2>7, <2>8 DEF ThreadInv, CollectedByBytes
<1>. QED
  BY <1>4, <1>5

\* The bytes of a frame that is taken, or the end, and where they leave the count.
LEMMA Takes ==
  ASSUME ReqwestTypeOK, NEW t \in Threads, ThreadInv(t), rresponse[t] = "open",
         arrived[t] # <<>>, Reqwest!Took(t), UNCHANGED <<frames, rcontent, fault>>
  PROVE  /\ Reqwest!Received(t) \in Nat /\ Waits(t) = Reqwest!Received(t)
         /\ arrived' \in [Threads -> Seq(Arrivals)]
         /\ Waits(t)' = 0 /\ Passed(t)' = Passed(t) /\ FramesAreTheRest(t)'
         /\ Passed(t) \in 0..Len(rcontent[t]) /\ Len(rcontent[t]) \in Nat
         /\ /\ Reqwest!Received(t) = 0 /\ fault[t] # "told"
            /\ \A i \in 1..Len(rcontent[t]) : rcontent[t][i] > 0
            => Passed(t) = Len(rcontent[t])
<1>1. /\ rcontent[t] \in Seq(Nat) /\ frames[t] \in Seq(Nat) /\ Len(frames[t]) \in Nat
      /\ Len(rcontent[t]) \in Nat /\ FramesAreTheRest(t)
      /\ arrived[t] \in Seq(Arrivals) /\ arrived[t][1] \in Arrivals
  <2>1. /\ rcontent[t] \in Seq(Nat) /\ frames[t] \in Seq(Nat) /\ Len(frames[t]) \in Nat
        /\ Len(rcontent[t]) \in Nat /\ arrived[t] \in Seq(Arrivals)
    BY ThreadTypes
  <2>2. arrived[t][1] \in Arrivals
    BY <2>1
  <2>. QED
    BY <2>1, <2>2 DEF ThreadInv
<1>2. arrived[t][1].end \in BOOLEAN /\ arrived[t][1].size \in Nat
  BY <1>1 DEF Arrivals
<1>3. /\ Reqwest!Received(t) \in Nat /\ Waits(t) = Reqwest!Received(t)
      /\ Passed(t) \in 0..Len(rcontent[t]) /\ Passed(t)' = Passed(t)
  <2>1. Reqwest!Received(t) \in Nat /\ Waits(t) = Reqwest!Received(t)
    BY <1>2 DEF Reqwest!Received, Waits
  <2>2. Len(frames[t]) <= Len(rcontent[t])
    BY <1>1 DEF FramesAreTheRest
  <2>3. Passed(t) = Len(rcontent[t]) - Len(frames[t]) /\ Passed(t)' = Passed(t)
    BY DEF Passed
  <2>4. \A n, f \in Nat : f <= n => n - f \in 0..n
    OBVIOUS
  <2>5. Passed(t) \in 0..Len(rcontent[t])
    BY <1>1, <2>2, <2>3, <2>4, Zenon
  <2>. QED
    BY <2>1, <2>3, <2>5
<1>4. arrived' = [arrived EXCEPT ![t] = IF arrived[t][1].end THEN arrived[t] ELSE <<>>]
  BY DEF Reqwest!Took
<1>5. arrived' \in [Threads -> Seq(Arrivals)]
  <2>1. (IF arrived[t][1].end THEN arrived[t] ELSE <<>>) \in Seq(Arrivals)
    BY <1>1
  <2>2. arrived \in [Threads -> Seq(Arrivals)]
    BY DEF ReqwestTypeOK
  <2>. QED
    BY <1>4, <2>1, <2>2
<1>6. arrived'[t] = IF arrived[t][1].end THEN arrived[t] ELSE <<>>
  BY <1>4 DEF ReqwestTypeOK
<1>7. Waits(t)' = 0
  BY <1>1, <1>2, <1>6 DEF Waits, FramesAreTheRest
<1>8. FramesAreTheRest(t)'
  BY <1>1, <1>2, <1>3, <1>6 DEF FramesAreTheRest
<1>9. /\ Reqwest!Received(t) = 0 /\ fault[t] # "told"
      /\ \A i \in 1..Len(rcontent[t]) : rcontent[t][i] > 0
      => Passed(t) = Len(rcontent[t])
  <2>1. CASE arrived[t][1].end
    <3>1. CASE fault[t] = "told"
      BY <3>1
    <3>2. CASE fault[t] # "told"
      <4>1. Len(frames[t]) = 0
        BY <1>1, <2>1, <3>2 DEF FramesAreTheRest
      <4>2. Passed(t) = Len(rcontent[t])
        BY <1>1, <4>1 DEF Passed
      <4>. QED
        BY <4>2
    <3>. QED
      BY <3>1, <3>2
  <2>2. CASE ~arrived[t][1].end
    <3>1. Passed(t) \in 1..Len(rcontent[t]) /\ rcontent[t][Passed(t)] = Reqwest!Received(t)
      BY <1>1, <1>3, <2>2 DEF FramesAreTheRest, Reqwest!Received
    <3>. QED
      BY <3>1
  <2>. QED
    BY <2>1, <2>2
<1>. QED
  BY <1>1, <1>3, <1>5, <1>7, <1>8, <1>9

LEMMA CollectThread ==
  ASSUME ReqwestTypeOK, NEW t \in Threads, ThreadInv(t), Reqwest!Collect(t)
  PROVE  ReqwestTypeOK' /\ ThreadInv(t)'
<1>1. /\ rpc[t] = "bytes" /\ arrived[t] # <<>> /\ Reqwest!Took(t)
      /\ UNCHANGED <<frames, rbuffer, rcontent, fault>>
  BY DEF Reqwest!Collect
<1>2. rresponse[t] = "open" /\ FramesAreCounted(t) /\ CollectedByBytes(t)
  BY <1>1 DEF ThreadInv
<1>3. /\ rcontent[t] \in Seq(Nat) /\ rgot[t] = 0 /\ rbuffer[t] = 0 /\ collected[t] \in Nat
      /\ collected[t] <= ReqwestLimit /\ ReqwestLimit \in Nat
  BY <1>1, <1>2, ThreadTypes, ExchangesAssumption DEF CollectedByBytes
<1>. DEFINE n == Reqwest!Received(t)
<1>4. /\ n \in Nat /\ Waits(t) = n /\ arrived' \in [Threads -> Seq(Arrivals)]
      /\ Waits(t)' = 0 /\ Passed(t)' = Passed(t) /\ FramesAreTheRest(t)'
      /\ Passed(t) \in 0..Len(rcontent[t])
      /\ /\ n = 0 /\ fault[t] # "told"
         /\ \A i \in 1..Len(rcontent[t]) : rcontent[t][i] > 0
         => Passed(t) = Len(rcontent[t])
  BY <1>1, <1>2, Takes
<1>5. collected[t] + n = Sums(rcontent[t])[Passed(t)]
  BY <1>2, <1>3, <1>4 DEF FramesAreCounted
<1>6. CASE /\ n = 0 /\ rgot' = [rgot EXCEPT ![t] = collected[t]]
           /\ rresponse' = [rresponse EXCEPT ![t] = "bytes"]
           /\ rpc' = [rpc EXCEPT ![t] = "none"] /\ UNCHANGED collected
  <2>1. ReqwestTypeOK'
    BY <1>1, <1>3, <1>4, <1>6 DEF ReqwestTypeOK, Outcomes
  <2>2. /\ rgot'[t] = collected[t] /\ rresponse'[t] = "bytes" /\ rpc'[t] = "none"
        /\ rcontent'[t] = rcontent[t]
    BY <1>1, <1>6 DEF ReqwestTypeOK
  <2>3. collected[t] = Sums(rcontent[t])[Passed(t)]
    BY <1>3, <1>5, <1>6
  <2>4. /\ \A i \in 1..Len(rcontent[t]) : rcontent[t][i] > 0
        /\ fault[t] # "told"
        => rgot'[t] = Sums(rcontent[t])[Len(rcontent[t])]
    BY <1>4, <1>6, <2>2, <2>3
  <2>. QED
    BY <1>1, <1>3, <2>1, <2>2, <2>4 DEF ThreadInv
<1>7. CASE /\ Reqwest!TooLarge(t, n)
           /\ rresponse' = [rresponse EXCEPT ![t] = "too large"]
           /\ rpc' = [rpc EXCEPT ![t] = "none"] /\ UNCHANGED <<collected, rgot>>
  <2>1. ReqwestTypeOK'
    BY <1>1, <1>4, <1>7 DEF ReqwestTypeOK, Outcomes
  <2>2. rresponse'[t] = "too large" /\ rpc'[t] = "none" /\ rcontent'[t] = rcontent[t]
    BY <1>1, <1>7 DEF ReqwestTypeOK
  <2>3. Sums(rcontent[t])[Passed(t)] > ReqwestLimit
    BY <1>5, <1>7 DEF Reqwest!TooLarge
  <2>4. /\ Sums(rcontent[t])[Passed(t)] <= Sums(rcontent[t])[Len(rcontent[t])]
        /\ Sums(rcontent[t])[Passed(t)] \in Nat
        /\ Sums(rcontent[t])[Len(rcontent[t])] \in Nat
    <3>1. Len(rcontent[t]) \in 0..Len(rcontent[t])
      BY <1>3
    <3>. QED
      BY <1>3, <1>4, <3>1, SumsGrow, SumsType
  <2>5. Sums(rcontent[t])[Len(rcontent[t])] > ReqwestLimit
    BY <1>3, <2>3, <2>4
  <2>. QED
    BY <2>1, <2>2, <2>5 DEF ThreadInv
<1>8. CASE /\ ~Reqwest!TooLarge(t, n)
           /\ collected' = [collected EXCEPT ![t] = collected[t] + n]
           /\ UNCHANGED <<rpc, rresponse, rgot>>
  <2>1. collected[t] + n \in Nat
    BY <1>3, <1>4
  <2>2. ReqwestTypeOK'
    BY <1>1, <1>4, <1>8, <2>1 DEF ReqwestTypeOK
  <2>3. collected'[t] = collected[t] + n
    BY <1>8 DEF ReqwestTypeOK
  <2>4. collected[t] + n <= ReqwestLimit
    BY <1>3, <1>8, <2>1 DEF Reqwest!TooLarge
  <2>5. FramesAreCounted(t)'
    BY <1>1, <1>3, <1>4, <1>5, <1>8, <2>1, <2>3 DEF FramesAreCounted
  <2>6. CollectedByBytes(t)'
    BY <1>1, <1>3, <1>8, <2>3, <2>4 DEF CollectedByBytes
  <2>. QED
    BY <1>1, <1>2, <1>4, <1>8, <2>2, <2>5, <2>6 DEF ThreadInv
<1>. QED
  BY <1>6, <1>7, <1>8
  DEF Reqwest!Collect, Reqwest!Close, Reqwest!Return, Reqwest!callVars

LEMMA WriteToThread ==
  ASSUME ReqwestTypeOK, NEW t \in Threads, ThreadInv(t), NEW max \in 1..BufLen,
         Reqwest!WriteTo(t, max)
  PROVE  ReqwestTypeOK' /\ ThreadInv(t)'
<1>. DEFINE n == IF max < rbuffer[t] THEN max ELSE rbuffer[t]
<1>1. /\ rpc[t] = "read" /\ n > 0
      /\ rbuffer' = [rbuffer EXCEPT ![t] = rbuffer[t] - n]
      /\ rgot' = [rgot EXCEPT ![t] = rgot[t] + n]
      /\ rpc' = [rpc EXCEPT ![t] = "none"]
      /\ UNCHANGED <<rresponse, frames, arrived, collected, rcontent, fault>>
  BY DEF Reqwest!WriteTo, Reqwest!Return
<1>2. /\ rresponse[t] = "open" /\ FramesAreTheRest(t) /\ FramesAreCounted(t)
      /\ CollectedByBytes(t)
  BY <1>1 DEF ThreadInv
<1>3. /\ rbuffer[t] \in Nat /\ rgot[t] \in Nat /\ collected[t] = 0
      /\ ReqwestLimit \in Nat
  BY <1>1, <1>2, ThreadTypes, ExchangesAssumption DEF CollectedByBytes
<1>4. n \in Nat /\ n <= rbuffer[t]
  BY <1>1, <1>3
<1>. HIDE DEF n
<1>5. rbuffer[t] - n \in Nat /\ rgot[t] + n \in Nat
  BY <1>3, <1>4
<1>6. ReqwestTypeOK'
  BY <1>1, <1>5 DEF ReqwestTypeOK
<1>7. /\ rbuffer'[t] = rbuffer[t] - n /\ rgot'[t] = rgot[t] + n /\ rpc'[t] = "none"
  BY <1>1 DEF ReqwestTypeOK
<1>8. FramesAreTheRest(t)' /\ Waits(t)' = Waits(t) /\ Passed(t)' = Passed(t)
  BY <1>1, <1>2 DEF FramesAreTheRest, Waits, Passed
<1>9. (rgot[t] + n) + (rbuffer[t] - n) = rgot[t] + rbuffer[t]
  BY <1>3, <1>4
<1>10. FramesAreCounted(t)'
  BY <1>1, <1>2, <1>7, <1>8, <1>9 DEF FramesAreCounted
<1>11. CollectedByBytes(t)'
  BY <1>1, <1>3, <1>4, <1>7 DEF CollectedByBytes
<1>. QED
  BY <1>1, <1>2, <1>6, <1>7, <1>8, <1>10, <1>11 DEF ThreadInv

LEMMA ReceiveThread ==
  ASSUME ReqwestTypeOK, NEW t \in Threads, ThreadInv(t), Reqwest!ReceiveFrame(t)
  PROVE  ReqwestTypeOK' /\ ThreadInv(t)'
<1>. DEFINE n == Reqwest!Received(t)
<1>1. /\ rpc[t] = "read" /\ rbuffer[t] = 0 /\ arrived[t] # <<>> /\ Reqwest!Took(t)
      /\ rbuffer' = [rbuffer EXCEPT ![t] = n]
      /\ UNCHANGED <<frames, collected, rgot, rcontent, fault>>
  BY DEF Reqwest!ReceiveFrame
<1>2. rresponse[t] = "open" /\ FramesAreCounted(t) /\ CollectedByBytes(t)
  BY <1>1 DEF ThreadInv
<1>3. /\ rcontent[t] \in Seq(Nat) /\ rgot[t] \in Nat /\ collected[t] = 0
      /\ ReqwestLimit \in Nat
  BY <1>1, <1>2, ThreadTypes, ExchangesAssumption DEF CollectedByBytes
<1>4. /\ n \in Nat /\ Waits(t) = n /\ arrived' \in [Threads -> Seq(Arrivals)]
      /\ Waits(t)' = 0 /\ Passed(t)' = Passed(t) /\ FramesAreTheRest(t)'
      /\ /\ n = 0 /\ fault[t] # "told"
         /\ \A i \in 1..Len(rcontent[t]) : rcontent[t][i] > 0
         => Passed(t) = Len(rcontent[t])
  BY <1>1, <1>2, Takes
<1>5. rgot[t] + n = Sums(rcontent[t])[Passed(t)]
  BY <1>1, <1>2, <1>3, <1>4 DEF FramesAreCounted
<1>6. rbuffer'[t] = n
  BY <1>1 DEF ReqwestTypeOK
<1>7. CASE /\ n = 0 /\ rresponse' = [rresponse EXCEPT ![t] = "read"]
           /\ rpc' = [rpc EXCEPT ![t] = "none"]
  <2>1. ReqwestTypeOK'
    BY <1>1, <1>4, <1>7 DEF ReqwestTypeOK, Outcomes
  <2>2. /\ rgot'[t] = rgot[t] /\ rresponse'[t] = "read" /\ rpc'[t] = "none"
        /\ rcontent'[t] = rcontent[t]
    BY <1>1, <1>7 DEF ReqwestTypeOK
  <2>3. rgot[t] = Sums(rcontent[t])[Passed(t)]
    BY <1>3, <1>5, <1>7
  <2>4. /\ \A i \in 1..Len(rcontent[t]) : rcontent[t][i] > 0
        /\ fault[t] # "told"
        => rgot'[t] = Sums(rcontent[t])[Len(rcontent[t])]
    BY <1>4, <1>7, <2>2, <2>3
  <2>. QED
    BY <1>1, <2>1, <2>2, <2>4 DEF ThreadInv
<1>8. CASE n # 0 /\ UNCHANGED <<rpc, rresponse>>
  <2>1. ReqwestTypeOK'
    BY <1>1, <1>4, <1>8 DEF ReqwestTypeOK
  <2>2. FramesAreCounted(t)'
    BY <1>1, <1>3, <1>4, <1>5, <1>6 DEF FramesAreCounted
  <2>3. CollectedByBytes(t)'
    BY <1>1, <1>2, <1>8 DEF CollectedByBytes
  <2>. QED
    BY <1>1, <1>2, <1>4, <1>8, <2>1, <2>2, <2>3 DEF ThreadInv
<1>. QED
  BY <1>7, <1>8 DEF Reqwest!ReceiveFrame, Reqwest!Close, Reqwest!Return, Reqwest!callVars

LEMMA DropThread ==
  ASSUME ReqwestTypeOK, NEW t \in Threads, ThreadInv(t), Reqwest!Drop(t)
  PROVE  ReqwestTypeOK' /\ ThreadInv(t)'
<1>1. /\ rpc[t] = "none" /\ rresponse' = [rresponse EXCEPT ![t] = "dropped"]
      /\ UNCHANGED <<rpc, rcontent, frames, arrived, rbuffer, collected, rgot, fault>>
  BY DEF Reqwest!Drop, Reqwest!Close, Reqwest!callVars, Reqwest!bodyVars
<1>2. ReqwestTypeOK'
  BY <1>1 DEF ReqwestTypeOK, Outcomes
<1>3. rresponse'[t] = "dropped"
  BY <1>1 DEF ReqwestTypeOK
<1>. QED
  BY <1>1, <1>2, <1>3 DEF ThreadInv

LEMMA RequestFailsThread ==
  ASSUME ReqwestTypeOK, NEW t \in Threads, ThreadInv(t), Reqwest!RequestFails(t)
  PROVE  ReqwestTypeOK' /\ ThreadInv(t)'
<1>1. /\ rresponse' = [rresponse EXCEPT ![t] = "failed"]
      /\ rpc' = [rpc EXCEPT ![t] = "none"]
      /\ UNCHANGED <<rcontent, frames, arrived, rbuffer, collected, rgot, fault>>
  BY DEF Reqwest!RequestFails, Reqwest!Return, Reqwest!bodyVars
<1>2. ReqwestTypeOK'
  BY <1>1 DEF ReqwestTypeOK, Outcomes
<1>3. rresponse'[t] = "failed" /\ rpc'[t] = "none"
  BY <1>1 DEF ReqwestTypeOK
<1>. QED
  BY <1>1, <1>2, <1>3 DEF ThreadInv

\* A connection is lost, or the time runs out, under an open response.
LEMMA FaultThread ==
  ASSUME ReqwestTypeOK, NEW t \in Threads, ThreadInv(t),
         Reqwest!Lose(t) \/ Reqwest!TimeOut(t)
  PROVE  ReqwestTypeOK' /\ ThreadInv(t)'
<1>1. /\ rresponse[t] = "open" /\ fault[t] = "none"
      /\ \/ fault' = [fault EXCEPT ![t] = "closed"]
         \/ fault' = [fault EXCEPT ![t] = "timeout"]
      /\ UNCHANGED <<rresponse, rpc, rcontent, frames, arrived, rbuffer, collected, rgot>>
  BY DEF Reqwest!Lose, Reqwest!TimeOut, Reqwest!callVars
<1>2. ReqwestTypeOK'
  BY <1>1 DEF ReqwestTypeOK, Faults
<1>. QED
  BY <1>1, <1>2
  DEF ThreadInv, FramesAreTheRest, FramesAreCounted, CollectedByBytes, Passed, Waits

\* The error reaches the call: a reader keeps the response, whose next read is the end.
LEMMA ErrorThread ==
  ASSUME ReqwestTypeOK, NEW t \in Threads, ThreadInv(t), Reqwest!ReceiveError(t)
  PROVE  ReqwestTypeOK' /\ ThreadInv(t)'
<1>1. /\ \/ rpc[t] = "bytes" /\ rresponse' = [rresponse EXCEPT ![t] = "failed"]
         \/ rpc[t] = "read" /\ rbuffer[t] = 0 /\ UNCHANGED rresponse
      /\ rpc' = [rpc EXCEPT ![t] = "none"]
      /\ collected' = [collected EXCEPT ![t] = 0]
      /\ UNCHANGED <<rcontent, frames, rbuffer, rgot>>
  BY DEF Reqwest!ReceiveError, Reqwest!FrameFails, Reqwest!Close, Reqwest!Return
<1>2. \/ UNCHANGED <<arrived, fault>>
      \/ /\ arrived[t] = <<>> /\ arrived' = [arrived EXCEPT ![t] = <<Reqwest!End>>]
         /\ fault' = [fault EXCEPT ![t] = "told"]
  BY DEF Reqwest!ReceiveError, Reqwest!Fails
<1>3. <<Reqwest!End>> \in Seq(Arrivals) /\ Reqwest!End.end = TRUE /\ Reqwest!End.size = 0
  BY DEF Reqwest!End, Arrivals
<1>4. arrived' \in [Threads -> Seq(Arrivals)] /\ fault' \in [Threads -> Faults]
  BY <1>2, <1>3 DEF ReqwestTypeOK, Faults
<1>5. ReqwestTypeOK'
  BY <1>1, <1>4 DEF ReqwestTypeOK, Outcomes
<1>6. rpc'[t] = "none" /\ collected'[t] = 0
  BY <1>1 DEF ReqwestTypeOK
<1>7. CASE rpc[t] = "bytes" /\ rresponse' = [rresponse EXCEPT ![t] = "failed"]
  <2>1. rresponse'[t] = "failed"
    BY <1>7 DEF ReqwestTypeOK
  <2>. QED
    BY <1>5, <1>6, <2>1 DEF ThreadInv
<1>8. CASE rpc[t] = "read" /\ rbuffer[t] = 0 /\ UNCHANGED rresponse
  <2>1. /\ rresponse[t] = "open" /\ FramesAreTheRest(t) /\ FramesAreCounted(t)
        /\ collected[t] = 0 /\ ReqwestLimit \in Nat
    BY <1>8, ExchangesAssumption DEF ThreadInv, CollectedByBytes
  <2>2. Passed(t)' = Passed(t)
    BY <1>1 DEF Passed
  <2>3. FramesAreTheRest(t)' /\ Waits(t)' = Waits(t)
    <3>1. CASE UNCHANGED <<arrived, fault>>
      BY <1>1, <2>1, <2>2, <3>1 DEF FramesAreTheRest, Waits
    <3>2. CASE /\ arrived[t] = <<>> /\ arrived' = [arrived EXCEPT ![t] = <<Reqwest!End>>]
               /\ fault' = [fault EXCEPT ![t] = "told"]
      <4>1. arrived'[t] = <<Reqwest!End>> /\ fault'[t] = "told"
        BY <3>2 DEF ReqwestTypeOK
      <4>2. arrived'[t] # <<>> /\ arrived'[t][1] = Reqwest!End
        BY <4>1
      <4>3. Waits(t)' = 0 /\ Waits(t) = 0
        BY <1>3, <3>2, <4>2 DEF Waits
      <4>. QED
        BY <1>1, <1>3, <2>1, <2>2, <4>1, <4>2, <4>3 DEF FramesAreTheRest
    <3>. QED
      BY <1>2, <3>1, <3>2
  <2>4. FramesAreCounted(t)'
    BY <1>1, <1>6, <2>1, <2>2, <2>3 DEF FramesAreCounted
  <2>5. CollectedByBytes(t)'
    BY <1>1, <1>6, <1>8, <2>1 DEF CollectedByBytes
  <2>. QED
    BY <1>5, <1>6, <1>8, <2>1, <2>3, <2>4, <2>5 DEF ThreadInv
<1>. QED
  BY <1>1, <1>7, <1>8

LEMMA ReqwestThreadsNext == (ReqwestTypeOK /\ \A t \in Threads : ThreadInv(t))' => ReqwestInv'
<1>1. (ReqwestTypeOK /\ \A t \in Threads : ThreadInv(t)) => ReqwestInv
  BY ReqwestThreads
<1>. QED
  BY <1>1, PTL

LEMMA ReqwestNext == ReqwestInv /\ [Reqwest!Next]_(Reqwest!vars) => ReqwestInv'
<1>. SUFFICES ASSUME ReqwestInv, [Reqwest!Next]_(Reqwest!vars) PROVE ReqwestInv'
  OBVIOUS
<1>0. ReqwestTypeOK /\ \A t \in Threads : ThreadInv(t)
  BY ReqwestThreads
<1>1. CASE UNCHANGED Reqwest!vars
  <2>1. UNCHANGED <<rresponse, rpc, rcontent, frames, arrived, rbuffer, collected, rgot, fault>>
    BY <1>1 DEF Reqwest!vars, Reqwest!callVars, Reqwest!bodyVars
  <2>2. ReqwestTypeOK'
    BY <1>0, <2>1 DEF ReqwestTypeOK
  <2>3. ASSUME NEW t \in Threads PROVE ThreadInv(t)'
    BY <1>0, <2>1, SameThread
  <2>. QED
    BY <2>2, <2>3, ReqwestThreadsNext
<1>2. ASSUME NEW t \in Threads,
             \/ Reqwest!Request(t) \/ Reqwest!Start(t) \/ Reqwest!Drop(t) \/ Reqwest!Step(t)
             \/ Reqwest!RequestFails(t) \/ Reqwest!Lose(t) \/ Reqwest!TimeOut(t)
      PROVE  ReqwestInv'
  <2>1. ReqwestTypeOK' /\ ThreadInv(t)'
    BY <1>0, <1>2, RequestThread, StartThread, RespondThread, DeliverThread,
       CollectThread, WriteToThread, ReceiveThread, DropThread, RequestFailsThread,
       FaultThread, ErrorThread
    DEF Reqwest!Step
  <2>2. \A u \in Threads : u # t => ThreadInv(u)'
    BY <1>0, <1>2, OtherThreads
  <2>3. \A u \in Threads : ThreadInv(u)'
    BY <2>1, <2>2
  <2>. QED
    BY <2>1, <2>3, ReqwestThreadsNext
<1>. QED
  BY <1>1, <1>2 DEF Reqwest!Next

\* A body that was read to its end without an error is the whole body, and only a body
\* over the limit is refused, for any frames, buffers and turns of the threads.
THEOREM ReqwestReadsTheBody == ExchangesSpec => []BodyIsRead
<1>1. ExchangesInit => ReqwestInv
  BY ReqwestInit DEF ExchangesInit
<1>2. ReqwestInv /\ [ExchangesNext]_ExchangesVars => ReqwestInv'
  BY ReqwestNext, ExchangesStep
<1>3. ReqwestInv => BodyIsRead
  BY DEF ReqwestInv
<1>. QED
  BY <1>1, <1>2, <1>3, PTL DEF ExchangesSpec

-----------------------------------------------------------------------------
(* The messages: the headers at some places of a list.                     *)

\* Strings; the provers need to be told of the literals.
Texts ==
  STRING \cup {"content-type", "content-length", "transfer-encoding", "lower", "chunked",
              "its length"}

HeaderLines == [name: Texts, case: Texts, value: Texts]

TakenTo(places, headers, n, f) ==
  f = [i \in 0..n |-> IF i = 0 THEN <<>>
                      ELSE IF i \in places THEN Append(f[i - 1], headers[i])
                      ELSE f[i - 1]]

Taken(places, headers) == CHOOSE f : TakenTo(places, headers, Len(headers), f)

LEMMA TakenExists ==
  ASSUME NEW places, NEW headers, NEW n \in Nat
  PROVE  \E f : TakenTo(places, headers, n, f)
<1>. DEFINE Bad == {k \in Nat : ~\E f : TakenTo(places, headers, k, f)}
<1>1. SUFFICES ASSUME Bad # {} PROVE FALSE
  OBVIOUS
<1>2. PICK m \in Bad : \A k \in Bad : m <= k
  <2>1. Bad \subseteq Nat
    OBVIOUS
  <2>. QED
    BY <1>1, <2>1, LeastExists
<1>3. m \in Nat /\ ~\E f : TakenTo(places, headers, m, f)
  BY <1>2
<1>4. CASE m = 0
  <2>1. TakenTo(places, headers, m, [i \in 0..m |-> <<>>])
    BY <1>4 DEF TakenTo
  <2>. QED
    BY <1>3, <2>1
<1>5. CASE m # 0
  <2>1. m - 1 \in Nat /\ m - 1 \notin Bad
    BY <1>2, <1>3, <1>5
  <2>2. PICK g : TakenTo(places, headers, m - 1, g)
    BY <2>1
  <2>. DEFINE h == [i \in 0..m |->
                      IF i = m THEN IF m \in places THEN Append(g[m - 1], headers[m])
                                    ELSE g[m - 1]
                      ELSE g[i]]
  <2>3. \A i \in 0..(m - 1) : g[i] = IF i = 0 THEN <<>>
                                     ELSE IF i \in places THEN Append(g[i - 1], headers[i])
                                     ELSE g[i - 1]
    BY <1>3, <1>5, <2>2 DEF TakenTo
  <2>4. \A i \in 0..m : h[i] = IF i = 0 THEN <<>>
                               ELSE IF i \in places THEN Append(h[i - 1], headers[i])
                               ELSE h[i - 1]
    BY <1>3, <1>5, <2>3
  <2>5. TakenTo(places, headers, m, h)
    BY <2>4 DEF TakenTo
  <2>. QED
    BY <1>3, <2>5
<1>. QED
  BY <1>4, <1>5

LEMMA TakenUnfold ==
  ASSUME NEW places, NEW headers \in Seq(HeaderLines)
  PROVE  /\ Message!At(places, headers) = Taken(places, headers)[Len(headers)]
         /\ Taken(places, headers)[0] = <<>>
         /\ \A i \in 1..Len(headers) :
              Taken(places, headers)[i] =
                IF i \in places THEN Append(Taken(places, headers)[i - 1], headers[i])
                ELSE Taken(places, headers)[i - 1]
<1>1. Len(headers) \in Nat /\ Len(headers) \in 0..Len(headers)
  OBVIOUS
<1>2. TakenTo(places, headers, Len(headers), Taken(places, headers))
  BY <1>1, TakenExists, Zenon DEF Taken
<1>3. Message!At(places, headers) = Taken(places, headers)[Len(headers)]
  BY Zenon DEF Message!At, Taken, TakenTo
<1>. DEFINE f == Taken(places, headers)
<1>4. \A i \in 0..Len(headers) :
        f[i] = IF i = 0 THEN <<>>
               ELSE IF i \in places THEN Append(f[i - 1], headers[i])
               ELSE f[i - 1]
  BY <1>2, Zenon DEF TakenTo
<1>. HIDE DEF f
<1>5. f[0] = <<>>
  BY <1>1, <1>4
<1>6. ASSUME NEW i \in 1..Len(headers)
      PROVE  f[i] = IF i \in places THEN Append(f[i - 1], headers[i]) ELSE f[i - 1]
  <2>1. i \in 0..Len(headers) /\ i # 0
    BY <1>1
  <2>. QED
    BY <1>4, <2>1, Zenon
<1>. QED
  BY <1>3, <1>5, <1>6, Zenon DEF f

\* What is taken of a list does not depend on what follows.
LEMMA TakenAgree ==
  ASSUME NEW places, NEW others, NEW s \in Seq(HeaderLines), NEW t \in Seq(HeaderLines),
         Len(s) <= Len(t),
         \A i \in 1..Len(s) : s[i] = t[i] /\ (i \in places <=> i \in others)
  PROVE  Message!At(places, s) = Taken(others, t)[Len(s)]
<1>. DEFINE Bad == {k \in 0..Len(s) : Taken(places, s)[k] # Taken(others, t)[k]}
<1>0. Len(s) \in Nat /\ Len(t) \in Nat
  OBVIOUS
<1>1. SUFFICES ASSUME Bad # {} PROVE FALSE
  BY <1>0, TakenUnfold
<1>2. PICK m \in Bad : \A k \in Bad : m <= k
  <2>1. Bad \subseteq Nat
    OBVIOUS
  <2>. QED
    BY <1>1, <2>1, LeastExists
<1>3. m # 0
  BY <1>2, TakenUnfold
<1>4. m - 1 \in 0..Len(s) /\ m - 1 \notin Bad /\ m \in 1..Len(s) /\ m \in 1..Len(t)
  BY <1>0, <1>2, <1>3
<1>5. Taken(places, s)[m - 1] = Taken(others, t)[m - 1]
  BY <1>4
<1>6. Taken(places, s)[m] = Taken(others, t)[m]
  BY <1>4, <1>5, TakenUnfold
<1>. QED
  BY <1>2, <1>6

LEMMA AtEmpty ==
  ASSUME NEW places
  PROVE  Message!At(places, <<>>) = <<>>
<1>1. <<>> \in Seq(HeaderLines) /\ Len(<<>>) = 0
  BY EmptySeq
<1>2. /\ Message!At(places, <<>>) = Taken(places, <<>>)[Len(<<>>)]
      /\ Taken(places, <<>>)[0] = <<>>
  BY <1>1, TakenUnfold, Zenon
<1>. QED
  BY <1>1, <1>2

\* The last header is taken if its place is meant.
LEMMA AtAppend ==
  ASSUME NEW places, NEW others, NEW s \in Seq(HeaderLines), NEW h \in HeaderLines,
         \A i \in 1..Len(s) : i \in places <=> i \in others
  PROVE  Message!At(places, Append(s, h)) =
           IF Len(s) + 1 \in places THEN Append(Message!At(others, s), h)
           ELSE Message!At(others, s)
<1>. DEFINE t == Append(s, h)
<1>1. /\ t \in Seq(HeaderLines) /\ Len(s) \in Nat /\ Len(t) = Len(s) + 1
      /\ t[Len(s) + 1] = h /\ \A i \in 1..Len(s) : t[i] = s[i]
  OBVIOUS
<1>. HIDE DEF t
<1>2. Message!At(others, s) = Taken(places, t)[Len(s)]
  <2>1. \A i \in 1..Len(s) : s[i] = t[i] /\ (i \in others <=> i \in places)
    BY <1>1
  <2>2. Len(s) <= Len(t) /\ s \in Seq(HeaderLines) /\ t \in Seq(HeaderLines)
    BY <1>1
  <2>. QED
    BY ONLY <2>1, <2>2, TakenAgree, Zenon
<1>3. Len(s) + 1 \in 1..Len(t) /\ (Len(s) + 1) - 1 = Len(s)
  BY <1>1
<1>4. Message!At(places, t) =
        IF Len(s) + 1 \in places THEN Append(Taken(places, t)[Len(s)], h)
        ELSE Taken(places, t)[Len(s)]
  <2>. DEFINE taken == Taken(places, t)
              n == Len(s) + 1
  <2>1. /\ Message!At(places, t) = taken[Len(t)]
        /\ \A i \in 1..Len(t) :
             taken[i] = IF i \in places THEN Append(taken[i - 1], t[i]) ELSE taken[i - 1]
    <3>1. t \in Seq(HeaderLines)
      BY <1>1
    <3>. QED
      BY <3>1, TakenUnfold
  <2>2. n \in 1..Len(t) /\ n - 1 = Len(s) /\ Len(t) = n /\ t[n] = h
    BY <1>1, <1>3
  <2>. HIDE DEF taken, n
  <2>3. Message!At(places, t) =
          IF n \in places THEN Append(taken[Len(s)], h) ELSE taken[Len(s)]
    BY ONLY <2>1, <2>2
  <2>. QED
    BY <2>3 DEF taken, n
<1>. QED
  BY <1>2, <1>4 DEF t

LEMMA AtAppendSame ==
  ASSUME NEW places, NEW s \in Seq(HeaderLines), NEW h \in HeaderLines
  PROVE  Message!At(places, Append(s, h)) =
           IF Len(s) + 1 \in places THEN Append(Message!At(places, s), h)
           ELSE Message!At(places, s)
<1>. DEFINE same == places
<1>1. \A i \in 1..Len(s) : i \in places <=> i \in same
  OBVIOUS
<1>2. same = places
  OBVIOUS
<1>. HIDE DEF same
<1>3. Message!At(places, Append(s, h)) =
        IF Len(s) + 1 \in places THEN Append(Message!At(same, s), h)
        ELSE Message!At(same, s)
  BY <1>1, AtAppend
<1>. QED
  BY <1>2, <1>3

LEMMA AtAgree ==
  ASSUME NEW places, NEW others, NEW s \in Seq(HeaderLines),
         \A i \in 1..Len(s) : i \in places <=> i \in others
  PROVE  Message!At(places, s) = Message!At(others, s)
<1>1. /\ Len(s) <= Len(s)
      /\ \A i \in 1..Len(s) : s[i] = s[i] /\ (i \in places <=> i \in others)
      /\ \A i \in 1..Len(s) : s[i] = s[i] /\ (i \in others <=> i \in others)
  OBVIOUS
<1>2. Message!At(places, s) = Taken(others, s)[Len(s)]
  BY <1>1, TakenAgree, Zenon
<1>3. Message!At(others, s) = Taken(others, s)[Len(s)]
  BY <1>1, TakenAgree, Zenon
<1>. QED
  BY <1>2, <1>3, Zenon

\* What holds for no headers, and for one more if it does for some, holds for all.
LEMMA HeadersInduction ==
  ASSUME NEW T, <<>> \in T,
         \A s \in Seq(HeaderLines) : \A h \in HeaderLines : s \in T => Append(s, h) \in T
  PROVE  \A s \in Seq(HeaderLines) : s \in T
  BY SeqInduction

LEMMA AtType ==
  ASSUME NEW places, NEW s \in Seq(HeaderLines)
  PROVE  Message!At(places, s) \in Seq(HeaderLines)
<1>. DEFINE T == {u \in Seq(HeaderLines) : Message!At(places, u) \in Seq(HeaderLines)}
<1>1. <<>> \in T
  BY EmptySeq, AtEmpty
<1>2. ASSUME NEW u \in Seq(HeaderLines), NEW h \in HeaderLines, u \in T
      PROVE  Append(u, h) \in T
  <2>1. Message!At(places, u) \in Seq(HeaderLines) /\ Append(u, h) \in Seq(HeaderLines)
    BY <1>2
  <2>2. \/ Message!At(places, Append(u, h)) = Append(Message!At(places, u), h)
        \/ Message!At(places, Append(u, h)) = Message!At(places, u)
    BY AtAppendSame, Zenon
  <2>3. Append(Message!At(places, u), h) \in Seq(HeaderLines)
    BY <2>1, AppendProperties
  <2>4. Message!At(places, Append(u, h)) \in Seq(HeaderLines)
    BY <2>1, <2>2, <2>3, Zenon
  <2>. QED
    BY <2>1, <2>4
<1>. QED
  BY <1>1, <1>2, HeadersInduction

\* None are taken from no places, and one from one.
LEMMA AtNone ==
  ASSUME NEW places, NEW s \in Seq(HeaderLines), \A i \in 1..Len(s) : i \notin places
  PROVE  Message!At(places, s) = <<>>
<1>. DEFINE T == {u \in Seq(HeaderLines) : Message!At({}, u) = <<>>}
<1>1. <<>> \in T
  BY EmptySeq, AtEmpty
<1>2. ASSUME NEW u \in Seq(HeaderLines), NEW h \in HeaderLines, u \in T
      PROVE  Append(u, h) \in T
  <2>1. Message!At({}, Append(u, h)) = Message!At({}, u)
    BY AtAppendSame, Zenon
  <2>. QED
    BY <1>2, <2>1
<1>3. Message!At({}, s) = <<>>
  BY <1>1, <1>2, HeadersInduction
<1>4. Message!At(places, s) = Message!At({}, s)
  <2>1. \A i \in 1..Len(s) : i \in places <=> i \in {}
    OBVIOUS
  <2>. QED
    BY <2>1, AtAgree, Zenon
<1>. QED
  BY <1>3, <1>4

LEMMA AtOne ==
  ASSUME NEW s \in Seq(HeaderLines), NEW k \in 1..Len(s)
  PROVE  Message!At({k}, s) = <<s[k]>>
<1>. DEFINE T == {u \in Seq(HeaderLines) :
                    \A i \in 1..Len(u) : Message!At({i}, u) = <<u[i]>>}
<1>1. <<>> \in T
  BY EmptySeq
<1>2. ASSUME NEW u \in Seq(HeaderLines), NEW h \in HeaderLines, u \in T,
             NEW i \in 1..Len(Append(u, h))
      PROVE  Message!At({i}, Append(u, h)) = <<Append(u, h)[i]>>
  <2>1. Len(u) \in Nat /\ i \in 1..Len(u) + 1
    OBVIOUS
  <2>2. Message!At({i}, Append(u, h)) =
          IF Len(u) + 1 \in {i} THEN Append(Message!At({i}, u), h) ELSE Message!At({i}, u)
    BY AtAppendSame, Zenon
  <2>3. CASE i = Len(u) + 1
    <3>1. \A j \in 1..Len(u) : j \notin {i}
      BY <2>1, <2>3
    <3>2. Message!At({i}, u) = <<>>
      BY <3>1, AtNone
    <3>3. Append(u, h)[i] = h /\ Append(<<>>, h) = <<h>>
      BY <2>3
    <3>. QED
      BY <2>2, <2>3, <3>2, <3>3
  <2>4. CASE i # Len(u) + 1
    <3>1. i \in 1..Len(u) /\ Append(u, h)[i] = u[i]
      BY <2>1, <2>4
    <3>2. Message!At({i}, u) = <<u[i]>>
      BY <1>2, <3>1
    <3>. QED
      BY <2>2, <2>4, <3>1, <3>2
  <2>. QED
    BY <2>3, <2>4
<1>3. \A u \in Seq(HeaderLines) : \A h \in HeaderLines : u \in T => Append(u, h) \in T
  BY <1>2, AppendProperties
<1>4. s \in T
  BY <1>1, <1>3, HeadersInduction
<1>. QED
  BY <1>4

-----------------------------------------------------------------------------
(* The headers of a name.                                                  *)

LEMMA NamedType ==
  ASSUME NEW name, NEW s \in Seq(HeaderLines)
  PROVE  Message!Named(name, s) \in Seq(HeaderLines)
  BY AtType DEF Message!Named, Message!Only

LEMMA NamedNothing == ASSUME NEW name PROVE Message!Named(name, <<>>) = <<>>
  BY AtEmpty DEF Message!Named, Message!Only

LEMMA NamedAppend ==
  ASSUME NEW name, NEW s \in Seq(HeaderLines), NEW h \in HeaderLines
  PROVE  Message!Named(name, Append(s, h)) =
           IF h.name = name THEN Append(Message!Named(name, s), h)
           ELSE Message!Named(name, s)
<1>. DEFINE t == Append(s, h)
            all == {i \in DOMAIN t : t[i].name \in {name}}
            some == {i \in DOMAIN s : s[i].name \in {name}}
<1>1. /\ Len(s) \in Nat /\ DOMAIN t = 1..Len(s) + 1 /\ DOMAIN s = 1..Len(s)
      /\ t[Len(s) + 1] = h /\ \A i \in 1..Len(s) : t[i] = s[i]
  OBVIOUS
<1>2. \A i \in 1..Len(s) : i \in all <=> i \in some
  BY <1>1
<1>3. Len(s) + 1 \in all <=> h.name = name
  BY <1>1
<1>4. /\ Message!Named(name, t) = Message!At(all, t)
      /\ Message!Named(name, s) = Message!At(some, s)
  BY DEF Message!Named, Message!Only
<1>. HIDE DEF all, some
<1>. QED
  BY <1>2, <1>3, <1>4, AtAppend

LEMMA NamedOne ==
  ASSUME NEW name, NEW h \in HeaderLines
  PROVE  Message!Named(name, <<h>>) = IF h.name = name THEN <<h>> ELSE <<>>
<1>1. <<>> \in Seq(HeaderLines)
  BY EmptySeq
<1>2. Append(<<>>, h) = <<h>>
  OBVIOUS
<1>3. Message!Named(name, Append(<<>>, h)) =
           IF h.name = name THEN Append(Message!Named(name, <<>>), h)
           ELSE Message!Named(name, <<>>)
  BY <1>1, NamedAppend
<1>. QED
  BY <1>2, <1>3, NamedNothing

LEMMA NamedConcat ==
  ASSUME NEW name, NEW s \in Seq(HeaderLines), NEW t \in Seq(HeaderLines)
  PROVE  Message!Named(name, s \o t) = Message!Named(name, s) \o Message!Named(name, t)
<1>. DEFINE N(u) == Message!Named(name, u)
            T == {u \in Seq(HeaderLines) : N(s \o u) = N(s) \o N(u)}
<1>0. N(s) \in Seq(HeaderLines)
  BY NamedType
<1>1. <<>> \in T
  <2>1. <<>> \in Seq(HeaderLines) /\ s \o <<>> = s /\ N(s) \o <<>> = N(s)
    BY <1>0, EmptySeq, ConcatEmptySeq
  <2>. QED
    BY <2>1, NamedNothing
<1>2. ASSUME NEW u \in Seq(HeaderLines), NEW h \in HeaderLines, u \in T
      PROVE  Append(u, h) \in T
  <2>1. N(u) \in Seq(HeaderLines) /\ s \o u \in Seq(HeaderLines)
        /\ Append(u, h) \in Seq(HeaderLines)
    BY NamedType
  <2>2. N(Append(s \o u, h)) = IF h.name = name THEN Append(N(s \o u), h) ELSE N(s \o u)
    BY <2>1, NamedAppend
  <2>3. N(Append(u, h)) = IF h.name = name THEN Append(N(u), h) ELSE N(u)
    BY NamedAppend
  <2>4. s \o Append(u, h) = Append(s \o u, h)
    OBVIOUS
  <2>5. N(s) \o Append(N(u), h) = Append(N(s) \o N(u), h)
    <3>. HIDE DEF N
    <3>. QED
      BY <1>0, <2>1
  <2>6. N(s \o u) = N(s) \o N(u)
    BY <1>2
  <2>. HIDE DEF N
  <2>7. N(s \o Append(u, h)) = N(s) \o N(Append(u, h))
    BY <2>2, <2>3, <2>4, <2>5, <2>6, Zenon
  <2>. QED
    BY <2>1, <2>7
<1>3. t \in T
  <2>. HIDE DEF T
  <2>. QED
    BY <1>1, <1>2, HeadersInduction
<1>. QED
  BY <1>3

LEMMA NamesAppend ==
  ASSUME NEW s \in Seq(HeaderLines), NEW h \in HeaderLines
  PROVE  Message!Names(Append(s, h)) = Message!Names(s) \cup {h.name}
<1>1. /\ Len(s) \in Nat /\ DOMAIN Append(s, h) = 1..Len(s) + 1 /\ DOMAIN s = 1..Len(s)
      /\ Append(s, h)[Len(s) + 1] = h /\ \A i \in 1..Len(s) : Append(s, h)[i] = s[i]
  OBVIOUS
<1>2. \A i \in 1..Len(s) + 1 : i \in 1..Len(s) \/ i = Len(s) + 1
  BY <1>1
<1>3. 1..Len(s) \subseteq 1..Len(s) + 1 /\ Len(s) + 1 \in 1..Len(s) + 1
  BY <1>1
<1>. QED
  BY <1>1, <1>2, <1>3 DEF Message!Names

LEMMA NamedPresent ==
  ASSUME NEW name, NEW s \in Seq(HeaderLines)
  PROVE  name \in Message!Names(s) <=> Message!Named(name, s) # <<>>
<1>. DEFINE T == {u \in Seq(HeaderLines) :
                    name \in Message!Names(u) <=> Message!Named(name, u) # <<>>}
<1>1. <<>> \in T
  <2>1. Message!Names(<<>>) = {}
    BY DEF Message!Names
  <2>. QED
    BY <2>1, EmptySeq, NamedNothing
<1>2. ASSUME NEW u \in Seq(HeaderLines), NEW h \in HeaderLines, u \in T
      PROVE  Append(u, h) \in T
  <2>1. Append(u, h) \in Seq(HeaderLines) /\ Message!Named(name, u) \in Seq(HeaderLines)
    BY NamedType
  <2>2. Append(Message!Named(name, u), h) # <<>>
    <3>. DEFINE w == Message!Named(name, u)
    <3>1. w \in Seq(HeaderLines)
      BY <2>1
    <3>. HIDE DEF w
    <3>2. Append(w, h) # <<>>
      BY ONLY <3>1, h \in HeaderLines
    <3>. QED
      BY <3>2 DEF w
  <2>3. /\ Message!Names(Append(u, h)) = Message!Names(u) \cup {h.name}
        /\ Message!Named(name, Append(u, h)) =
             IF h.name = name THEN Append(Message!Named(name, u), h)
             ELSE Message!Named(name, u)
    BY NamesAppend, NamedAppend
  <2>4. name \in Message!Names(u) <=> Message!Named(name, u) # <<>>
    BY <1>2
  <2>. QED
    BY <2>1, <2>2, <2>3, <2>4
<1>3. s \in T
  <2>. HIDE DEF T
  <2>. QED
    BY <1>1, <1>2, HeadersInduction
<1>. QED
  BY <1>3

\* The headers of a name among those at some places.
LEMMA NamedAt ==
  ASSUME NEW name, NEW places, NEW s \in Seq(HeaderLines)
  PROVE  Message!Named(name, Message!At(places, s)) =
           Message!At({i \in DOMAIN s : i \in places /\ s[i].name = name}, s)
<1>. DEFINE Both(u) == {i \in DOMAIN u : i \in places /\ u[i].name = name}
            T == {u \in Seq(HeaderLines) :
                    Message!Named(name, Message!At(places, u)) = Message!At(Both(u), u)}
<1>1. <<>> \in T
  BY EmptySeq, AtEmpty, NamedNothing
<1>2. ASSUME NEW u \in Seq(HeaderLines), NEW h \in HeaderLines, u \in T
      PROVE  Append(u, h) \in T
  <2>. DEFINE t == Append(u, h)
              a == Message!At(places, u)
  <2>1. /\ t \in Seq(HeaderLines) /\ Len(u) \in Nat /\ DOMAIN t = 1..Len(u) + 1
        /\ DOMAIN u = 1..Len(u) /\ t[Len(u) + 1] = h /\ \A i \in 1..Len(u) : t[i] = u[i]
    OBVIOUS
  <2>2. a \in Seq(HeaderLines)
    BY AtType
  <2>3. Message!At(places, t) = IF Len(u) + 1 \in places THEN Append(a, h) ELSE a
    BY AtAppendSame, Zenon
  <2>4. Message!Named(name, Append(a, h)) =
          IF h.name = name THEN Append(Message!Named(name, a), h) ELSE Message!Named(name, a)
    BY <2>2, NamedAppend
  <2>5. \A i \in 1..Len(u) : i \in Both(t) <=> i \in Both(u)
    BY <2>1
  <2>6. Len(u) + 1 \in Both(t) <=> Len(u) + 1 \in places /\ h.name = name
    BY <2>1
  <2>7. Message!Named(name, a) = Message!At(Both(u), u)
    BY <1>2
  <2>. HIDE DEF Both
  <2>8. Message!At(Both(t), t) =
          IF Len(u) + 1 \in Both(t) THEN Append(Message!At(Both(u), u), h)
          ELSE Message!At(Both(u), u)
    BY <2>5, AtAppend
  <2>9. Message!Named(name, Message!At(places, t)) = Message!At(Both(t), t)
    BY <2>3, <2>4, <2>6, <2>7, <2>8
  <2>. QED
    BY <2>1, <2>9
<1>3. s \in T
  <2>. HIDE DEF T
  <2>. QED
    BY <1>1, <1>2, HeadersInduction
<1>. QED
  BY <1>3

LEMMA NamedOnly ==
  ASSUME NEW name, NEW names, NEW s \in Seq(HeaderLines)
  PROVE  Message!Named(name, Message!Only(names, s)) =
           IF name \in names THEN Message!Named(name, s) ELSE <<>>
<1>. DEFINE places == {i \in DOMAIN s : s[i].name \in names}
            both == {i \in DOMAIN s : i \in places /\ s[i].name = name}
            all == {i \in DOMAIN s : s[i].name \in {name}}
<1>1. Message!Named(name, Message!Only(names, s)) = Message!At(both, s)
  BY NamedAt DEF Message!Only
<1>2. CASE name \in names
  <2>1. both = all
    BY <1>2
  <2>. QED
    BY <1>1, <1>2, <2>1 DEF Message!Named, Message!Only
<1>3. CASE name \notin names
  <2>1. \A i \in 1..Len(s) : i \notin both
    BY <1>3
  <2>. HIDE DEF both
  <2>. QED
    BY <1>1, <1>3, <2>1, AtNone
<1>. QED
  BY <1>2, <1>3

LEMMA NamedWithout ==
  ASSUME NEW name, NEW names, NEW s \in Seq(HeaderLines)
  PROVE  Message!Named(name, Message!Without(names, s)) =
           IF name \in names THEN <<>> ELSE Message!Named(name, s)
<1>. DEFINE places == {i \in DOMAIN s : s[i].name \notin names}
            both == {i \in DOMAIN s : i \in places /\ s[i].name = name}
            all == {i \in DOMAIN s : s[i].name \in {name}}
<1>1. Message!Named(name, Message!Without(names, s)) = Message!At(both, s)
  BY NamedAt DEF Message!Without
<1>2. CASE name \notin names
  <2>1. both = all
    BY <1>2
  <2>. QED
    BY <1>1, <1>2, <2>1 DEF Message!Named, Message!Only
<1>3. CASE name \in names
  <2>1. \A i \in 1..Len(s) : i \notin both
    BY <1>3
  <2>. HIDE DEF both
  <2>. QED
    BY <1>1, <1>3, <2>1, AtNone
<1>. QED
  BY <1>2, <1>3

\* A header is among those of its name.
LEMMA InNamed ==
  ASSUME NEW s \in Seq(HeaderLines), NEW k \in 1..Len(s)
  PROVE  \E i \in DOMAIN Message!Named(s[k].name, s) :
           Message!Named(s[k].name, s)[i] = s[k]
<1>. DEFINE In(u, j) == \E i \in DOMAIN Message!Named(u[j].name, u) :
                          Message!Named(u[j].name, u)[i] = u[j]
            T == {u \in Seq(HeaderLines) : \A j \in 1..Len(u) : In(u, j)}
<1>1. <<>> \in T
  BY EmptySeq
<1>2. ASSUME NEW u \in Seq(HeaderLines), NEW h \in HeaderLines, u \in T,
             NEW j \in 1..Len(Append(u, h))
      PROVE  In(Append(u, h), j)
  <2>. DEFINE t == Append(u, h)
              n == t[j].name
              v == Message!Named(n, u)
  <2>1. /\ Len(u) \in Nat /\ j \in 1..Len(u) + 1 /\ t[Len(u) + 1] = h
        /\ \A i \in 1..Len(u) : t[i] = u[i]
    OBVIOUS
  <2>2. v \in Seq(HeaderLines)
    BY NamedType
  <2>3. Message!Named(n, t) = IF h.name = n THEN Append(v, h) ELSE v
    BY NamedAppend
  <2>4. CASE j = Len(u) + 1
    <3>1. t[j] = h /\ h.name = n
      BY <2>1, <2>4
    <3>2. Len(v) + 1 \in DOMAIN Append(v, h) /\ Append(v, h)[Len(v) + 1] = h
      <4>. HIDE DEF v
      <4>. QED
        BY <2>2
    <3>. HIDE DEF v
    <3>. QED
      BY <2>3, <3>1, <3>2
  <2>5. CASE j # Len(u) + 1
    <3>1. j \in 1..Len(u) /\ t[j] = u[j]
      BY <2>1, <2>5
    <3>2. PICK i \in DOMAIN v : v[i] = u[j]
      BY <1>2, <3>1
    <3>3. i \in DOMAIN Append(v, h) /\ Append(v, h)[i] = v[i]
      <4>. HIDE DEF v
      <4>. QED
        BY <2>2, <3>2
    <3>. HIDE DEF v
    <3>. QED
      BY <2>3, <3>1, <3>2, <3>3
  <2>. QED
    BY <2>4, <2>5
<1>3. \A u \in Seq(HeaderLines) : \A h \in HeaderLines : u \in T => Append(u, h) \in T
  <2>. HIDE DEF In
  <2>. QED
    BY <1>2, AppendProperties
<1>4. s \in T
  <2>. HIDE DEF T
  <2>. QED
    BY <1>1, <1>3, HeadersInduction
<1>. QED
  BY <1>4

LEMMA FirstPlace ==
  ASSUME NEW s \in Seq(HeaderLines), NEW name \in Message!Names(s)
  PROVE  \E k \in 1..Len(s) :
           s[k].name = name /\ \A j \in 1..Len(s) : s[j].name = name => k <= j
<1>. DEFINE P == {i \in 1..Len(s) : s[i].name = name}
<1>1. P \subseteq Nat /\ P # {}
  BY DEF Message!Names
<1>2. PICK k \in P : \A j \in P : k <= j
  BY <1>1, LeastExists
<1>. QED
  BY <1>2

LEMMA LastPlace ==
  ASSUME NEW s \in Seq(HeaderLines), NEW name \in Message!Names(s)
  PROVE  \E k \in 1..Len(s) :
           s[k].name = name /\ \A j \in 1..Len(s) : s[j].name = name => j <= k
<1>. DEFINE n == Len(s)
            P == {d \in 0..n : n - d \in 1..n /\ s[n - d].name = name}
<1>0. n \in Nat
  OBVIOUS
<1>1. P \subseteq Nat /\ P # {}
  <2>1. PICK i \in 1..n : s[i].name = name
    BY DEF Message!Names
  <2>2. n - i \in 0..n /\ n - (n - i) = i
    <3>. HIDE DEF n
    <3>. QED
      BY <1>0
  <2>3. n - i \in P
    BY <2>1, <2>2
  <2>4. P \subseteq Nat
    OBVIOUS
  <2>. HIDE DEF P
  <2>. QED
    BY <2>3, <2>4
<1>2. PICK d \in P : \A e \in P : d <= e
  BY <1>1, LeastExists
<1>3. n - d \in 1..n /\ s[n - d].name = name /\ d \in 0..n
  BY <1>2
<1>4. ASSUME NEW j \in 1..n, s[j].name = name PROVE j <= n - d
  <2>1. n - j \in 0..n /\ n - (n - j) = j
    BY <1>0
  <2>2. n - j \in P
    BY <1>4, <2>1
  <2>3. d <= n - j
    BY <1>2, <2>2
  <2>. HIDE DEF n
  <2>. QED
    BY <1>0, <1>3, <2>3
<1>. QED
  BY <1>3, <1>4

\* One header is left of each name.
LEMMA NamedLasts ==
  ASSUME NEW name, NEW s \in Seq(HeaderLines)
  PROVE  /\ name \notin Message!Names(s) => Message!Named(name, Message!Lasts(s)) = <<>>
         /\ name \in Message!Names(s) =>
              \E k \in 1..Len(s) :
                s[k].name = name /\ Message!Named(name, Message!Lasts(s)) = <<s[k]>>
<1>. DEFINE places == {i \in DOMAIN s :
                         \A j \in DOMAIN s : s[j].name = s[i].name => j <= i}
            both == {i \in DOMAIN s : i \in places /\ s[i].name = name}
<1>1. Message!Named(name, Message!Lasts(s)) = Message!At(both, s)
  BY NamedAt DEF Message!Lasts
<1>2. CASE name \notin Message!Names(s)
  <2>1. \A i \in 1..Len(s) : i \notin both
    BY <1>2 DEF Message!Names
  <2>. HIDE DEF both
  <2>. QED
    BY <1>1, <1>2, <2>1, AtNone
<1>3. CASE name \in Message!Names(s)
  <2>1. PICK k \in 1..Len(s) :
               s[k].name = name /\ \A j \in 1..Len(s) : s[j].name = name => j <= k
    BY <1>3, LastPlace
  <2>2. both = {k}
    BY <2>1
  <2>3. Message!At({k}, s) = <<s[k]>>
    BY AtOne
  <2>. HIDE DEF both
  <2>. QED
    BY <1>1, <1>3, <2>1, <2>2, <2>3
<1>. QED
  BY <1>2, <1>3

LEMMA NamedFirsts ==
  ASSUME NEW name, NEW s \in Seq(HeaderLines)
  PROVE  /\ name \notin Message!Names(s) => Message!Named(name, Message!Firsts(s)) = <<>>
         /\ name \in Message!Names(s) =>
              \E k \in 1..Len(s) :
                s[k].name = name /\ Message!Named(name, Message!Firsts(s)) = <<s[k]>>
<1>. DEFINE places == {i \in DOMAIN s :
                         \A j \in DOMAIN s : s[j].name = s[i].name => i <= j}
            both == {i \in DOMAIN s : i \in places /\ s[i].name = name}
<1>1. Message!Named(name, Message!Firsts(s)) = Message!At(both, s)
  BY NamedAt DEF Message!Firsts
<1>2. CASE name \notin Message!Names(s)
  <2>1. \A i \in 1..Len(s) : i \notin both
    BY <1>2 DEF Message!Names
  <2>. HIDE DEF both
  <2>. QED
    BY <1>1, <1>2, <2>1, AtNone
<1>3. CASE name \in Message!Names(s)
  <2>1. PICK k \in 1..Len(s) :
               s[k].name = name /\ \A j \in 1..Len(s) : s[j].name = name => k <= j
    BY <1>3, FirstPlace
  <2>2. both = {k}
    BY <2>1
  <2>3. Message!At({k}, s) = <<s[k]>>
    BY AtOne
  <2>. HIDE DEF both
  <2>. QED
    BY <1>1, <1>3, <2>1, <2>2, <2>3
<1>. QED
  BY <1>2, <1>3

-----------------------------------------------------------------------------
(* The messages of the backends.                                           *)

MessageTypeOK ==
  /\ defaults \in Seq(HeaderLines) /\ request.headers \in Seq(HeaderLines)
  /\ request.body \in MessageBodies

\* A header the request gives, or else the client.
WantedLines(name) ==
  IF name \in Message!Names(request.headers) THEN Message!Named(name, request.headers)
  ELSE Message!Named(name, defaults)

LEMMA BodyKinds ==
  ASSUME MessageTypeOK
  PROVE  /\ Message!MediaType \in HeaderLines /\ Message!MediaType.name = "content-type"
         /\ Message!MediaType.value = request.body.type
         /\ ~Message!HasBody => request.body.kind = "none" /\ ~request.body.streams
         /\ Message!HasBody =>
              request.body.kind \in {"bytes", "form", "stream", "multipart"}
         /\ request.body.kind = "stream" => request.body.streams
<1>1. /\ request.body.type \in STRING
      /\ request.body.kind \in {"bytes", "form", "stream", "multipart"}
           \/ request.body = Message!NoBody
      /\ request.body.kind = "stream" => request.body.streams
  BY ExchangesAssumption DEF MessageTypeOK
<1>2. Message!MediaType =
        [name |-> "content-type", case |-> "lower", value |-> request.body.type]
  BY DEF Message!MediaType, Message!Line
<1>3. /\ Message!MediaType \in HeaderLines /\ Message!MediaType.name = "content-type"
      /\ Message!MediaType.value = request.body.type
  <2>. DEFINE type == request.body.type
  <2>1. type \in Texts
    BY <1>1 DEF Texts
  <2>2. Message!MediaType = [name |-> "content-type", case |-> "lower", value |-> type]
    BY <1>2
  <2>. HIDE DEF type
  <2>3. Message!MediaType.value = type /\ Message!MediaType.name = "content-type"
    BY <2>2
  <2>4. Message!MediaType \in HeaderLines
    <3>1. [name |-> "content-type", case |-> "lower", value |-> type] \in HeaderLines
      <4>1. "content-type" \in Texts /\ "lower" \in Texts
        BY DEF Texts
      <4>. QED
        BY <2>1, <4>1 DEF HeaderLines
    <3>. QED
      BY <2>2, <3>1, Zenon
  <2>. QED
    BY <2>3, <2>4 DEF type
<1>4. ~Message!HasBody => request.body.kind = "none" /\ ~request.body.streams
  <2>1. /\ Message!NoBody.kind = "none" /\ Message!NoBody.streams = FALSE
        /\ ~Message!HasBody => request.body = Message!NoBody
    BY DEF Message!HasBody, Message!NoBody
  <2>. QED
    BY <2>1, Zenon
<1>5. Message!HasBody => request.body # Message!NoBody
  BY DEF Message!HasBody
<1>. QED
  BY <1>1, <1>3, <1>4, <1>5

LEMMA NamedVacant ==
  ASSUME MessageTypeOK, NEW name, NEW s
  PROVE  /\ Message!Vacant(s) \in Seq(HeaderLines)
         /\ Message!Named(name, Message!Vacant(s)) =
              IF name \in Message!Names(s) THEN <<>> ELSE Message!Named(name, defaults)
<1>1. defaults \in Seq(HeaderLines)
  BY DEF MessageTypeOK
<1>2. Message!Without(Message!Names(s), defaults) \in Seq(HeaderLines)
  BY <1>1, AtType DEF Message!Without
<1>. QED
  BY <1>1, <1>2, NamedWithout DEF Message!Vacant

LEMMA NamedIf ==
  ASSUME NEW condition, NEW name, NEW s \in Seq(HeaderLines)
  PROVE  /\ Message!If(condition, s) \in Seq(HeaderLines)
         /\ Message!Named(name, Message!If(condition, s)) =
              IF condition THEN Message!Named(name, s) ELSE <<>>
<1>1. <<>> \in Seq(HeaderLines)
  BY EmptySeq
<1>. QED
  BY <1>1, NamedNothing DEF Message!If

\* A line that is added on a condition.
LEMMA NamedIfLine ==
  ASSUME NEW condition, NEW name, NEW h \in HeaderLines
  PROVE  /\ Message!If(condition, <<h>>) \in Seq(HeaderLines)
         /\ Message!Named(name, Message!If(condition, <<h>>)) =
              IF condition /\ h.name = name THEN <<h>> ELSE <<>>
<1>1. <<h>> \in Seq(HeaderLines)
  OBVIOUS
<1>2. /\ Message!If(condition, <<h>>) \in Seq(HeaderLines)
      /\ Message!Named(name, Message!If(condition, <<h>>)) =
           IF condition THEN Message!Named(name, <<h>>) ELSE <<>>
  <2>. DEFINE s == <<h>>
  <2>1. s \in Seq(HeaderLines)
    BY <1>1
  <2>. HIDE DEF s
  <2>2. /\ Message!If(condition, s) \in Seq(HeaderLines)
        /\ Message!Named(name, Message!If(condition, s)) =
             IF condition THEN Message!Named(name, s) ELSE <<>>
    BY ONLY <2>1, NamedIf
  <2>. QED
    BY <2>2 DEF s
<1>3. Message!Named(name, <<h>>) = IF h.name = name THEN <<h>> ELSE <<>>
  BY NamedOne
<1>. QED
  BY <1>2, <1>3

LEMMA NamedSet ==
  ASSUME NEW name, NEW s \in Seq(HeaderLines), NEW k \in 1..Len(s), s[k].name = name
  PROVE  s[k] \in Message!ToSet(Message!Named(name, s))
<1>1. PICK i \in DOMAIN Message!Named(s[k].name, s) :
             Message!Named(s[k].name, s)[i] = s[k]
  BY InNamed
<1>. QED
  BY <1>1 DEF Message!ToSet

LEMMA SameValues ==
  ASSUME NEW name, NEW s, NEW t, Message!Named(name, s) = Message!Named(name, t)
  PROVE  Message!Values(name, s) = Message!Values(name, t)
  BY Zenon DEF Message!Values

LEMMA ValuesSet ==
  ASSUME NEW name, NEW s
  PROVE  Message!ToSet(Message!Values(name, s)) =
           {h.value : h \in Message!ToSet(Message!Named(name, s))}
  BY DEF Message!Values, Message!ToSet

LEMMA OneValue ==
  ASSUME NEW name, NEW s, NEW h, Message!Named(name, s) = <<h>>
  PROVE  Message!Values(name, s) = <<h.value>>
  BY DEF Message!Values

LEMMA ToSetConcat ==
  ASSUME NEW s \in Seq(HeaderLines), NEW t \in Seq(HeaderLines)
  PROVE  Message!ToSet(s) \subseteq Message!ToSet(s \o t)
         /\ Message!ToSet(t) \subseteq Message!ToSet(s \o t)
<1>1. /\ Len(s) \in Nat /\ Len(t) \in Nat /\ DOMAIN (s \o t) = 1..Len(s) + Len(t)
      /\ DOMAIN s = 1..Len(s) /\ DOMAIN t = 1..Len(t)
      /\ \A i \in 1..Len(s) : (s \o t)[i] = s[i]
      /\ \A i \in 1..Len(t) : (s \o t)[Len(s) + i] = t[i]
  OBVIOUS
<1>2. ASSUME NEW i \in 1..Len(s) PROVE s[i] \in Message!ToSet(s \o t)
  <2>1. i \in 1..Len(s) + Len(t)
    BY <1>1
  <2>. QED
    BY <1>1, <2>1 DEF Message!ToSet
<1>3. ASSUME NEW i \in 1..Len(t) PROVE t[i] \in Message!ToSet(s \o t)
  <2>1. Len(s) + i \in 1..Len(s) + Len(t)
    BY <1>1
  <2>. QED
    BY <1>1, <2>1 DEF Message!ToSet
<1>. QED
  BY <1>1, <1>2, <1>3 DEF Message!ToSet

LEMMA WantedValues ==
  ASSUME NEW name
  PROVE  /\ \A s : Message!Named(name, s) = WantedLines(name)
                     => Message!Values(name, s) = Message!Wanted(name)
         /\ Message!ToSet(Message!Wanted(name)) =
              {h.value : h \in Message!ToSet(WantedLines(name))}
  BY SameValues, ValuesSet DEF WantedLines, Message!Wanted

\* What the property asks of the lines of a name, in terms of lines.
LEMMA LinesAreValues ==
  ASSUME NEW name, NEW s,
         \/ name = "content-type" /\ Message!HasBody
         \/ name \in Message!FramingNames /\ request.body.streams
         \/ /\ backend = "winrt" /\ name \in Message!ContentRelated
            /\ Message!HasBody =>
                 Message!ToSet(WantedLines(name)) \subseteq Message!ToSet(Message!Named(name, s))
         \/ /\ Message!KeepsOne(name)
            /\ \E h \in Message!ToSet(WantedLines(name)) : Message!Named(name, s) = <<h>>
         \/ Message!Named(name, s) = WantedLines(name)
  PROVE  \/ name = "content-type" /\ Message!HasBody
         \/ name \in Message!FramingNames /\ request.body.streams
         \/ /\ backend = "winrt" /\ name \in Message!ContentRelated
            /\ Message!HasBody =>
                 Message!ToSet(Message!Wanted(name)) \subseteq Message!ToSet(Message!Values(name, s))
         \/ /\ Message!KeepsOne(name)
            /\ \E value \in Message!ToSet(Message!Wanted(name)) : Message!Values(name, s) = <<value>>
         \/ Message!Values(name, s) = Message!Wanted(name)
<1>1. Message!ToSet(Message!Wanted(name)) =
        {h.value : h \in Message!ToSet(WantedLines(name))}
  BY WantedValues
<1>2. Message!ToSet(Message!Values(name, s)) =
        {h.value : h \in Message!ToSet(Message!Named(name, s))}
  BY ValuesSet
<1>3. ASSUME Message!ToSet(WantedLines(name)) \subseteq Message!ToSet(Message!Named(name, s))
      PROVE  Message!ToSet(Message!Wanted(name)) \subseteq Message!ToSet(Message!Values(name, s))
  BY <1>1, <1>2, <1>3
<1>4. ASSUME NEW h \in Message!ToSet(WantedLines(name)), Message!Named(name, s) = <<h>>
      PROVE  \E value \in Message!ToSet(Message!Wanted(name)) : Message!Values(name, s) = <<value>>
  <2>1. Message!Values(name, s) = <<h.value>>
    BY <1>4, OneValue
  <2>2. h.value \in Message!ToSet(Message!Wanted(name))
    BY <1>1
  <2>. QED
    BY <2>1, <2>2
<1>5. ASSUME Message!Named(name, s) = WantedLines(name)
      PROVE  Message!Values(name, s) = Message!Wanted(name)
  BY <1>5, WantedValues
<1>. QED
  BY <1>3, <1>4, <1>5, Zenon

-----------------------------------------------------------------------------

\* The lines a backend sends: those of every name, and the body's media type.
LinesOf(name, s) ==
  \/ name = "content-type" /\ Message!HasBody
  \/ name \in Message!FramingNames /\ request.body.streams
  \/ /\ backend = "winrt" /\ name \in Message!ContentRelated
     /\ Message!HasBody =>
          Message!ToSet(WantedLines(name)) \subseteq Message!ToSet(Message!Named(name, s))
  \/ /\ Message!KeepsOne(name)
     /\ \E h \in Message!ToSet(WantedLines(name)) : Message!Named(name, s) = <<h>>
  \/ Message!Named(name, s) = WantedLines(name)

TypeOf(s) ==
  Message!HasBody =>
    \/ Message!MediaType \in Message!ToSet(Message!Named("content-type", s))
    \/ Message!Named("content-type", s) = Message!Named("content-type", request.headers)
    \/ backend = "curl" /\ Message!Named("content-type", s) = WantedLines("content-type")

\* A list in three parts.
LEMMA NamedThree ==
  ASSUME NEW name, NEW s \in Seq(HeaderLines), NEW t \in Seq(HeaderLines),
         NEW u \in Seq(HeaderLines)
  PROVE  /\ (s \o t) \o u \in Seq(HeaderLines)
         /\ Message!Named(name, (s \o t) \o u) =
              (Message!Named(name, s) \o Message!Named(name, t)) \o Message!Named(name, u)
<1>1. s \o t \in Seq(HeaderLines)
  BY ConcatProperties
<1>2. (s \o t) \o u \in Seq(HeaderLines)
  BY <1>1, ConcatProperties
<1>3. /\ Message!Named(name, s \o t) = Message!Named(name, s) \o Message!Named(name, t)
      /\ Message!Named(name, (s \o t) \o u) =
           Message!Named(name, s \o t) \o Message!Named(name, u)
  BY <1>1, NamedConcat, Zenon
<1>. QED
  BY <1>2, <1>3, Zenon

LEMMA InFour ==
  ASSUME NEW s \in Seq(HeaderLines), NEW t \in Seq(HeaderLines),
         NEW u \in Seq(HeaderLines), NEW v \in Seq(HeaderLines), NEW h,
         \/ h \in Message!ToSet(s) \/ h \in Message!ToSet(t)
         \/ h \in Message!ToSet(u) \/ h \in Message!ToSet(v)
  PROVE  h \in Message!ToSet(((s \o t) \o u) \o v)
<1>1. s \o t \in Seq(HeaderLines)
  BY ConcatProperties
<1>2. (s \o t) \o u \in Seq(HeaderLines)
  BY <1>1, ConcatProperties
<1>. QED
  BY <1>1, <1>2, ToSetConcat

LEMMA ToSetOne == ASSUME NEW h PROVE h \in Message!ToSet(<<h>>)
  BY DEF Message!ToSet

LEMMA Concats ==
  ASSUME NEW s \in Seq(HeaderLines)
  PROVE  /\ s \o <<>> = s /\ <<>> \o s = s /\ ((s \o <<>>) \o <<>>) \o <<>> = s
         /\ ((<<>> \o s) \o <<>>) \o <<>> = s /\ ((<<>> \o <<>>) \o s) \o <<>> = s
         /\ ((<<>> \o <<>>) \o <<>>) \o s = s /\ <<>> \o <<>> = <<>>
<1>1. /\ s \o <<>> = s /\ <<>> \o s = s
  BY ConcatEmptySeq
<1>2. <<>> \in Seq(HeaderLines)
  BY EmptySeq
<1>3. <<>> \o <<>> = <<>>
  BY <1>2, ConcatEmptySeq
<1>. QED
  BY <1>1, <1>3

LEMMA CurlLines ==
  ASSUME MessageTypeOK, backend = "curl", NEW name
  PROVE  LinesOf(name, Message!CurlHeaders) /\ TypeOf(Message!CurlHeaders)
<1>. DEFINE q == request.headers
            m == Message!MediaType
            c == request.body.kind \in {"bytes", "stream"}
            e == request.body.kind \in {"form", "multipart"}
                   /\ "content-type" \notin Message!Names(q \o defaults)
            v == Message!Vacant(q)
            x == Message!If(c, <<m>>)
            y == Message!If(e, <<m>>)
            all == ((v \o q) \o x) \o y
            N(n, s) == Message!Named(n, s)
<1>1. Message!CurlHeaders = all
  BY DEF Message!CurlHeaders
<1>2. m \in HeaderLines /\ m.name = "content-type"
  BY BodyKinds
<1>3. q \in Seq(HeaderLines) /\ defaults \in Seq(HeaderLines)
  BY DEF MessageTypeOK
<1>4. v \in Seq(HeaderLines) /\ x \in Seq(HeaderLines) /\ y \in Seq(HeaderLines)
  BY <1>2, NamedVacant, NamedIfLine
<1>5. ASSUME NEW n
      PROVE  N(n, all) = ((N(n, v) \o N(n, q)) \o N(n, x)) \o N(n, y)
  <2>. HIDE DEF c, e, v, x, y, m, q
  <2>1. /\ (v \o q) \o x \in Seq(HeaderLines)
        /\ N(n, (v \o q) \o x) = (N(n, v) \o N(n, q)) \o N(n, x)
    <3>1. v \in Seq(HeaderLines) /\ q \in Seq(HeaderLines) /\ x \in Seq(HeaderLines)
      BY <1>3, <1>4
    <3>. QED
      BY ONLY <3>1, NamedThree
  <2>2. N(n, all) = N(n, (v \o q) \o x) \o N(n, y)
    BY <1>4, <2>1, NamedConcat
  <2>. QED
    BY <2>1, <2>2, Zenon
<1>6. \A n : N(n, q) \in Seq(HeaderLines) /\ N(n, defaults) \in Seq(HeaderLines)
  BY <1>3, NamedType
<1>7. \A n : N(n, v) = IF n \in Message!Names(q) THEN <<>> ELSE N(n, defaults)
  BY NamedVacant
<1>8. \A n : n \notin Message!Names(q) => N(n, q) = <<>>
  BY <1>3, NamedPresent
<1>9. \A n : /\ N(n, x) = IF c /\ m.name = n THEN <<m>> ELSE <<>>
             /\ N(n, y) = IF e /\ m.name = n THEN <<m>> ELSE <<>>
  BY <1>2, NamedIfLine
<1>10. ~Message!HasBody => ~c /\ ~e
  BY BodyKinds
<1>. HIDE DEF c, e, v, x, y, m, q
<1>11. ASSUME NEW n, N(n, x) = <<>>, N(n, y) = <<>>
       PROVE  N(n, all) = IF n \in Message!Names(q) THEN N(n, q) ELSE N(n, defaults)
  <2>1. N(n, all) = ((N(n, v) \o N(n, q)) \o <<>>) \o <<>>
    BY <1>5, <1>11
  <2>. HIDE DEF N
  <2>2. CASE n \in Message!Names(q)
    <3>1. ((<<>> \o N(n, q)) \o <<>>) \o <<>> = N(n, q)
      BY <1>6, Concats
    <3>. QED
      BY <1>7, <2>1, <2>2, <3>1
  <2>3. CASE n \notin Message!Names(q)
    <3>1. ((N(n, defaults) \o <<>>) \o <<>>) \o <<>> = N(n, defaults)
      BY <1>6, Concats
    <3>. QED
      BY <1>7, <1>8, <2>1, <2>3, <3>1
  <2>. QED
    BY <2>2, <2>3
<1>12. LinesOf(name, all)
  <2>1. CASE name = "content-type" /\ Message!HasBody
    BY <2>1 DEF LinesOf
  <2>2. CASE ~(name = "content-type" /\ Message!HasBody)
    <3>1. N(name, x) = <<>> /\ N(name, y) = <<>>
      BY <1>2, <1>9, <1>10, <2>2
    <3>. QED
      BY <1>11, <3>1 DEF LinesOf, WantedLines, q
  <2>. QED
    BY <2>1, <2>2
<1>13. TypeOf(all)
  <2>1. CASE c \/ e
    <3>1. m \in Message!ToSet(x) \/ m \in Message!ToSet(y)
      BY <2>1, ToSetOne DEF x, y, Message!If
    <3>2. m \in Message!ToSet(all)
      BY <1>3, <1>4, <3>1, InFour
    <3>3. all \in Seq(HeaderLines)
      BY <1>3, <1>4, ConcatProperties
    <3>4. m \in Message!ToSet(N("content-type", all))
      <4>1. PICK k \in 1..Len(all) : all[k] = m
        BY <3>2, <3>3 DEF Message!ToSet
      <4>. QED
        BY <1>2, <3>3, <4>1, NamedSet
    <3>. QED
      BY <3>4 DEF TypeOf, m
  <2>2. CASE ~(c \/ e)
    <3>1. N("content-type", x) = <<>> /\ N("content-type", y) = <<>>
      BY <1>9, <2>2
    <3>. QED
      BY <1>11, <3>1 DEF TypeOf, WantedLines, q
  <2>. QED
    BY <2>1, <2>2
<1>. QED
  BY <1>1, <1>12, <1>13

\* The value of a body's media type is among the lines if the line is.
LEMMA TypeIsIn ==
  ASSUME MessageTypeOK, NEW s \in Seq(HeaderLines), Message!MediaType \in Message!ToSet(s)
  PROVE  Message!MediaType \in Message!ToSet(Message!Named("content-type", s))
<1>1. PICK k \in 1..Len(s) : s[k] = Message!MediaType
  BY DEF Message!ToSet
<1>. QED
  BY <1>1, BodyKinds, NamedSet

LEMMA FramingLines ==
  ASSUME MessageTypeOK, NEW name
  PROVE  /\ Message!Framing \in Seq(HeaderLines)
         /\ name \notin Message!FramingNames \/ ~request.body.streams
              => Message!Named(name, Message!Framing) = <<>>
<1>. DEFINE l == Message!Line("content-length", "its length")
            c == Message!Line("transfer-encoding", "chunked")
<1>1. /\ l.name = "content-length" /\ c.name = "transfer-encoding"
      /\ l \in HeaderLines /\ c \in HeaderLines
  <2>1. {"content-length", "its length", "transfer-encoding", "chunked", "lower"}
          \subseteq Texts
    BY DEF Texts
  <2>. QED
    BY <2>1 DEF Message!Line, HeaderLines
<1>. HIDE DEF l, c
<1>2. \/ Message!Framing = <<>>
      \/ request.body.streams
           /\ Message!Framing = Message!If("content-length" \notin Message!Names(request.headers), <<l>>)
      \/ request.body.streams
           /\ Message!Framing = Message!If("transfer-encoding" \notin Message!Names(request.headers), <<c>>)
  BY DEF Message!Framing, l, c
<1>3. CASE Message!Framing = <<>>
  BY <1>3, EmptySeq, NamedNothing
<1>4. CASE request.body.streams
             /\ Message!Framing = Message!If("content-length" \notin Message!Names(request.headers), <<l>>)
  BY <1>1, <1>4, NamedIfLine DEF Message!FramingNames
<1>5. CASE request.body.streams
             /\ Message!Framing = Message!If("transfer-encoding" \notin Message!Names(request.headers), <<c>>)
  BY <1>1, <1>5, NamedIfLine DEF Message!FramingNames
<1>. QED
  BY <1>2, <1>3, <1>4, <1>5

LEMMA WinHttpLines ==
  ASSUME MessageTypeOK, backend = "winhttp", NEW name
  PROVE  LinesOf(name, Message!WinHttpHeaders) /\ TypeOf(Message!WinHttpHeaders)
<1>. DEFINE q == request.headers
            m == Message!MediaType
            c == Message!HasBody /\ "content-type" \notin Message!Names(q)
            x == Message!If(c, <<m>>)
            y == Message!Framing
            v == Message!Vacant(q)
            all == ((q \o x) \o y) \o v
            N(n, s) == Message!Named(n, s)
<1>1. Message!WinHttpHeaders = all
  BY DEF Message!WinHttpHeaders
<1>2. m \in HeaderLines /\ m.name = "content-type"
  BY BodyKinds
<1>3. q \in Seq(HeaderLines) /\ defaults \in Seq(HeaderLines)
  BY DEF MessageTypeOK
<1>4. v \in Seq(HeaderLines) /\ x \in Seq(HeaderLines) /\ y \in Seq(HeaderLines)
  BY <1>2, NamedVacant, NamedIfLine, FramingLines
<1>5. ASSUME NEW n
      PROVE  N(n, all) = ((N(n, q) \o N(n, x)) \o N(n, y)) \o N(n, v)
  <2>. HIDE DEF c, v, x, y, m, q
  <2>1. /\ (q \o x) \o y \in Seq(HeaderLines)
        /\ N(n, (q \o x) \o y) = (N(n, q) \o N(n, x)) \o N(n, y)
    <3>1. q \in Seq(HeaderLines) /\ x \in Seq(HeaderLines) /\ y \in Seq(HeaderLines)
      BY <1>3, <1>4
    <3>. QED
      BY ONLY <3>1, NamedThree
  <2>2. N(n, all) = N(n, (q \o x) \o y) \o N(n, v)
    BY <1>4, <2>1, NamedConcat
  <2>. QED
    BY <2>1, <2>2, Zenon
<1>6. \A n : N(n, q) \in Seq(HeaderLines) /\ N(n, defaults) \in Seq(HeaderLines)
  BY <1>3, NamedType
<1>7. \A n : N(n, v) = IF n \in Message!Names(q) THEN <<>> ELSE N(n, defaults)
  BY NamedVacant
<1>8. \A n : n \notin Message!Names(q) => N(n, q) = <<>>
  BY <1>3, NamedPresent
<1>9. \A n : N(n, x) = IF c /\ m.name = n THEN <<m>> ELSE <<>>
  BY <1>2, NamedIfLine
<1>10. \A n : n \notin Message!FramingNames \/ ~request.body.streams => N(n, y) = <<>>
  BY FramingLines
<1>. HIDE DEF v, x, y, m, q
<1>11. ASSUME NEW n, N(n, x) = <<>>, N(n, y) = <<>>
       PROVE  N(n, all) = IF n \in Message!Names(q) THEN N(n, q) ELSE N(n, defaults)
  <2>1. N(n, all) = ((N(n, q) \o <<>>) \o <<>>) \o N(n, v)
    BY <1>5, <1>11
  <2>. HIDE DEF N
  <2>2. CASE n \in Message!Names(q)
    <3>1. ((N(n, q) \o <<>>) \o <<>>) \o <<>> = N(n, q)
      BY <1>6, Concats
    <3>. QED
      BY <1>7, <2>1, <2>2, <3>1
  <2>3. CASE n \notin Message!Names(q)
    <3>1. ((<<>> \o <<>>) \o <<>>) \o N(n, defaults) = N(n, defaults)
      BY <1>6, Concats
    <3>. QED
      BY <1>7, <1>8, <2>1, <2>3, <3>1
  <2>. QED
    BY <2>2, <2>3
<1>12. LinesOf(name, all)
  <2>1. CASE \/ name = "content-type" /\ Message!HasBody
             \/ name \in Message!FramingNames /\ request.body.streams
    BY <2>1 DEF LinesOf
  <2>2. CASE ~ \/ name = "content-type" /\ Message!HasBody
               \/ name \in Message!FramingNames /\ request.body.streams
    <3>1. N(name, x) = <<>> /\ N(name, y) = <<>>
      BY <1>2, <1>9, <1>10, <2>2
    <3>. QED
      BY <1>11, <3>1 DEF LinesOf, WantedLines, q
  <2>. QED
    BY <2>1, <2>2
<1>13. TypeOf(all)
  <2>1. CASE c
    <3>1. m \in Message!ToSet(x)
      BY <2>1, ToSetOne DEF x, Message!If
    <3>2. m \in Message!ToSet(all)
      BY <1>3, <1>4, <3>1, InFour
    <3>3. all \in Seq(HeaderLines)
      BY <1>3, <1>4, ConcatProperties
    <3>. QED
      BY <3>2, <3>3, TypeIsIn DEF TypeOf, m
  <2>2. CASE Message!HasBody /\ "content-type" \in Message!Names(q)
    <3>1. N("content-type", x) = <<>> /\ N("content-type", y) = <<>>
      BY <1>9, <1>10, <2>2 DEF Message!FramingNames
    <3>. QED
      BY <1>11, <2>2, <3>1 DEF TypeOf, q
  <2>. QED
    BY <2>1, <2>2 DEF TypeOf
<1>. QED
  BY <1>1, <1>12, <1>13

\* Of the defaults that are vacant the first of each name is added.
LEMMA FirstVacant ==
  ASSUME MessageTypeOK, NEW name, NEW s \in Seq(HeaderLines)
  PROVE  /\ s \o Message!Firsts(Message!Vacant(s)) \in Seq(HeaderLines)
         /\ Message!ToSet(s) \subseteq Message!ToSet(s \o Message!Firsts(Message!Vacant(s)))
         /\ name \in Message!Names(s) =>
              Message!Named(name, s \o Message!Firsts(Message!Vacant(s))) =
                Message!Named(name, s)
         /\ name \notin Message!Names(s) /\ name \in Message!Names(defaults) =>
              \E h \in Message!ToSet(Message!Named(name, defaults)) :
                Message!Named(name, s \o Message!Firsts(Message!Vacant(s))) = <<h>>
<1>. DEFINE v == Message!Vacant(s)
            f == Message!Firsts(v)
            N(t) == Message!Named(name, t)
<1>1. /\ v \in Seq(HeaderLines)
      /\ N(v) = IF name \in Message!Names(s) THEN <<>> ELSE N(defaults)
  BY NamedVacant
<1>2. defaults \in Seq(HeaderLines)
  BY DEF MessageTypeOK
<1>. HIDE DEF v
<1>3. f \in Seq(HeaderLines)
  BY <1>1, AtType DEF Message!Firsts
<1>4. N(s \o f) = N(s) \o N(f) /\ N(s) \in Seq(HeaderLines)
  BY <1>3, NamedConcat, NamedType
<1>5. /\ name \in Message!Names(s) <=> N(s) # <<>>
      /\ name \in Message!Names(v) <=> N(v) # <<>>
      /\ name \in Message!Names(defaults) <=> N(defaults) # <<>>
  BY <1>1, <1>2, NamedPresent
<1>6. s \o f \in Seq(HeaderLines) /\ Message!ToSet(s) \subseteq Message!ToSet(s \o f)
  BY <1>3, ConcatProperties, ToSetConcat
<1>7. ASSUME name \in Message!Names(s) PROVE N(s \o f) = N(s)
  <2>1. name \notin Message!Names(v)
    BY <1>1, <1>5, <1>7
  <2>2. N(f) = <<>>
    BY <1>1, <2>1, NamedFirsts
  <2>. QED
    BY <1>4, <2>2, ConcatEmptySeq
<1>8. ASSUME name \notin Message!Names(s), name \in Message!Names(defaults)
      PROVE  \E h \in Message!ToSet(N(defaults)) : N(s \o f) = <<h>>
  <2>1. name \in Message!Names(v) /\ N(v) = N(defaults) /\ N(s) = <<>>
    BY <1>1, <1>5, <1>8
  <2>2. PICK k \in 1..Len(v) : v[k].name = name /\ N(f) = <<v[k]>>
    BY <1>1, <2>1, NamedFirsts
  <2>3. v[k] \in Message!ToSet(N(v))
    BY <1>1, <2>2, NamedSet
  <2>4. <<>> \o <<v[k]>> = <<v[k]>>
    OBVIOUS
  <2>. QED
    BY <1>4, <2>1, <2>2, <2>3, <2>4
<1>. QED
  BY <1>6, <1>7, <1>8 DEF v

LEMMA ReqwestLines ==
  ASSUME MessageTypeOK, backend = "reqwest", NEW name
  PROVE  /\ name \in Message!Names(request.headers) \cup Message!Names(defaults)
              => LinesOf(name, Message!ReqwestHeaders)
         /\ TypeOf(Message!ReqwestHeaders)
<1>. DEFINE q == request.headers
            m == Message!MediaType
            c == \/ request.body.kind \in {"bytes", "stream", "multipart"}
                 \/ /\ request.body.kind = "form"
                    /\ "content-type" \notin Message!Names(q)
            x == Message!If(c, <<m>>)
            r == q \o x
            all == r \o Message!Firsts(Message!Vacant(r))
            N(n, s) == Message!Named(n, s)
<1>1. Message!ReqwestHeaders = all
  BY DEF Message!ReqwestHeaders, Message!ReqwestRequest
<1>2. m \in HeaderLines /\ m.name = "content-type"
  BY BodyKinds
<1>3. q \in Seq(HeaderLines) /\ defaults \in Seq(HeaderLines)
  BY DEF MessageTypeOK
<1>4. x \in Seq(HeaderLines) /\ \A n : N(n, x) = IF c /\ m.name = n THEN <<m>> ELSE <<>>
  BY <1>2, NamedIfLine
<1>5. /\ ~Message!HasBody => ~c
      /\ Message!HasBody /\ ~c => "content-type" \in Message!Names(q)
  BY BodyKinds
<1>. HIDE DEF c, m, q, x
<1>6. r \in Seq(HeaderLines) /\ Message!ToSet(x) \subseteq Message!ToSet(r)
  BY <1>3, <1>4, ConcatProperties, ToSetConcat
<1>7. ASSUME NEW n, N(n, x) = <<>>
      PROVE  N(n, r) = N(n, q) /\ (n \in Message!Names(r) <=> n \in Message!Names(q))
  <2>1. N(n, r) = N(n, q) \o N(n, x) /\ N(n, q) \in Seq(HeaderLines)
    BY <1>3, <1>4, NamedConcat, NamedType
  <2>2. N(n, r) = N(n, q)
    BY <1>7, <2>1, ConcatEmptySeq
  <2>. QED
    BY <1>3, <1>6, <2>2, NamedPresent
<1>. HIDE DEF r
<1>8. ASSUME name \in Message!Names(q) \cup Message!Names(defaults)
      PROVE  LinesOf(name, all)
  <2>1. CASE name = "content-type" /\ Message!HasBody
    BY <2>1 DEF LinesOf
  <2>2. CASE ~(name = "content-type" /\ Message!HasBody)
    <3>1. N(name, x) = <<>>
      BY <1>2, <1>4, <1>5, <2>2
    <3>2. N(name, r) = N(name, q) /\ (name \in Message!Names(r) <=> name \in Message!Names(q))
      BY <1>7, <3>1
    <3>3. CASE name \in Message!Names(q)
      <4>1. N(name, all) = N(name, q)
        BY <1>6, <3>2, <3>3, FirstVacant
      <4>. QED
        BY <3>3, <4>1 DEF LinesOf, WantedLines, q
    <3>4. CASE name \notin Message!Names(q)
      <4>1. name \in Message!Names(defaults)
        BY <1>8, <3>4
      <4>2. \E h \in Message!ToSet(N(name, defaults)) : N(name, all) = <<h>>
        BY <1>6, <3>2, <3>4, <4>1, FirstVacant
      <4>3. Message!KeepsOne(name) /\ WantedLines(name) = N(name, defaults)
        BY <3>4 DEF WantedLines, q, Message!KeepsOne
      <4>. QED
        BY <4>2, <4>3 DEF LinesOf
    <3>. QED
      BY <3>3, <3>4
  <2>. QED
    BY <2>1, <2>2
<1>9. TypeOf(all)
  <2>1. CASE c
    <3>1. m \in Message!ToSet(x)
      BY <2>1, ToSetOne DEF x, Message!If
    <3>2. m \in Message!ToSet(all) /\ all \in Seq(HeaderLines)
      BY <1>6, <3>1, FirstVacant
    <3>. QED
      BY <3>2, TypeIsIn DEF TypeOf, m
  <2>2. CASE ~c
    <3>1. N("content-type", x) = <<>>
      BY <1>4, <2>2
    <3>2. CASE Message!HasBody
      <4>1. "content-type" \in Message!Names(r) /\ N("content-type", r) = N("content-type", q)
        BY <1>5, <1>7, <2>2, <3>1, <3>2
      <4>2. N("content-type", all) = N("content-type", q)
        BY <1>6, <4>1, FirstVacant
      <4>. QED
        BY <4>2 DEF TypeOf, q
    <3>. QED
      BY <3>2 DEF TypeOf
  <2>. QED
    BY <2>1, <2>2
<1>. QED
  BY <1>1, <1>8, <1>9 DEF q

LEMMA NamedSetValue ==
  ASSUME NEW name, NEW s \in Seq(HeaderLines), NEW h \in HeaderLines
  PROVE  /\ Message!SetValue(s, h) \in Seq(HeaderLines)
         /\ Message!Named(name, Message!SetValue(s, h)) =
              IF h.name = name THEN <<h>> ELSE Message!Named(name, s)
<1>. DEFINE w == Message!Without({h.name}, s)
<1>1. w \in Seq(HeaderLines)
  BY AtType DEF Message!Without
<1>2. Message!Named(name, w) =
        IF name \in {h.name} THEN <<>> ELSE Message!Named(name, s)
  BY NamedWithout
<1>3. Message!SetValue(s, h) = Append(w, h)
  BY DEF Message!SetValue
<1>. HIDE DEF w
<1>4. Message!Named(name, Append(w, h)) =
        IF h.name = name THEN Append(Message!Named(name, w), h) ELSE Message!Named(name, w)
  BY <1>1, NamedAppend
<1>5. Append(<<>>, h) = <<h>> /\ Append(w, h) \in Seq(HeaderLines)
  BY <1>1
<1>. QED
  BY <1>2, <1>3, <1>4, <1>5

LEMMA NsLines ==
  ASSUME MessageTypeOK, backend = "nsurlsession", NEW name
  PROVE  /\ name \in Message!Names(request.headers) \cup Message!Names(defaults)
              => LinesOf(name, Message!NsHeaders)
         /\ TypeOf(Message!NsHeaders)
<1>. DEFINE q == request.headers
            m == Message!MediaType
            l == Message!Line("content-length", "its length")
            set == Message!Lasts(q)
            typed == IF Message!HasBody THEN Message!SetValue(set, m) ELSE set
            r == Message!NsRequest
            all == r \o Message!Firsts(Message!Vacant(r))
            N(n, s) == Message!Named(n, s)
<1>1. Message!NsHeaders = all
  BY DEF Message!NsHeaders
<1>2. m \in HeaderLines /\ m.name = "content-type"
  BY BodyKinds
<1>3. q \in Seq(HeaderLines) /\ defaults \in Seq(HeaderLines)
  BY DEF MessageTypeOK
<1>4. l \in HeaderLines /\ l.name = "content-length"
  <2>1. {"content-length", "its length", "lower"} \subseteq Texts
    BY DEF Texts
  <2>. QED
    BY <2>1 DEF Message!Line, HeaderLines
<1>5. set \in Seq(HeaderLines)
  BY <1>3, AtType DEF Message!Lasts
<1>6. \/ r = Message!SetValue(typed, l) /\ request.body.streams
      \/ r = typed
  BY BodyKinds DEF Message!NsRequest
<1>. HIDE DEF q, m, l, set, r
<1>7. /\ typed \in Seq(HeaderLines)
      /\ \A n : N(n, typed) = IF Message!HasBody /\ n = "content-type" THEN <<m>>
                              ELSE N(n, set)
  <2>1. CASE Message!HasBody
    <3>1. /\ Message!SetValue(set, m) \in Seq(HeaderLines)
          /\ \A n : N(n, Message!SetValue(set, m)) = IF m.name = n THEN <<m>> ELSE N(n, set)
      BY <1>2, <1>5, NamedSetValue
    <3>. QED
      BY <1>2, <2>1, <3>1
  <2>2. CASE ~Message!HasBody
    BY <1>5, <2>2
  <2>. QED
    BY <2>1, <2>2
<1>. HIDE DEF typed
<1>8. /\ r \in Seq(HeaderLines)
      /\ \A n : n # "content-length" \/ ~request.body.streams => N(n, r) = N(n, typed)
  <2>1. CASE r = Message!SetValue(typed, l) /\ request.body.streams
    <3>1. /\ Message!SetValue(typed, l) \in Seq(HeaderLines)
          /\ \A n : N(n, Message!SetValue(typed, l)) = IF l.name = n THEN <<l>> ELSE N(n, typed)
      BY <1>4, <1>7, NamedSetValue
    <3>. QED
      BY <1>4, <2>1, <3>1
  <2>2. CASE r = typed
    BY <1>7, <2>2
  <2>. QED
    BY <1>6, <2>1, <2>2
<1>9. ASSUME name \in Message!Names(q) \cup Message!Names(defaults)
      PROVE  LinesOf(name, all)
  <2>1. CASE \/ name = "content-type" /\ Message!HasBody
             \/ name \in Message!FramingNames /\ request.body.streams
    BY <2>1 DEF LinesOf
  <2>2. CASE ~ \/ name = "content-type" /\ Message!HasBody
               \/ name \in Message!FramingNames /\ request.body.streams
    <3>1. N(name, r) = N(name, set)
      BY <1>7, <1>8, <2>2 DEF Message!FramingNames
    <3>2. name \in Message!Names(r) <=> N(name, r) # <<>>
      BY <1>8, NamedPresent
    <3>3. CASE name \in Message!Names(q)
      <4>1. PICK k \in 1..Len(q) : q[k].name = name /\ N(name, set) = <<q[k]>>
        BY <1>3, <3>3, NamedLasts DEF set
      <4>2. q[k] \in Message!ToSet(N(name, q))
        BY <1>3, <4>1, NamedSet
      <4>3. <<q[k]>> # <<>>
        OBVIOUS
      <4>4. N(name, all) = <<q[k]>>
        BY <1>8, <3>1, <3>2, <4>1, <4>3, FirstVacant
      <4>5. Message!KeepsOne(name) /\ WantedLines(name) = N(name, q)
        BY <3>3 DEF WantedLines, q, Message!KeepsOne
      <4>. QED
        BY <4>2, <4>4, <4>5 DEF LinesOf
    <3>4. CASE name \notin Message!Names(q)
      <4>1. name \in Message!Names(defaults)
        BY <1>9, <3>4
      <4>2. N(name, set) = <<>>
        BY <1>3, <3>4, NamedLasts DEF set
      <4>3. \E h \in Message!ToSet(N(name, defaults)) : N(name, all) = <<h>>
        BY <1>8, <3>1, <3>2, <4>1, <4>2, FirstVacant
      <4>4. Message!KeepsOne(name) /\ WantedLines(name) = N(name, defaults)
        BY <3>4 DEF WantedLines, q, Message!KeepsOne
      <4>. QED
        BY <4>3, <4>4 DEF LinesOf
    <3>. QED
      BY <3>3, <3>4
  <2>. QED
    BY <2>1, <2>2
<1>10. TypeOf(all)
  <2>1. SUFFICES ASSUME Message!HasBody PROVE m \in Message!ToSet(N("content-type", all))
    BY DEF TypeOf, m
  <2>2. N("content-type", r) = <<m>>
    BY <1>7, <1>8, <2>1
  <2>3. "content-type" \in Message!Names(r)
    <3>1. <<m>> # <<>>
      OBVIOUS
    <3>. QED
      BY <1>8, <2>2, <3>1, NamedPresent
  <2>4. N("content-type", all) = <<m>>
    BY <1>8, <2>2, <2>3, FirstVacant
  <2>. QED
    BY <2>4, ToSetOne
<1>. QED
  BY <1>1, <1>9, <1>10 DEF q

LEMMA WinrtLines ==
  ASSUME MessageTypeOK, backend = "winrt", NEW name
  PROVE  LinesOf(name, Message!WinrtHeaders) /\ TypeOf(Message!WinrtHeaders)
<1>. DEFINE q == request.headers
            m == Message!MediaType
            related == Message!ContentRelated
            own == Message!Without(related, q)
            vacant == Message!Vacant(own)
            added == Message!Without(related, vacant)
            one == <<m>>
            asked == Message!Only(related, q)
            rest == related \ {"content-type"}
            others == Message!Only(rest, defaults)
            content == (one \o asked) \o others
            final == Message!If(Message!HasBody, content)
            all == (own \o added) \o final
            N(n, s) == Message!Named(n, s)
<1>1. Message!WinrtHeaders = all
  BY DEF Message!WinrtHeaders, Message!RequestCollection, Message!ContentCollection,
         Message!DefaultContent
<1>2. m \in HeaderLines /\ m.name = "content-type"
  BY BodyKinds
<1>3. q \in Seq(HeaderLines) /\ defaults \in Seq(HeaderLines)
  BY DEF MessageTypeOK
<1>4. "content-type" \in related
  BY ExchangesAssumption DEF Message!ContentRelated
<1>5. own \in Seq(HeaderLines)
      /\ \A n : N(n, own) = IF n \in related THEN <<>> ELSE N(n, q)
  <2>. HIDE DEF related
  <2>. QED
    BY <1>3, AtType, NamedWithout DEF Message!Without
<1>6. /\ vacant \in Seq(HeaderLines)
      /\ \A n : N(n, vacant) = IF n \in Message!Names(own) THEN <<>> ELSE N(n, defaults)
  <2>. HIDE DEF own
  <2>. QED
    BY NamedVacant
<1>7. /\ added \in Seq(HeaderLines)
      /\ \A n : N(n, added) = IF n \in related THEN <<>> ELSE N(n, vacant)
  <2>. HIDE DEF related, vacant
  <2>. QED
    BY <1>6, AtType, NamedWithout DEF Message!Without
<1>8. asked \in Seq(HeaderLines)
      /\ \A n : N(n, asked) = IF n \in related THEN N(n, q) ELSE <<>>
  <2>. HIDE DEF related
  <2>. QED
    BY <1>3, AtType, NamedOnly DEF Message!Only
<1>9. others \in Seq(HeaderLines)
      /\ \A n : N(n, others) = IF n \in rest THEN N(n, defaults) ELSE <<>>
  <2>. HIDE DEF rest
  <2>. QED
    BY <1>3, AtType, NamedOnly DEF Message!Only
<1>10. one \in Seq(HeaderLines) /\ \A n : N(n, one) = IF m.name = n THEN one ELSE <<>>
  <2>. HIDE DEF m
  <2>. QED
    BY <1>2, NamedOne
<1>. HIDE DEF q, m, related, own, vacant, added, one, asked, others
<1>11. /\ content \in Seq(HeaderLines)
       /\ \A n : N(n, content) = (N(n, one) \o N(n, asked)) \o N(n, others)
  <2>1. ASSUME NEW n
        PROVE  /\ (one \o asked) \o others \in Seq(HeaderLines)
               /\ N(n, (one \o asked) \o others) =
                    (N(n, one) \o N(n, asked)) \o N(n, others)
    <3>1. /\ one \in Seq(HeaderLines) /\ asked \in Seq(HeaderLines)
          /\ others \in Seq(HeaderLines)
      BY <1>8, <1>9, <1>10
    <3>. QED
      BY ONLY <3>1, NamedThree
  <2>. QED
    BY <2>1
<1>. HIDE DEF content
<1>12. /\ final \in Seq(HeaderLines)
       /\ \A n : N(n, final) = IF Message!HasBody THEN N(n, content) ELSE <<>>
  BY <1>11, NamedIf
<1>. HIDE DEF final
<1>13. /\ all \in Seq(HeaderLines)
       /\ \A n : N(n, all) = (N(n, own) \o N(n, added)) \o N(n, final)
  <2>1. ASSUME NEW n
        PROVE  /\ (own \o added) \o final \in Seq(HeaderLines)
               /\ N(n, (own \o added) \o final) = (N(n, own) \o N(n, added)) \o N(n, final)
    <3>1. /\ own \in Seq(HeaderLines) /\ added \in Seq(HeaderLines)
          /\ final \in Seq(HeaderLines)
      BY <1>5, <1>7, <1>12
    <3>. QED
      BY ONLY <3>1, NamedThree
  <2>. QED
    BY <2>1
<1>14. \A n : /\ N(n, q) \in Seq(HeaderLines) /\ N(n, defaults) \in Seq(HeaderLines)
              /\ n \notin Message!Names(q) => N(n, q) = <<>>
              /\ n \in Message!Names(q) <=> N(n, q) # <<>>
              /\ n \in Message!Names(own) <=> N(n, own) # <<>>
  BY <1>3, <1>5, NamedType, NamedPresent
<1>. HIDE DEF all
<1>15. LinesOf(name, all)
  <2>1. CASE name = "content-type" /\ Message!HasBody
    BY <2>1 DEF LinesOf
  <2>2. CASE name \in related /\ ~(name = "content-type" /\ Message!HasBody)
    <3>1. ASSUME Message!HasBody
          PROVE  Message!ToSet(WantedLines(name)) \subseteq Message!ToSet(N(name, all))
      <4>. DEFINE a == N(name, q)
                  b == N(name, defaults)
      <4>1. a \in Seq(HeaderLines) /\ b \in Seq(HeaderLines) /\ <<>> \in Seq(HeaderLines)
        BY <1>14, EmptySeq
      <4>2. N(name, one) = <<>> /\ N(name, asked) = a /\ N(name, others) = b
        BY <1>2, <1>8, <1>9, <1>10, <2>2, <3>1
      <4>3. N(name, final) = (<<>> \o a) \o b
        BY <1>11, <1>12, <3>1, <4>2
      <4>4. N(name, own) = <<>> /\ N(name, added) = <<>>
        BY <1>5, <1>7, <2>2
      <4>5. N(name, all) = (<<>> \o <<>>) \o ((<<>> \o a) \o b)
        BY <1>13, <4>3, <4>4
      <4>6. WantedLines(name) = a \/ WantedLines(name) = b
        BY DEF WantedLines, q
      <4>. HIDE DEF a, b
      <4>7. (<<>> \o <<>>) \o ((<<>> \o a) \o b) = a \o b
        <5>1. <<>> \o a = a /\ a \o b \in Seq(HeaderLines)
          BY <4>1, ConcatEmptySeq, ConcatProperties
        <5>2. <<>> \o <<>> = <<>> /\ <<>> \o (a \o b) = a \o b
          BY <4>1, <5>1, ConcatEmptySeq
        <5>. QED
          BY <5>1, <5>2
      <4>8. /\ Message!ToSet(a) \subseteq Message!ToSet(a \o b)
            /\ Message!ToSet(b) \subseteq Message!ToSet(a \o b)
        BY <4>1, ToSetConcat
      <4>. QED
        BY <4>5, <4>6, <4>7, <4>8
    <3>. QED
      BY <2>2, <3>1 DEF LinesOf, related
  <2>3. CASE name \notin related
    <3>. DEFINE a == N(name, q)
                b == N(name, defaults)
    <3>1. a \in Seq(HeaderLines) /\ b \in Seq(HeaderLines) /\ <<>> \in Seq(HeaderLines)
      BY <1>14, EmptySeq
    <3>2. N(name, one) = <<>> /\ N(name, asked) = <<>> /\ N(name, others) = <<>>
      BY <1>2, <1>4, <1>8, <1>9, <1>10, <2>3
    <3>3. <<>> \o <<>> = <<>>
      BY <3>1, ConcatEmptySeq
    <3>4. N(name, final) = <<>>
      BY <1>11, <1>12, <3>2, <3>3
    <3>5. N(name, own) = a /\ N(name, added) = IF name \in Message!Names(q) THEN <<>> ELSE b
      BY <1>5, <1>6, <1>7, <1>14, <2>3
    <3>6. WantedLines(name) = IF name \in Message!Names(q) THEN a ELSE b
      BY DEF WantedLines, q
    <3>7. name \notin Message!Names(q) => a = <<>>
      BY <1>14
    <3>8. N(name, all) = (N(name, own) \o N(name, added)) \o <<>>
      BY <1>13, <3>4
    <3>. HIDE DEF a, b, N
    <3>9. /\ (a \o <<>>) \o <<>> = a
          /\ (<<>> \o b) \o <<>> = b
      BY <3>1, ConcatEmptySeq
    <3>10. N(name, all) = WantedLines(name)
      BY <3>5, <3>6, <3>7, <3>8, <3>9
    <3>. QED
      BY <3>10 DEF LinesOf, N
  <2>. QED
    BY <2>1, <2>2, <2>3
<1>16. TypeOf(all)
  <2>1. SUFFICES ASSUME Message!HasBody PROVE m \in Message!ToSet(N("content-type", all))
    BY DEF TypeOf, m
  <2>2. m \in Message!ToSet(one)
    BY ToSetOne DEF one
  <2>3. /\ one \o asked \in Seq(HeaderLines)
        /\ Message!ToSet(one) \subseteq Message!ToSet(one \o asked)
    BY <1>8, <1>10, ConcatProperties, ToSetConcat
  <2>4. Message!ToSet(one \o asked) \subseteq Message!ToSet(content)
    BY <1>9, <2>3, ToSetConcat DEF content
  <2>5. final = content
    BY <2>1 DEF final, Message!If
  <2>6. own \o added \in Seq(HeaderLines)
    BY <1>5, <1>7, ConcatProperties
  <2>7. Message!ToSet(final) \subseteq Message!ToSet(all)
    BY <1>12, <2>6, ToSetConcat DEF all
  <2>8. m \in Message!ToSet(all)
    BY <2>2, <2>3, <2>4, <2>5, <2>7
  <2>. QED
    BY <1>13, <2>8, TypeIsIn DEF m
<1>. QED
  BY <1>1, <1>15, <1>16

-----------------------------------------------------------------------------

\* The message that is built is the backend's, of a request that does not change.
MessageInv ==
  /\ MessageTypeOK
  /\ message.method # "none" =>
       message.method = IF backend = "curl" THEN Message!CurlMethod ELSE request.method
  /\ message.method # "none" =>
       \/ backend = "curl" /\ message.headers = Message!CurlHeaders
       \/ backend = "winhttp" /\ message.headers = Message!WinHttpHeaders
       \/ backend = "nsurlsession" /\ message.headers = Message!NsHeaders
       \/ backend = "winrt" /\ message.headers = Message!WinrtHeaders
       \/ backend = "reqwest" /\ message.headers = Message!ReqwestHeaders

LEMMA MessageStep == [ExchangesNext]_ExchangesVars => [Message!Next]_(Message!vars)
<1>1. UNCHANGED messageVars => UNCHANGED Message!vars
  BY DEF messageVars, Message!vars
<1>. QED
  BY <1>1 DEF ExchangesNext, ExchangesVars

LEMMA MessageInit == Message!Init => MessageInv
<1>1. SUFFICES ASSUME Message!Init PROVE MessageInv
  OBVIOUS
<1>2. Seq([name: STRING, case: STRING, value: STRING]) \subseteq Seq(HeaderLines)
  <2>1. STRING \subseteq Texts
    BY DEF Texts
  <2>2. [name: STRING, case: STRING, value: STRING] \subseteq HeaderLines
    BY <2>1 DEF HeaderLines
  <2>. QED
    BY <2>2, SeqMonotonic
<1>3. /\ defaults \in Defaults /\ request.headers \in Headers
      /\ request.body \in MessageBodies
  BY <1>1 DEF Message!Init
<1>4. message.method = "none"
  BY <1>1 DEF Message!Init
<1>. QED
  BY <1>2, <1>3, <1>4, ExchangesAssumption DEF MessageInv, MessageTypeOK

LEMMA SameHeaders ==
  ASSUME UNCHANGED <<backend, defaults, request>>
  PROVE  /\ MessageTypeOK => MessageTypeOK'
         /\ UNCHANGED <<Message!CurlHeaders, Message!WinHttpHeaders, Message!NsHeaders>>
         /\ UNCHANGED <<Message!WinrtHeaders, Message!ReqwestHeaders, Message!CurlMethod>>
<1>1. UNCHANGED <<Message!HasBody, Message!MediaType, Message!Framing>>
  BY DEF Message!HasBody, Message!MediaType, Message!Framing
<1>2. Message!CurlHeaders' = Message!CurlHeaders
  BY <1>1 DEF Message!CurlHeaders, Message!Vacant
<1>3. Message!WinHttpHeaders' = Message!WinHttpHeaders
  BY <1>1 DEF Message!WinHttpHeaders, Message!Vacant
<1>4. Message!NsRequest' = Message!NsRequest
  BY <1>1 DEF Message!NsRequest
<1>5. Message!NsHeaders' = Message!NsHeaders
  BY <1>4 DEF Message!NsHeaders, Message!Vacant
<1>6. Message!WinrtHeaders' = Message!WinrtHeaders
  BY <1>1 DEF Message!WinrtHeaders, Message!RequestCollection, Message!ContentCollection,
              Message!DefaultContent, Message!Vacant
<1>7. Message!ReqwestRequest' = Message!ReqwestRequest
  BY <1>1 DEF Message!ReqwestRequest
<1>8. Message!ReqwestHeaders' = Message!ReqwestHeaders
  BY <1>7 DEF Message!ReqwestHeaders, Message!Vacant
<1>9. MessageTypeOK => MessageTypeOK'
  BY DEF MessageTypeOK
<1>10. Message!CurlMethod' = Message!CurlMethod
  BY <1>1 DEF Message!CurlMethod, Message!CustomRequest, Message!PostFields
<1>. QED
  BY <1>2, <1>3, <1>5, <1>6, <1>8, <1>9, <1>10

\* Only curl sends another method than the request's.
LEMMA MethodIsKept ==
  ASSUME MessageInv, message.method # "none"
  PROVE  message.method = request.method \/ Message!MethodIsAltered
<1>1. CASE backend # "curl"
  BY <1>1 DEF MessageInv
<1>2. CASE backend = "curl"
  <2>1. message.method = Message!CurlMethod
    BY <1>2 DEF MessageInv
  <2>2. CASE Message!CustomRequest = {}
    <3>1. request.method # "custom"
      BY <2>2 DEF Message!CustomRequest
    <3>2. CASE Message!PostFields
      <4>1. Message!CurlMethod = "POST" /\ Message!HasBody
        <5>1. Message!CurlMethod = "POST"
          BY <2>2, <3>2 DEF Message!CurlMethod
        <5>2. Message!HasBody
          <6>1. Message!NoBody.kind = "none"
            BY DEF Message!NoBody
          <6>2. request.body.kind # "none"
            BY <3>2 DEF Message!PostFields
          <6>. QED
            BY <6>1, <6>2 DEF Message!HasBody
        <5>. QED
          BY <5>1, <5>2
      <4>2. QED
        BY <1>2, <2>1, <3>1, <4>1 DEF Message!MethodIsAltered
    <3>3. QED
      BY <2>1, <2>2, <3>2 DEF Message!CurlMethod
  <2>3. CASE Message!CustomRequest # {}
    <3>1. Message!CurlMethod \in Message!CustomRequest
      BY <2>3 DEF Message!CurlMethod
    <3>2. QED
      BY <1>2, <2>1, <2>3, <3>1 DEF Message!CustomRequest, Message!MethodIsAltered
  <2>4. QED
    BY <2>2, <2>3
<1>3. QED
  BY <1>1, <1>2

LEMMA MessageNext == MessageInv /\ [Message!Next]_(Message!vars) => MessageInv'
<1>1. SUFFICES ASSUME MessageInv, [Message!Next]_(Message!vars) PROVE MessageInv'
  OBVIOUS
<1>2. CASE UNCHANGED Message!vars
  <2>1. UNCHANGED <<backend, defaults, request>> /\ UNCHANGED message
    BY <1>2 DEF Message!vars
  <2>. QED
    BY <1>1, <2>1, SameHeaders DEF MessageInv
<1>3. CASE Message!Next
  <2>1. UNCHANGED <<backend, defaults, request>>
    BY <1>3 DEF Message!Next, Message!Build
  <2>2. \/ backend = "curl" /\ message'.headers = Message!CurlHeaders
        \/ backend = "winhttp" /\ message'.headers = Message!WinHttpHeaders
        \/ backend = "nsurlsession" /\ message'.headers = Message!NsHeaders
        \/ backend = "winrt" /\ message'.headers = Message!WinrtHeaders
        \/ backend = "reqwest" /\ message'.headers = Message!ReqwestHeaders
    BY <1>3 DEF Message!Next, Message!Build, Message!Send
  <2>3. message'.method = IF backend = "curl" THEN Message!CurlMethod ELSE request.method
    BY <1>3 DEF Message!Next, Message!Build, Message!Send
  <2>. QED
    BY <1>1, <2>1, <2>2, <2>3, SameHeaders DEF MessageInv
<1>. QED
  BY <1>1, <1>2, <1>3

\* The method and every header reach the server.
LEMMA MessageIsSent == MessageInv => HeadersAreSent
<1>1. SUFFICES ASSUME MessageInv, message.method # "none" PROVE HeadersAreSent
  BY DEF HeadersAreSent, Message!HeadersAreSent
<1>2. MessageTypeOK
  BY <1>1 DEF MessageInv
<1>. DEFINE names == Message!Names(request.headers) \cup Message!Names(defaults)
            s == message.headers
<1>3. \A name \in names : LinesOf(name, s)
  BY <1>1, <1>2, CurlLines, WinHttpLines, NsLines, WinrtLines, ReqwestLines DEF MessageInv
<1>4. TypeOf(s)
  BY <1>1, <1>2, CurlLines, WinHttpLines, NsLines, WinrtLines, ReqwestLines DEF MessageInv
<1>5. ASSUME NEW name \in names
      PROVE  LET sent == Message!Values(name, s) IN
             \/ name = "content-type" /\ Message!HasBody
             \/ name \in Message!FramingNames /\ request.body.streams
             \/ /\ backend = "winrt" /\ name \in Message!ContentRelated
                /\ Message!HasBody => Message!ToSet(Message!Wanted(name)) \subseteq Message!ToSet(sent)
             \/ /\ Message!KeepsOne(name)
                /\ \E value \in Message!ToSet(Message!Wanted(name)) : sent = <<value>>
             \/ sent = Message!Wanted(name)
  <2>1. LinesOf(name, s)
    BY <1>3
  <2>. HIDE DEF s
  <2>. QED
    BY <2>1, LinesAreValues DEF LinesOf
<1>6. ASSUME Message!HasBody
      PROVE  LET types == Message!Values("content-type", s) IN
             \/ request.body.type \in Message!ToSet(types)
             \/ types = Message!Values("content-type", request.headers)
             \/ backend = "curl" /\ types = Message!Wanted("content-type")
  <2>. DEFINE types == Message!Values("content-type", s)
              lines == Message!Named("content-type", s)
  <2>. HIDE DEF s
  <2>1. CASE Message!MediaType \in Message!ToSet(lines)
    <3>1. Message!ToSet(types) = {h.value : h \in Message!ToSet(lines)}
      BY ValuesSet
    <3>2. Message!MediaType.value = request.body.type
      BY <1>2, BodyKinds
    <3>3. request.body.type \in Message!ToSet(types)
      <4>. HIDE DEF lines, types
      <4>. QED
        BY <2>1, <3>1, <3>2
    <3>. QED
      BY <3>3
  <2>2. CASE lines = Message!Named("content-type", request.headers)
    BY <2>2, SameValues
  <2>3. CASE backend = "curl" /\ lines = WantedLines("content-type")
    BY <2>3, WantedValues
  <2>. QED
    BY <1>4, <1>6, <2>1, <2>2, <2>3 DEF TypeOf
<1>. QED
  BY <1>1, <1>5, <1>6, MethodIsKept DEF HeadersAreSent, Message!HeadersAreSent

\* In every backend the method of the request is sent, as curl alters it, with its headers,
\* the client's other defaults and a body's media type, whatever the headers are.
THEOREM MessageHeadersAreSent == ExchangesSpec => []HeadersAreSent
<1>1. ExchangesInit => MessageInv
  BY MessageInit DEF ExchangesInit
<1>2. MessageInv /\ [ExchangesNext]_ExchangesVars => MessageInv'
  BY MessageNext, MessageStep
<1>. QED
  BY <1>1, <1>2, MessageIsSent, PTL DEF ExchangesSpec

=============================================================================
