------------------------------ MODULE Exchanges ------------------------------
(***************************************************************************)
(* The requests of the backends other than curl's, side by side.  They     *)
(* share no state: a behaviour is one of them, the others stand still.     *)
(* WinHTTP's asynchronous client is the module that is extended.           *)
(***************************************************************************)
EXTENDS WinHttpAsync, Sequences

CONSTANTS
  \* WinHttpBlocking
  SyncBodies, SyncClients, Uris, U32Max, ChunkBufferSize, SyncLimits, ResponseLen,
  HeaderValues,
  \* WinrtRequest
  Timeouts, NoTimeout, WinrtLimits, NoLimit, WinrtLen, TextLens, BufMax, MaxTime,
  \* NsDataTask
  Modes, NsLen, NsLimit, MaxBuf, MaxMoves,
  \* ReqwestBlocking
  Threads, Sides, ReqwestBodies, BufLen, ReqwestLimit, MaxCalls,
  \* RequestMessage
  Backends, Methods, Defaults, Headers, MessageBodies, ContentNames

VARIABLES
  part,
  \* WinHttpBlocking
  breq, bpc, bcalls, total, bparts, bbuffer, finished, bchunk, wire, bleft, bgot,
  room, index, found,
  \* WinrtRequest
  conf, wcall, wop, remaining, timer, exceeded, reader, wbody, result, now,
  \* NsDataTask
  mode, nop, at, me, moves, buf, last, ngot, aw, nready, registered, token, nresponse,
  completed, received, nbuffer, limited, suspended, taskError, cancelled, ended, cb, nleft,
  \* ReqwestBlocking
  side, rpc, ctx, rmade, rresponse, home, frames, arrived, fault, rbuffer, collected, rgot,
  rcontent, idle,
  \* RequestMessage
  backend, defaults, request, message

blockingVars == <<breq, bpc, bcalls, total, bparts, bbuffer, finished, bchunk, wire,
                  bleft, bgot, room, index, found>>
winrtVars == <<conf, wcall, wop, remaining, timer, exceeded, reader, wbody, result, now>>
nsVars == <<mode, nop, at, me, moves, buf, last, ngot, aw, nready, registered, token,
            nresponse, completed, received, nbuffer, limited, suspended, taskError,
            cancelled, ended, cb, nleft>>
reqwestVars == <<side, rpc, ctx, rmade, rresponse, home, frames, arrived, fault, rbuffer,
                 collected, rgot, rcontent, idle>>
messageVars == <<backend, defaults, request, message>>

-----------------------------------------------------------------------------

Blocking == INSTANCE WinHttpBlocking WITH
  Bodies <- SyncBodies, Clients <- SyncClients, Limits <- SyncLimits,
  Values <- HeaderValues,
  req <- breq, pc <- bpc, calls <- bcalls, parts <- bparts, buffer <- bbuffer,
  chunk <- bchunk, left <- bleft, got <- bgot

Winrt == INSTANCE WinrtRequest WITH
  Limits <- WinrtLimits, BodyLen <- WinrtLen,
  call <- wcall, op <- wop, body <- wbody

Task == INSTANCE NsDataTask WITH
  BodyLen <- NsLen, Limit <- NsLimit,
  op <- nop, got <- ngot, ready <- nready, response <- nresponse, buffer <- nbuffer,
  left <- nleft

Reqwest == INSTANCE ReqwestBlocking WITH
  Bodies <- ReqwestBodies, Limit <- ReqwestLimit,
  pc <- rpc, made <- rmade, response <- rresponse, buffer <- rbuffer, got <- rgot,
  content <- rcontent

Message == INSTANCE RequestMessage WITH Bodies <- MessageBodies

\* Lengths and limits are counted, times as well; what is no time or limit is no number.
\* A body consists of parts, a body of bytes of one; headers are lines; a body is of
\* one of four kinds, or there is none.
ASSUME ExchangesAssumption ==
  /\ ResponseLen \in Nat /\ SyncLimits \subseteq SUBSET Nat /\ HeaderValues \in Seq(STRING)
  /\ \A c \in SyncClients :
       {c.timeout, c.redirects, c.anyCert, c.cookies} \subseteq BOOLEAN
  /\ U32Max \in Nat \ {0} /\ ChunkBufferSize \in Nat
  /\ \A b \in SyncBodies :
       /\ b.parts \in Seq([stream: BOOLEAN, sized: BOOLEAN, data: Seq(STRING \X Nat)])
       /\ \/ b.kind = "none" /\ b.parts = <<>>
          \/ b.kind \in {"bytes", "form"} /\ Len(b.parts) = 1
          \/ b.kind \in {"stream", "multipart"}
  /\ Timeouts \subseteq Nat \cup {NoTimeout} /\ NoTimeout \notin Nat
  /\ WinrtLimits \subseteq Nat \cup {NoLimit} /\ NoLimit \notin Nat /\ TextLens \subseteq Nat
  /\ {WinrtLen, BufMax, NsLen, NsLimit, ReqwestLimit} \subseteq Nat
  /\ ReqwestBodies \subseteq Seq(Nat)
  /\ Headers \cup Defaults \subseteq Seq([name: STRING, case: STRING, value: STRING])
  /\ \A b \in MessageBodies :
       /\ b.kind \in {"bytes", "form", "stream", "multipart"} \/ b = Message!NoBody
       /\ b.type \in STRING /\ (b.kind = "stream" => b.streams)
  /\ "content-type" \in ContentNames

-----------------------------------------------------------------------------

ExchangesInit ==
  /\ part \in {"winhttp", "winhttp blocking", "winrt", "ns", "reqwest", "message"}
  /\ Init /\ Blocking!Init /\ Winrt!Init /\ Task!Init /\ Reqwest!Init /\ Message!Init

ExchangesNext ==
  /\ UNCHANGED part
  /\ \/ /\ part = "winhttp" /\ Next
        /\ UNCHANGED <<blockingVars, winrtVars, nsVars, reqwestVars, messageVars>>
     \/ /\ part = "winhttp blocking" /\ Blocking!Next
        /\ UNCHANGED <<vars, winrtVars, nsVars, reqwestVars, messageVars>>
     \/ /\ part = "winrt" /\ Winrt!Next
        /\ UNCHANGED <<vars, blockingVars, nsVars, reqwestVars, messageVars>>
     \/ /\ part = "ns" /\ Task!Next
        /\ UNCHANGED <<vars, blockingVars, winrtVars, reqwestVars, messageVars>>
     \/ /\ part = "reqwest" /\ Reqwest!Next
        /\ UNCHANGED <<vars, blockingVars, winrtVars, nsVars, messageVars>>
     \/ /\ part = "message" /\ Message!Next
        /\ UNCHANGED <<vars, blockingVars, winrtVars, nsVars, reqwestVars>>

ExchangesVars == <<part, vars, blockingVars, winrtVars, nsVars, reqwestVars, messageVars>>

ExchangesSpec == ExchangesInit /\ [][ExchangesNext]_ExchangesVars

\* The fairness of the part that runs, as its module states it.
WinHttpFairness ==
  /\ WF_vars(part = "winhttp" /\ ThreadPool) /\ WF_vars(part = "winhttp" /\ Callback)
  /\ WF_vars(part = "winhttp" /\ (pc \in Waiting => ready \/ half) /\ PollRequest)
  /\ WF_vars(part = "winhttp" /\ pc = "reading" /\ ready /\ PollRead)

OtherFairness ==
  /\ WF_winrtVars(part = "winrt" /\ Winrt!Tick)
  /\ WF_winrtVars(part = "winrt" /\ Winrt!TimerFires)
  /\ WF_winrtVars(part = "winrt" /\ Winrt!TimerCancels)
  /\ WF_winrtVars(part = "winrt" /\ (Winrt!Sent \/ Winrt!BytesEnd))
  /\ WF_nsVars(part = "ns" /\ Task!Step)
  /\ WF_nsVars(part = "ns" /\ (Task!SetError \/ (suspended = 0 /\ Task!Session)))
  /\ \A t \in Threads : WF_reqwestVars(part = "reqwest" /\ Reqwest!Step(t))

ExchangesFairness == WinHttpFairness /\ OtherFairness

-----------------------------------------------------------------------------
(* The properties of the parts.                                            *)

ServerReadsTheBody == Blocking!ServerReadsTheBody
ResponseIsExact == Blocking!ResponseIsExact
ResponseIsHonest == Winrt!ResponseIsHonest
TimeoutIsTheBudget == Winrt!TimeoutIsTheBudget
SuspendedOnce == Task!SuspendedOnce
BytesAreHonest == Task!BytesAreHonest
BodyIsRead == Reqwest!BodyIsRead
HeadersAreSent == Message!HeadersAreSent

\* A caller of WinRT, of a blocking data task or of reqwest is answered.
CallsReturn ==
  /\ part = "winrt" => Winrt!CallReturns
  /\ part = "ns" => Task!ParkedCallerWakes
  /\ part = "reqwest" => Reqwest!CallReturns
=============================================================================
