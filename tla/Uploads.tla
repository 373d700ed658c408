------------------------------ MODULE Uploads -------------------------------
(***************************************************************************)
(* The request bodies of the backends side by side.  They share no state:  *)
(* a behaviour is one of them, the others stand still.  Each is shown to   *)
(* implement ByteStream.  Curl's uploads are the module that is extended.  *)
(***************************************************************************)
EXTENDS CurlUpload

CONSTANTS
  ReqwestBodies,   \* ReqwestUpload's Bodies
  NsBodies,        \* NsStream's
  Capacity,        \* capacity of the buffer of NsStream, and of WinRT's stack
  WinrtStreams, WinrtSized,  \* WinrtUpload's Streams and Sized
  SyncHandlers,    \* WinrtUpload's
  SyncSized,       \* WinrtBlockingUpload's Sized
  WinrtBytes       \* bytes in a stream of WinRT's

VARIABLES
  part,
  mode, content, left, future, rtask, waiter, is_open, chan, reading, body, rsent,
  conf, parts, range, pc, wakes, opened, attached, pipe, eof, locked, events, nstack, nsent,
  stream, task, wstack, alive, waker, woken, todo, waits, wrewinds,
  stuck,
  open, at, bpos, read, bstack, bsent

reqwestVars == <<mode, content, left, future, rtask, waiter, is_open, chan, reading, body,
                 rsent>>
nsVars == <<conf, parts, range, pc, wakes, opened, attached, pipe, eof, locked, events,
            nstack, nsent>>
winrtVars == <<stream, task, wstack, alive, waker, woken, todo, waits, wrewinds,
               stuck>>
winrtBlockingVars == <<open, at, bpos, read, bstack, bsent>>

Reqwest == INSTANCE ReqwestUpload WITH
  Modes <- {"inside", "outside", "blocking"}, Bodies <- ReqwestBodies, MayFail <- TRUE,
  task <- rtask, sent <- rsent

Ns == INSTANCE NsStream WITH
  Clients <- {"async", "blocking"}, Bodies <- NsBodies, stack <- nstack, sent <- nsent

Winrt == INSTANCE WinrtUpload WITH
  Streams <- WinrtStreams, Sized <- WinrtSized, Bytes <- WinrtBytes,
  stack <- wstack, rewinds <- wrewinds

WinrtBlocking == INSTANCE WinrtBlockingUpload WITH
  Bytes <- WinrtBytes, Sized <- SyncSized, pos <- bpos, stack <- bstack, sent <- bsent

\* A body has a length, known or not, and a buffer holds some bytes.  What is not a form
\* is one part.
ASSUME UploadsAssumption ==
  /\ ReqwestBodies \subseteq [sized: BOOLEAN, len: Nat]
  /\ NsBodies \subseteq [multipart: BOOLEAN, parts: Seq([stream: BOOLEAN, len: Nat])]
  /\ \A b \in NsBodies : b.multipart \/ b.parts # <<>>
  /\ WinrtBytes \in Nat /\ Capacity \in Nat /\ {SyncSized, SyncHandlers} \subseteq BOOLEAN

-----------------------------------------------------------------------------

UploadsInit ==
  /\ part \in {"curl", "reqwest", "ns", "winrt", "winrt blocking"}
  /\ Init /\ Reqwest!Init /\ Ns!Init /\ Winrt!Init /\ WinrtBlocking!Init

UploadsNext ==
  /\ UNCHANGED part
  /\ \/ /\ part = "curl" /\ Next
        /\ UNCHANGED <<reqwestVars, nsVars, winrtVars, winrtBlockingVars>>
     \/ /\ part = "reqwest" /\ Reqwest!Next
        /\ UNCHANGED <<vars, nsVars, winrtVars, winrtBlockingVars>>
     \/ /\ part = "ns" /\ Ns!Next
        /\ UNCHANGED <<vars, reqwestVars, winrtVars, winrtBlockingVars>>
     \/ /\ part = "winrt" /\ Winrt!Next
        /\ UNCHANGED <<vars, reqwestVars, nsVars, winrtBlockingVars>>
     \/ /\ part = "winrt blocking" /\ WinrtBlocking!Next
        /\ UNCHANGED <<vars, reqwestVars, nsVars, winrtVars>>

UploadsVars == <<part, vars, reqwestVars, nsVars, winrtVars, winrtBlockingVars>>

UploadsSpec == UploadsInit /\ [][UploadsNext]_UploadsVars

\* The fairness of the part that runs: part = "curl" => Fairness and so on, with the
\* condition inside the actions, where it costs TLC least.
CurlFairness ==
  /\ WF_vars(part = "curl" /\ Execute) /\ WF_vars(part = "curl" /\ Resolve)
  /\ WF_vars(part = "curl" /\ LoopThread) /\ WF_vars(part = "curl" /\ UnpauseSend)
  /\ WF_vars(part = "curl" /\ DropTransfer)
  /\ WF_vars(part = "curl" /\ transfer = "sent" /\ Respond)
  /\ \A s \in Streams :
       /\ WF_vars(part = "curl" /\ StreamReady(s))
       /\ SF_vars(part = "curl" /\ Execute /\ ~owes'[s])

OtherFairness ==
  /\ WF_reqwestVars(part = "reqwest" /\ Reqwest!Task)
  /\ WF_reqwestVars(part = "reqwest" /\ Reqwest!Hyper)
  /\ WF_reqwestVars(part = "reqwest" /\ Reqwest!ThreadRead)
  /\ WF_nsVars(part = "ns" /\ Ns!Caller) /\ WF_nsVars(part = "ns" /\ Ns!RunLoop)
  /\ WF_winrtVars(part = "winrt" /\ Winrt!Poll)
  /\ \A s \in WinrtStreams :
       /\ WF_winrtVars(part = "winrt" /\ Winrt!StreamReady(s))
       /\ WF_winrtVars(part = "winrt" /\ Winrt!Answer(s))

-----------------------------------------------------------------------------
(* The properties of the parts.                                            *)

ReqwestBodyIsSent == Reqwest!BodyIsSent
EndIsWhole == Reqwest!EndIsWhole
NsBodyIsUploaded == Ns!BodyIsUploaded
WinrtBodiesAreUploaded == Winrt!BodyIsUploaded /\ WinrtBlocking!BodyIsUploaded
InvokedOnce == Winrt!InvokedOnce
ReadCompletes == part = "winrt" => Winrt!ReadCompletes

\* No upload is forgotten: each ends, fails or is not waited for any more.
UploadsEnd ==
  /\ part = "curl" => UploadEnds
  /\ part = "reqwest" => Reqwest!UploadEnds
  /\ part = "ns" => Ns!UploadEnds
=============================================================================
