------------------------------ MODULE CurlEasy ------------------------------
(***************************************************************************)
(* The easy handle of the curl backend's blocking client, under its layers *)
(* (callbacks, header list, share, mime, error buffer): made once, given   *)
(* the options of a request by populate_request, used for a transfer,      *)
(* reset layer by layer and used again.  Every call of curl_easy_setopt is *)
(* a step and may fail.  CurlBlocking has who owns the handle when.        *)
(***************************************************************************)
EXTENDS Naturals, Sequences

CONSTANTS
  Clients,   \* ClientOptions
  Requests,  \* requests
  MaxUses    \* bound on the requests given to the handle

\* The options of opt.rs and of the layers, and the body stream of the callbacks.
Options ==
  {"NOSIGNAL", "NOPROXY", "PROXY", "HTTPPROXYTUNNEL", "SUPPRESS_CONNECT_HEADERS",
   "USERAGENT", "COOKIEFILE", "TIMEOUT_MS", "TIMEOUT", "SSL_VERIFYPEER",
   "FOLLOWLOCATION", "URL", "HTTPGET", "POST", "UPLOAD", "NOBODY", "CUSTOMREQUEST",
   "INFILESIZE", "POSTFIELDS", "POSTFIELDSIZE", "COPYPOSTFIELDS", "ACCEPT_ENCODING",
   "WRITEDATA", "WRITEFUNCTION", "READDATA", "READFUNCTION", "HEADERDATA",
   "HEADERFUNCTION", "SEEKDATA", "SEEKFUNCTION", "HTTPHEADER", "SHARE", "MIMEPOST",
   "ERRORBUFFER", "body_stream"}

\* Options whose value is an object that a layer owns.
Owned == {"HTTPHEADER", "MIMEPOST"}

VARIABLES
  client,  \* the client's options
  uses,    \* requests given to the handle so far
  req,     \* the latest of them
  phase,   \* "create", "idle", "populate", "transfer", "done", "reset", "dropped"
  script,  \* the calls still to be made in this phase
  opts,    \* what each option is set to
  owned,   \* EasyWithHeaderList::list and MimeHandle::mime
  state,   \* the request the callbacks' RequestState has anything of
  err      \* the request whose failure is written in the error buffer

vars == <<client, uses, req, phase, script, opts, owned, state, err>>

Null == <<"null", 0>>
NoOne == 0

\* A call: an option, and a value of the client (0) or of the k-th request.
Set(o, what, k) == <<[opt |-> o, val |-> <<what, k>>]>>
Unset(o) == <<[opt |-> o, val |-> Null]>>
When(b, calls) == IF b THEN calls ELSE <<>>

-----------------------------------------------------------------------------
(* The layers' init and reset.                                             *)

BindCallbacks ==
  LET options == <<"WRITEDATA", "WRITEFUNCTION", "READDATA", "READFUNCTION", "HEADERDATA",
                   "HEADERFUNCTION", "SEEKDATA", "SEEKFUNCTION">> IN
  [i \in 1..8 |-> [opt |-> options[i], val |-> <<"handler", 0>>]]

SetNosignal == Set("NOSIGNAL", "true", 0)
BindShare == Set("SHARE", "share", 0)
Attach == Set("ERRORBUFFER", "error_buf", 0)
ClearMime == Unset("MIMEPOST")
ClearHeaders == Unset("HTTPHEADER")

InitCalls == Attach \o SetNosignal \o BindCallbacks \o BindShare

\* The layers after curl_easy_reset, from the inside out.
ResetLayers ==
  SetNosignal \o BindCallbacks \o ClearHeaders \o BindShare \o ClearMime \o Attach

\* Variant of ResetCalls: the error buffer is taken to be attached still.
ResetKeepsError ==
  <<[opt |-> "RESET", val |-> Null]>>
    \o (SetNosignal \o BindCallbacks \o ClearHeaders \o BindShare \o ClearMime)

ResetCalls == <<[opt |-> "RESET", val |-> Null]>> \o ResetLayers

-----------------------------------------------------------------------------
(* populate_request: the calls for client c and request r, the k-th.       *)

ProxyCalls(c, r) ==
  LET http == ~r.https /\ c.proxy.http
      https == r.https /\ c.proxy.https IN
  When(c.proxy.kind = "none", Set("NOPROXY", "*", 0))
  \o When(http, Set("PROXY", "http proxy", 0))
  \o When(https, Set("PROXY", "https proxy", 0) \o Set("HTTPPROXYTUNNEL", "true", 0)
                 \o Set("SUPPRESS_CONNECT_HEADERS", "true", 0))
  \o When(c.proxy.kind = "custom" /\ c.proxy.bypass, Set("NOPROXY", "bypass", 0))

\* A timeout too long for milliseconds in a c_long is set in seconds.
SetTimeout(timeout) ==
  CASE timeout = "none" -> <<>>
    [] timeout = "long" -> Set("TIMEOUT", "seconds", 0)
    [] OTHER -> Set("TIMEOUT_MS", "milliseconds", 0)

ClientCalls(c) ==
  When(c.agent, Set("USERAGENT", "agent", 0))
  \o When(c.cookies, Set("COOKIEFILE", "empty", 0))
  \o SetTimeout(c.timeout)
  \o When(c.insecure, Set("SSL_VERIFYPEER", "false", 0))
  \o When(c.redirects, Set("FOLLOWLOCATION", "true", 0))

MethodCalls(r, k) ==
  CASE r.method = "GET" /\ r.body = "none" -> Set("HTTPGET", "true", k)
    [] r.method = "GET" /\ r.body # "none" -> Set("CUSTOMREQUEST", "get", k)
    [] r.method = "POST" -> Set("POST", "true", k)
    [] r.method = "PUT" /\ r.body = "none" -> Set("CUSTOMREQUEST", "PUT", k)
    [] r.method = "PUT" /\ r.body # "none" -> Set("UPLOAD", "true", k)
    [] r.method \in {"HEAD", "head"} -> Set("NOBODY", "true", k)
    [] OTHER -> Set("CUSTOMREQUEST", r.method, k)

SetPostFields(k) ==
  Unset("POSTFIELDS") \o Set("POSTFIELDSIZE", "length", k)
  \o Set("COPYPOSTFIELDS", "content", k)

\* POST and PUT need a body, if an empty one.
BodyCalls(r, k) ==
  CASE r.body \in {"bytes", "form"} -> SetPostFields(k)
    [] r.body = "sized" ->
         Set("INFILESIZE", "length", k) \o Set("body_stream", "stream", k)
    [] r.body = "unsized" -> Set("body_stream", "stream", k)
    [] r.body = "multipart" -> Set("MIMEPOST", "mime", k)
    [] r.body = "none" /\ r.method \in {"POST", "PUT"} -> SetPostFields(k)
    [] OTHER -> <<>>

SetHeaders(k) == Set("HTTPHEADER", "list", k)

PopulateCalls(c, r, k) ==
  ProxyCalls(c, r) \o ClientCalls(c) \o Set("URL", "url", k) \o MethodCalls(r, k)
  \o Set("ACCEPT_ENCODING", "all", 0) \o BodyCalls(r, k) \o SetHeaders(k)

-----------------------------------------------------------------------------

Init ==
  /\ client \in Clients /\ uses = 0 /\ req \in Requests
  /\ phase = "create" /\ script = InitCalls
  /\ opts = [o \in Options |-> Null] /\ owned = [o \in Owned |-> Null]
  /\ state = NoOne /\ err = NoOne

\* What a call leaves set.  curl_easy_reset leaves the share, and the callbacks.
Apply(o, call) ==
  IF call.opt = "RESET"
    THEN [x \in Options |-> IF x \in {"SHARE", "body_stream"} THEN o[x] ELSE Null]
    ELSE [o EXCEPT ![call.opt] = call.val]

\* Variant of Own: the header list is dropped at the end of populate_request.
OwnMimeOnly(call, ok) ==
  owned' = IF ok /\ call.opt = "MIMEPOST"
             THEN [owned EXCEPT ![call.opt] = call.val] ELSE owned

\* A layer replaces its object once the call has succeeded.
Own(call, ok) ==
  owned' = IF ok /\ call.opt \in Owned
             THEN [owned EXCEPT ![call.opt] = call.val] ELSE owned

Call ==
  /\ script # <<>>
  /\ opts' = Apply(opts, Head(script)) /\ Own(Head(script), TRUE)
  /\ err' = IF Head(script).opt = "ERRORBUFFER" THEN NoOne ELSE err
  /\ script' = Tail(script)
  /\ UNCHANGED <<client, uses, req, phase, state>>

\* A failing call ends the phase; curl may have written why.  The guard of a request
\* still resets its handle, and drops it when that fails.
CallFails ==
  /\ script # <<>> /\ Head(script).opt \notin {"RESET", "body_stream"}
  /\ Own(Head(script), FALSE)
  /\ err' \in {IF Head(script).opt = "ERRORBUFFER" THEN NoOne ELSE err, uses}
  /\ script' = <<>>
  /\ phase' = IF phase = "populate" THEN "done" ELSE "dropped"
  /\ UNCHANGED <<client, uses, req, opts, state>>

\* The last call of a phase has succeeded.
Finish ==
  /\ script = <<>> /\ phase \in {"create", "populate", "reset"}
  /\ phase' = IF phase = "populate" THEN "transfer" ELSE "idle"
  /\ UNCHANGED <<client, uses, req, script, opts, owned, state, err>>

PopulateRequest(r) ==
  /\ phase = "idle" /\ uses < MaxUses
  /\ uses' = uses + 1 /\ req' = r
  /\ phase' = "populate" /\ script' = PopulateCalls(client, r, uses + 1)
  /\ UNCHANGED <<client, opts, owned, state, err>>

\* The callbacks fill the state; curl may note errors that it survives.
Transfer ==
  /\ phase = "transfer"
  /\ state' = uses /\ err' \in {err, uses}
  /\ UNCHANGED <<client, uses, req, phase, script, opts, owned>>

\* The response is dropped, or an error is returned first.
EndTransfer ==
  /\ phase = "transfer" /\ phase' = "done"
  /\ err' \in {err, uses}
  /\ UNCHANGED <<client, uses, req, script, opts, owned, state>>

\* reset_easy_state: the callbacks start from their defaults, then the layers.
ResetEasyState ==
  /\ phase = "done" /\ phase' = "reset" /\ script' = ResetCalls
  /\ state' = NoOne /\ opts' = [opts EXCEPT !["body_stream"] = Null]
  /\ UNCHANGED <<client, uses, req, owned, err>>

Next ==
  \/ Call \/ CallFails \/ Finish \/ (\E r \in Requests : PopulateRequest(r))
  \/ Transfer \/ EndTransfer \/ ResetEasyState

Spec == Init /\ [][Next]_vars

-----------------------------------------------------------------------------
(* Properties.                                                             *)

\* What the calls leave of an option's value o: the last of them that sets it decides.
Sets(calls, opt) == {i \in 1..Len(calls) : calls[i].opt = opt}
Latest(calls, opt) == CHOOSE i \in Sets(calls, opt) : \A j \in Sets(calls, opt) : j <= i
After(o, calls) ==
  [opt \in Options |-> IF Sets(calls, opt) = {} THEN o[opt] ELSE calls[Latest(calls, opt)].val]

\* A new handle's options once it is made.
Made == After([opt \in Options |-> Null], InitCalls)

\* A transfer starts from what a handle made for this request alone would have: no
\* option, stream, received data or error message is left of an earlier request,
\* whether that was populated to its end or given up half-way.
ReusedIsFresh ==
  /\ phase = "transfer" => opts = After(Made, PopulateCalls(client, req, uses))
  /\ phase \in {"idle", "populate"} => state = NoOne
  /\ phase \in {"populate", "transfer", "done"} => err \in {NoOne, uses}

\* The header list and mime curl would read are the ones the layers still own.
PointersAreAlive == \A o \in Owned : opts[o] \in {Null, owned[o]}

=============================================================================
