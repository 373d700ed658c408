---------------------------- MODULE RequestMessage ----------------------------
(***************************************************************************)
(* The message a backend makes of a request: the method it names and the   *)
(* header lines it sends, out of the request's own headers, the client's   *)
(* default headers and the media type of the body.  Each backend has a     *)
(* library of its own to leave the rest to: curl and WinHTTP are given the *)
(* lines, NSMutableURLRequest, Windows.Web.Http and reqwest keep           *)
(* collections of headers and add the defaults themselves.                 *)
(*                                                                         *)
(* A header is its name, the case it is spelled in and its value; header   *)
(* names are the same in any case.                                         *)
(***************************************************************************)
EXTENDS Naturals, Sequences, SequencesExt

CONSTANTS
  Backends,   \* which of curl, winhttp, nsurlsession, winrt and reqwest
  Methods,    \* the methods requests have, "custom" for Method::custom
  Defaults,   \* the default headers clients have
  Headers,    \* the headers requests have
  Bodies,     \* the bodies they have: kind, media type, whether they hold streams and
              \* are all of known size
  ContentNames \* the names of headers that begin with "content-"

VARIABLES backend, defaults, request, message

vars == <<backend, defaults, request, message>>

NoBody == [kind |-> "none", type |-> "", streams |-> FALSE, sized |-> TRUE]
HasBody == request.body # NoBody

Line(name, value) == [name |-> name, case |-> "lower", value |-> value]

\* The headers at these places, in their order.
At(places, headers) ==
  LET taken[n \in 0..Len(headers)] ==
        IF n = 0 THEN <<>>
        ELSE IF n \in places THEN Append(taken[n - 1], headers[n])
        ELSE taken[n - 1]
  IN taken[Len(headers)]

Names(headers) == {headers[i].name : i \in DOMAIN headers}

Only(names, headers) == At({i \in DOMAIN headers : headers[i].name \in names}, headers)
Without(names, headers) ==
  At({i \in DOMAIN headers : headers[i].name \notin names}, headers)

Named(name, headers) == Only({name}, headers)
Values(name, headers) ==
  LET named == Named(name, headers) IN [i \in DOMAIN named |-> named[i].value]

\* The line of a body's media type: Content-Type.
MediaType == Line("content-type", request.body.type)

If(condition, headers) == IF condition THEN headers ELSE <<>>

\* Variant of Vacant: a default is overridden by the same spelling only.
VacantAsSpelled(headers) ==
  At({i \in DOMAIN defaults : \A j \in DOMAIN headers :
        <<headers[j].name, headers[j].case>> # <<defaults[i].name, defaults[i].case>>},
     defaults)

\* The defaults that none of these headers overrides, compared without case.
Vacant(headers) == Without(Names(headers), defaults)

-----------------------------------------------------------------------------
(* curl: populate_request.                                                 *)

\* The custom request, an option: libcurl's name for the method if there is none.
CustomRequest ==
  CASE request.method = "GET" /\ HasBody -> {"get"}
    [] request.method = "PUT" /\ ~HasBody -> {"PUT"}
    [] request.method = "DELETE" -> {"delete"}
    [] request.method = "PATCH" -> {"patch"}
    [] request.method = "custom" -> {"custom"}
    [] OTHER -> {}

\* Fields to post make libcurl forget an upload.
PostFields == request.body.kind \in {"bytes", "form", "multipart"}

CurlMethod ==
  IF CustomRequest # {} THEN CHOOSE name \in CustomRequest : TRUE
  ELSE IF PostFields THEN "POST"
  ELSE request.method

\* libcurl adds the media types of a form and of a multipart body itself.
CurlHeaders ==
  Vacant(request.headers) \o request.headers
    \o If(request.body.kind \in {"bytes", "stream"}, <<MediaType>>)
    \o If(request.body.kind \in {"form", "multipart"}
            /\ "content-type" \notin Names(request.headers \o defaults), <<MediaType>>)

-----------------------------------------------------------------------------
(* WinHTTP: prepare_additional_headers.                                    *)

\* The length of a body of streams, or chunks if it is not known.
Framing ==
  IF ~request.body.streams THEN <<>>
  ELSE IF request.body.sized
    THEN If("content-length" \notin Names(request.headers),
            <<Line("content-length", "its length")>>)
    ELSE If("transfer-encoding" \notin Names(request.headers),
            <<Line("transfer-encoding", "chunked")>>)

WinHttpHeaders ==
  request.headers
    \o If(HasBody /\ "content-type" \notin Names(request.headers), <<MediaType>>)
    \o Framing
    \o Vacant(request.headers)

-----------------------------------------------------------------------------
(* NSURLSession: build_data_task.                                          *)

\* setValue_forHTTPHeaderField.
SetValue(headers, header) == Append(Without({header.name}, headers), header)

\* What is left of headers that are set one after the other, the last of each name.
Lasts(headers) ==
  At({i \in DOMAIN headers :
        \A j \in DOMAIN headers : headers[j].name = headers[i].name => j <= i}, headers)

\* The length of a stream, if it is known, is set; its framing is Foundation's.
NsRequest ==
  LET set == Lasts(request.headers)
      typed == IF HasBody THEN SetValue(set, MediaType) ELSE set
  IN IF request.body.kind = "stream" /\ request.body.sized
       THEN SetValue(typed, Line("content-length", "its length"))
       ELSE typed

\* What is left of headers that are each added where none of the name is.
Firsts(headers) ==
  At({i \in DOMAIN headers :
        \A j \in DOMAIN headers : headers[j].name = headers[i].name => i <= j}, headers)

\* The session adds its additional headers, a dictionary, to a request that has not set
\* them.
NsHeaders == NsRequest \o Firsts(Vacant(NsRequest))

-----------------------------------------------------------------------------
(* WinRT: WinrtClient::create, create_request, append_content_headers.     *)

\* is_header_name_content_related.
ContentRelated == ContentNames \cup {"expires", "last-modified"}

\* The request's collection refuses a content header, which the code does not look
\* at; HttpClient adds the default headers that the request does not have.
RequestCollection ==
  LET own == Without(ContentRelated, request.headers)
  IN own \o Without(ContentRelated, Vacant(own))

\* A default content-type is ignored; the body has its own.
DefaultContent == Only(ContentRelated \ {"content-type"}, defaults)

ContentCollection ==
  If(HasBody, <<MediaType>> \o Only(ContentRelated, request.headers) \o DefaultContent)

WinrtHeaders == RequestCollection \o ContentCollection

-----------------------------------------------------------------------------
(* reqwest: build_request_generic, build_reqwest_client.                   *)

\* header() appends, form() only sets a media type that is vacant; the client adds the
\* defaults to entries that are vacant.
ReqwestRequest ==
  request.headers
    \o If(request.body.kind \in {"bytes", "stream", "multipart"}
            \/ (request.body.kind = "form"
                  /\ "content-type" \notin Names(request.headers)), <<MediaType>>)

ReqwestHeaders == ReqwestRequest \o Firsts(Vacant(ReqwestRequest))

-----------------------------------------------------------------------------

Init ==
  /\ backend \in Backends /\ defaults \in Defaults
  /\ request \in [method: Methods, headers: Headers, body: Bodies]
  /\ message = [method |-> "none", headers |-> <<>>]

Send(name, method, headers) ==
  /\ backend = name
  /\ message' = [method |-> method, headers |-> headers]

Build ==
  /\ message.method = "none"
  /\ \/ Send("curl", CurlMethod, CurlHeaders)
     \/ Send("winhttp", request.method, WinHttpHeaders)
     \/ Send("nsurlsession", request.method, NsHeaders)
     \/ Send("winrt", request.method, WinrtHeaders)
     \/ Send("reqwest", request.method, ReqwestHeaders)
  /\ UNCHANGED <<backend, defaults, request>>

Next == Build

Spec == Init /\ [][Next]_vars

-----------------------------------------------------------------------------
(* Properties.                                                             *)

\* The values a header should have: the request's, or else the client's.
Wanted(name) ==
  IF name \in Names(request.headers) THEN Values(name, request.headers)
  ELSE Values(name, defaults)

\* Names of headers that say where a body ends, which a backend adds to a stream.
FramingNames == {"content-length", "transfer-encoding"}

\* NSURLSession keeps one value of each name, reqwest one of the defaults.
KeepsOne(name) ==
  \/ backend = "nsurlsession"
  \/ backend = "reqwest" /\ name \notin Names(request.headers)

\* The methods that curl's backend alters: delete, patch and the get of a body are sent in
\* lower case, and fields to post turn a PUT into a POST.
MethodIsAltered ==
  /\ backend = "curl"
  /\ \/ request.method \in {"DELETE", "PATCH"}
     \/ HasBody /\ request.method \notin {"POST", "custom"}

\* In every backend the method of the request is the one it is sent with, unless curl
\* alters it, and a header of the request is sent with its values, instead of the
\* default headers of that name in any case, and every other default is sent; a body
\* is sent with its media type, or with the request's.  Excepted are a content-type
\* beside a body and the framing of a stream, which the backends treat differently,
\* and WinRT's content headers, which need a body and are sent beside the default.
HeadersAreSent ==
  message.method # "none" =>
    /\ message.method = request.method \/ MethodIsAltered
    /\ \A name \in Names(request.headers) \cup Names(defaults) :
         LET sent == Values(name, message.headers) IN
         \/ name = "content-type" /\ HasBody
         \/ name \in FramingNames /\ request.body.streams
         \/ /\ backend = "winrt" /\ name \in ContentRelated
            /\ HasBody => ToSet(Wanted(name)) \subseteq ToSet(sent)
         \/ KeepsOne(name) /\ \E value \in ToSet(Wanted(name)) : sent = <<value>>
         \/ sent = Wanted(name)
    /\ HasBody =>
         LET types == Values("content-type", message.headers) IN
         \/ request.body.type \in ToSet(types)
         \/ types = Values("content-type", request.headers)
         \/ backend = "curl" /\ types = Wanted("content-type")

=============================================================================
