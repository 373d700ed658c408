----------------------------- MODULE MCExchanges -----------------------------
(***************************************************************************)
(* The requests of the backends other than curl's, side by side.  They     *)
(* share no state: a behaviour is one of them, the others stand still.     *)
(***************************************************************************)
EXTENDS Exchanges

-----------------------------------------------------------------------------
(* WinHTTP's blocking client.                                              *)

Text(n) == [i \in 1..n |-> <<"x", i>>]
Bytes(n) == [stream |-> FALSE, sized |-> TRUE, data |-> Text(n)]
Stream(n, sized) == [stream |-> TRUE, sized |-> sized, data |-> Text(n)]
Body(kind, ps) == [kind |-> kind, parts |-> ps]

MCSyncBodies ==
  {Body("none", <<>>), Body("form", <<Bytes(2)>>),
   Body("bytes", <<Bytes(0)>>), Body("bytes", <<Bytes(9)>>),
   Body("stream", <<Stream(3, TRUE)>>), Body("stream", <<Stream(3, FALSE)>>),
   Body("stream", <<Stream(0, FALSE)>>),
   Body("multipart", <<Bytes(1), Bytes(0)>>),
   Body("multipart", <<Stream(2, TRUE), Bytes(1)>>),
   Body("multipart", <<Bytes(1), Stream(3, FALSE), Stream(1, TRUE)>>)}

Url(scheme, port) == [scheme |-> scheme, host |-> "a", port |-> port, path |-> "/p"]

MCSyncClients ==
  {[base |-> {Url("https", 0)}, timeout |-> TRUE, redirects |-> FALSE, anyCert |-> TRUE,
    cookies |-> TRUE],
   [base |-> {}, timeout |-> FALSE, redirects |-> TRUE, anyCert |-> TRUE, cookies |-> FALSE]}

MCUris == {Url("http", 8), [Url("https", 0) EXCEPT !.path = ""], Url("", 0)}
MCSyncLimits == {{}, {2}, {3}}
MCHeaderValues == <<"v1", "v2">>

-----------------------------------------------------------------------------
(* WinRT, NSURLSession and reqwest.                                        *)

MCTimeouts == {NoTimeout, 0, 2}
MCWinrtLimits == {NoLimit, 2, 3}

MCReqwestBodies == {<<2>>, <<1, 2>>, <<0, 1>>}
MCSides == {{"inside", "outside"}}

-----------------------------------------------------------------------------
(* The messages of all backends.                                           *)

Header(name, case, value) == [name |-> name, case |-> case, value |-> value]
Content(kind, streams, sized) ==
  [kind |-> kind, type |-> kind, streams |-> streams, sized |-> sized]

NoContent == [kind |-> "none", type |-> "", streams |-> FALSE, sized |-> TRUE]

MCBackends == {"curl", "winhttp", "nsurlsession", "winrt", "reqwest"}
MCMethods == {"GET", "POST", "PUT", "DELETE", "custom"}
MCDefaults ==
  {<<>>,
   <<Header("accept", "upper", "d1"), Header("expires", "lower", "d2")>>,
   <<Header("content-type", "lower", "d3"), Header("accept", "lower", "d1")>>,
   <<Header("accept", "lower", "d4"), Header("accept", "upper", "d5")>>}
MCHeaders ==
  {<<>>, <<Header("accept", "lower", "r1")>>,
   <<Header("x", "upper", "r2"), Header("expires", "upper", "r3")>>,
   <<Header("content-type", "upper", "r4")>>,
   <<Header("x", "lower", "r5"), Header("accept", "upper", "r6"), Header("x", "lower", "r7")>>,
   <<Header("content-length", "upper", "r8")>>}
MCContentNames == {"content-type", "content-length"}
MCMessageBodies ==
  {NoContent,
   Content("bytes", FALSE, TRUE), Content("form", FALSE, TRUE),
   Content("stream", TRUE, TRUE), Content("stream", TRUE, FALSE),
   Content("multipart", FALSE, TRUE), Content("multipart", TRUE, TRUE)}

-----------------------------------------------------------------------------

\* One part starts in any of its initial states, each of the others in one.
MCInit ==
  /\ part \in {"winhttp", "winhttp blocking", "winrt", "ns", "reqwest", "message"}
  /\ part # "winhttp" => streaming = FALSE
  /\ part # "winhttp blocking" =>
       breq = [client |-> CHOOSE c \in SyncClients : c.cookies, uri |-> Url("http", 8),
               body |-> Body("none", <<>>), limit |-> {}]
  /\ part # "winrt" =>
       conf = [client |-> "async", timeout |-> NoTimeout, limit |-> NoLimit, content |-> TRUE,
               whole |-> WinrtLen]
  /\ part # "ns" => mode = "async"
  /\ part # "reqwest" => side = {"inside", "outside"}
  /\ part # "message" =>
       /\ backend = "curl" /\ defaults = <<>>
       /\ request = [method |-> "GET", headers |-> <<>>, body |-> NoContent]
  /\ ExchangesInit

MCSpec == MCInit /\ [][ExchangesNext]_ExchangesVars /\ ExchangesFairness

=============================================================================
