--------------------------- MODULE MCCurlBlocking ---------------------------
(***************************************************************************)
(* The curl backend's blocking client for TLC: two interchangeable threads *)
(* on the pool, clients and requests that differ in every option, sections *)
(* that nest as libcurl's do, and responses of up to three blocks.         *)
(***************************************************************************)
EXTENDS CurlParts, TLC

CONSTANTS t1, t2

MCThreads == {t1, t2}
Symmetry == Permutations(MCThreads)

Proxy(kind, given) == [kind |-> kind, http |-> given, https |-> given, bypass |-> given]
Client(proxy, given, timeout) ==
  [proxy |-> proxy, agent |-> given, cookies |-> given, timeout |-> timeout,
   insecure |-> given, redirects |-> given]
MCClients ==
  {Client(Proxy("none", FALSE), FALSE, "none"),
   Client(Proxy("custom", TRUE), TRUE, "long"),
   Client(Proxy("default", FALSE), TRUE, "short")}

Request(method, content, https) ==
  [method |-> method, body |-> content, https |-> https]
MCRequests ==
  {Request("GET", "none", TRUE), Request("GET", "bytes", FALSE),
   Request("POST", "none", FALSE), Request("POST", "multipart", TRUE),
   Request("POST", "unsized", FALSE), Request("PUT", "sized", TRUE),
   Request("PUT", "none", FALSE), Request("head", "none", TRUE),
   Request("patch", "form", FALSE)}

\* libcurl looks cookies' domains up in the public suffix list inside the cookie lock.
MCSections == {<<"COOKIE", "PSL">>, <<"HSTS">>, <<"DNS">>, <<"CONNECT">>}

Block(code, established, fields) ==
  [code |-> code, established |-> established, fields |-> fields]
\* Proxies answer CONNECT with a reason of their own, and after a 417 libcurl repeats the
\* request without Expect.
Connected == Block(200, FALSE, 1)
Interim == {Block(100, FALSE, 0), Block(103, FALSE, 1), Block(200, TRUE, 1), Connected,
            Block(302, FALSE, 2), Block(417, FALSE, 1)}
Final == {Block(200, FALSE, 2), Block(204, FALSE, 0), Block(302, FALSE, 1)}
MCResponses ==
  {<<f>> : f \in Final} \cup {<<i, f>> : i \in Interim, f \in Final}
    \cup {<<i, j, f>> : i, j \in Interim, f \in Final}

\* Each part that stands still does so in one of its initial states.
MCInit ==
  /\ PartsInit
  /\ part # "easy" => client = Client(Proxy("none", FALSE), FALSE, "none")
  /\ request = Request("GET", "none", TRUE)
  /\ part # "header" => blocks = <<Block(200, FALSE, 2)>>

MCSpec == MCInit /\ [][PartsNext]_PartsVars

\* A proxy's answer to CONNECT, and then the server's.
ConnectInit ==
  MCInit /\ part = "header" /\ blocks \in {<<Connected, f>> : f \in Final}
ConnectSpec == ConnectInit /\ [][PartsNext]_PartsVars

=============================================================================
