------------------------------ MODULE CurlParts ------------------------------
(***************************************************************************)
(* The curl backend's blocking client in four parts: the pool of handles,  *)
(* which this module extends, the easy handle, the share, the response's   *)
(* header.  Each has its own view of libcurl and its own state: a behaviour *)
(* is one of them and the others stand still.                              *)
(***************************************************************************)
EXTENDS CurlBlocking

CONSTANTS
  EasyClients, EasyRequests, MaxUses,   \* CurlEasy's
  Drivers, Sections, MaxRounds,         \* CurlShare's, whose threads are the Drivers
  Responses                             \* CurlHeader's

VARIABLES part,
  client, uses, request, phase, script, opts, owned, state, err,
  section, inside, step, rounds, main, slotLock, guard,
  blocks, at, temp_status_code, is_established, header_finished,
  response_headers_buffer, taken

easyVars == <<client, uses, request, phase, script, opts, owned, state, err>>
shareVars == <<section, inside, step, rounds, main, slotLock, guard>>
headerVars == <<blocks, at, temp_status_code, is_established, header_finished,
                response_headers_buffer, taken>>

Easy == INSTANCE CurlEasy WITH
  Clients <- EasyClients, Requests <- EasyRequests, req <- request

Share == INSTANCE CurlShare WITH Threads <- Drivers, pc <- step, slot <- guard

Header == INSTANCE CurlHeader

Blocks == [code : Nat, established : BOOLEAN, fields : Nat]

\* libcurl locks kinds of data that are shared.  A response is the blocks that libcurl
\* passes on, of any codes: informational ones, redirects, a proxy's answers to CONNECT,
\* answers after which libcurl repeats the request, and the final one.
ASSUME CurlPartsAssumption ==
  /\ Share!NoThread \notin Drivers
  /\ Sections \subseteq Seq(DOMAIN Share!Kind)
  /\ Responses \subseteq Seq(Blocks) \ {<<>>}

-----------------------------------------------------------------------------

PartsInit ==
  /\ part \in {"pool", "easy", "share", "header"}
  /\ Init /\ Easy!Init /\ Share!Init /\ Header!Init

PartsNext ==
  /\ UNCHANGED part
  /\ \/ part = "pool" /\ Next /\ UNCHANGED <<easyVars, shareVars, headerVars>>
     \/ part = "easy" /\ Easy!Next /\ UNCHANGED <<vars, shareVars, headerVars>>
     \/ part = "share" /\ Share!Next /\ UNCHANGED <<vars, easyVars, headerVars>>
     \/ part = "header" /\ Header!Next /\ UNCHANGED <<vars, easyVars, shareVars>>

PartsVars == <<part, vars, easyVars, shareVars, headerVars>>

PartsSpec == PartsInit /\ [][PartsNext]_PartsVars

-----------------------------------------------------------------------------
(* The properties of the parts.                                            *)

ReusedIsFresh == Easy!ReusedIsFresh
PointersAreAlive == Easy!PointersAreAlive
SharedDataIsExclusive == Share!SharedDataIsExclusive
HeaderIsComplete == Header!HeaderIsComplete
HeaderIsFinal == Header!HeaderIsFinal

=============================================================================
