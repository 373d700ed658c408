-------------------------- MODULE WinHttpBlocking ---------------------------
(***************************************************************************)
(* The blocking WinHTTP client: the calls that make and configure the      *)
(* handles, the preparation of a body (request.rs, multipart.rs), the      *)
(* stream writer that frames it (stream/writer.rs), the loop that writes   *)
(* it, and the response that is read back within a limit.                  *)
(*                                                                         *)
(* A byte is a token <<kind, index>>; the lines "size CRLF CRLF" that      *)
(* frame a chunk are three tokens for at most twelve bytes.  An option of  *)
(* the source is a set of at most one element.                             *)
(***************************************************************************)
EXTENDS Naturals, Sequences, SequencesExt, FiniteSetsExt

CONSTANTS
  Bodies,            \* the request bodies a caller sends
  Clients,           \* the options of a client
  Uris,              \* the URIs asked for, absolute or relative
  U32Max,            \* u32::MAX
  ChunkBufferSize,   \* CHUNK_BUFFER_SIZE, Decoration tokens of it for framing
  Limits,            \* values of max_response_buffer_size, as options
  ResponseLen,       \* tokens in the body of the response
  Values             \* the values of the header that is asked for

Decoration == 3

VARIABLES
  req,       \* what the caller asked for: client, uri, body, limit
  pc,        \* where request() and the response's methods are
  calls,     \* WinHTTP calls the current function still has to make
  total,     \* the length WinHttpSendRequest was given
  parts,     \* StreamWriter::data_parts
  buffer,    \* StreamWriter::buffer
  finished,  \* StreamWriter::finished
  chunk,     \* buf[range] of the write loop
  wire,      \* the body as the server gets it
  left,      \* tokens of the response not read yet
  got,       \* tokens bytes() has collected
  room,      \* max_to_read of bytes(), {} for usize::MAX
  index,     \* next_value_idx of query_header
  found      \* the values query_header has collected

writerVars == <<parts, buffer, finished, chunk>>
headerVars == <<index, found>>
readVars == <<left, got, room, headerVars>>
vars == <<req, pc, calls, total, writerVars, wire, readVars>>

-----------------------------------------------------------------------------
(* Preparing the body.                                                     *)

CRLF == <<"crlf", 0>>
Zero == <<"zero", 0>>
Data(tokens) == [stream |-> FALSE, sized |-> TRUE, data |-> tokens]

\* Variant of GenerateMultipart: the line end after a stream is forgotten.
GenerateMultipartBare(ps) ==
  LET Add(acc, i) ==
        LET text == Append(acc.text, <<"head", i>>) IN
        IF ps[i].stream
          THEN [out |-> acc.out \o <<Data(text), ps[i]>>, text |-> <<>>]
          ELSE [acc EXCEPT !.text = text \o ps[i].data \o <<CRLF>>]
      all == FoldLeft(Add, [out |-> <<>>, text |-> <<>>],
                      [i \in 1..Len(ps) |-> i])
  IN Append(all.out, Data(Append(all.text, <<"end", 0>>)))

\* generate_multipart_body: text is collected until a stream interrupts it.
GenerateMultipart(ps) ==
  LET Add(acc, i) ==
        LET text == Append(acc.text, <<"head", i>>) IN
        IF ps[i].stream
          THEN [out |-> acc.out \o <<Data(text), ps[i]>>, text |-> <<CRLF>>]
          ELSE [acc EXCEPT !.text = text \o ps[i].data \o <<CRLF>>]
      all == FoldLeft(Add, [out |-> <<>>, text |-> <<>>],
                      [i \in 1..Len(ps) |-> i])
  IN Append(all.out, Data(Append(all.text, <<"end", 0>>)))

\* The contents of parts, one after the other.
Contents(ps) == FlattenSeq([i \in DOMAIN ps |-> ps[i].data])

\* The sum over Option<u64>: unknown when one of the streams is unsized.
TotalLength(ps) ==
  IF \E i \in DOMAIN ps : ~ps[i].sized THEN {} ELSE {Len(Contents(ps))}

Complete(tokens) == [kind |-> "complete", parts |-> <<Data(tokens)>>, len |-> {Len(tokens)}]
Streamed(ps) == [kind |-> "stream", parts |-> ps, len |-> TotalLength(ps)]

\* Bytes too many for one call are cut into pieces of u32::MAX.
Pieces(tokens) ==
  [i \in 1..((Len(tokens) + U32Max - 1) \div U32Max) |->
     Data(SubSeq(tokens, (i - 1) * U32Max + 1, Min({i * U32Max, Len(tokens)})))]

\* A body of parts without a stream is joined and sent in one piece.
PrepareParts(ps) ==
  IF \E i \in DOMAIN ps : ps[i].stream THEN Streamed(ps) ELSE Complete(Contents(ps))

PrepareBody(body) ==
  CASE body.kind = "none" -> [kind |-> "none", parts |-> <<>>, len |-> {0}]
    [] body.kind = "bytes" -> IF Len(body.parts[1].data) <= U32Max
                                THEN Complete(body.parts[1].data)
                                ELSE Streamed(Pieces(body.parts[1].data))
    [] body.kind = "form" -> Complete(body.parts[1].data)
    [] body.kind = "stream" -> Streamed(body.parts)
    [] body.kind = "multipart" -> PrepareParts(GenerateMultipart(body.parts))

Prepared == PrepareBody(req.body)
Chunked == Prepared.kind = "stream" /\ Prepared.len = {}

-----------------------------------------------------------------------------
(* The handles and their options: url.rs, session.rs, handle/, create_request. *)

If(condition, names) == IF condition THEN names ELSE <<>>

\* concat_url: an absolute URI stands for itself; UrlCombineW does the rest.
ConcatUrl(base, uri) ==
  IF uri.scheme # "" \/ base = {} THEN uri
  ELSE LET b == CHOOSE b \in base : TRUE IN [b EXCEPT !.path = uri.path]

\* ParsedUrl::parse: only https is secure, and a port left out is the scheme's.
Parsed(url) ==
  LET secure == url.scheme = "https" IN
  [secure |-> secure, host |-> url.host,
   port |-> IF url.port # 0 THEN url.port ELSE IF secure THEN 443 ELSE 80,
   path |-> IF url.path = "" THEN "/" ELSE url.path]

Target == Parsed(ConcatUrl(req.client.base, req.uri))

\* WinHttpSession::new: what the handle and its options are given (the user agent, the
\* proxy and what goes past it, the times) is left out.
SessionCalls(client) ==
  <<"session">> \o If(client.timeout, <<"timeouts", "response timeout">>)
    \o <<IF client.redirects THEN "redirects on" ELSE "redirects off">>

\* create_request.
RequestCalls(client, target) ==
  <<"connect", "open">>
    \o If(client.anyCert /\ target.secure, <<"any certificate">>)
    \o If(~client.cookies, <<"no cookies">>)
    \o If(~client.redirects, <<"redirects off">>)
    \o If(client.timeout, <<"receive response timeout", "receive timeout">>)

Init ==
  /\ req \in [client: Clients, uri: Uris, body: Bodies, limit: Limits]
  /\ pc = "session" /\ calls = SessionCalls(req.client)
  /\ total = 0 /\ wire = <<>>
  /\ parts = <<>> /\ buffer = <<>> /\ finished = FALSE /\ chunk = <<>>
  /\ left = ResponseLen /\ got = 0 /\ room = {}
  /\ index = 0 /\ found = <<>>

\* Any call may fail: `?` returns, and the handles are closed as they drop.
Fail ==
  /\ pc \notin {"failed", "large", "whole"}
  /\ pc' = "failed"
  /\ UNCHANGED <<req, calls, total, writerVars, wire, readVars>>

\* One call that makes a handle or sets an option.
Configure ==
  /\ pc \in {"session", "create"} /\ calls # <<>>
  /\ calls' = Tail(calls)
  /\ UNCHANGED <<req, pc, total, writerVars, wire, readVars>>

\* request(): a URL without a scheme cannot be parsed; the handles follow from it, and
\* headers are added if there are any: a body has at least its type.
CreateRequest ==
  /\ pc = "session" /\ calls = <<>>
  /\ IF ConcatUrl(req.client.base, req.uri).scheme = ""
       THEN pc' = "failed" /\ UNCHANGED calls
       ELSE /\ pc' = "create"
            /\ \E headers \in {<<>>, <<"headers">>} :
                 /\ req.body.kind # "none" => headers # <<>>
                 /\ calls' = RequestCalls(req.client, Target) \o headers
  /\ UNCHANGED <<req, total, writerVars, wire, readVars>>

\* RequestHandle::send: the length is cut to 32 bits.
SendComplete(body) ==
  /\ total' = Len(body) % (U32Max + 1)
  /\ wire' = SubSeq(body, 1, total')
  /\ pc' = "receive"
  /\ UNCHANGED <<parts, buffer>>

\* send_with_total_length and send_chunked: a length beyond 32 bits, or none, is
\* left to the headers.
TotalLengthOf(len) == IF len = {} THEN U32Max ELSE Min(len \cup {U32Max})

SendStreaming ==
  /\ total' = TotalLengthOf(Prepared.len)
  /\ parts' = Prepared.parts
  /\ buffer' = [i \in 1..ChunkBufferSize |-> Zero]
  /\ pc' = "take"
  /\ UNCHANGED wire

Send ==
  /\ pc = "create" /\ calls = <<>>
  /\ IF Prepared.kind = "stream"
       THEN SendStreaming
       ELSE SendComplete(Contents(Prepared.parts))
  /\ UNCHANGED <<req, calls, finished, chunk, readVars>>

-----------------------------------------------------------------------------
(* StreamWriter.                                                           *)

Resized(buf) ==
  [i \in 1..ChunkBufferSize |-> IF i <= Len(buf) THEN buf[i] ELSE Zero]

\* decorate_buffer_for_chunked_encoding: the framing is laid after the data, over
\* what the buffer held there, and all but its last line end rotated to the front.
Decorated(buf, end) ==
  LET line == <<<<"size", end>>, CRLF, CRLF>>
      laid == SubSeq(buf, 1, end) \o line \o SubSeq(buf, end + 4, Len(buf))
  IN SubSeq(laid, end + 1, end + 2) \o SubSeq(laid, 1, end)
       \o SubSeq(laid, end + 3, Len(laid))

LastChunk == <<<<"size", 0>>, CRLF, CRLF>>

MaxChunkSize == IF Chunked THEN ChunkBufferSize - Decoration ELSE ChunkBufferSize

\* The loop of poll_take_buffer passes over used up data and ended streams.
Remaining ==
  LET n == Min({i \in DOMAIN parts : parts[i].data # <<>>} \cup {Len(parts) + 1})
  IN SubSeq(parts, n, Len(parts))

\* A buffer with n tokens to write becomes the chunk of the write loop.
Offer(buf, n) ==
  IF Chunked
    THEN /\ buffer' = Decorated(buf, n)
         /\ chunk' = SubSeq(Decorated(buf, n), 1, n + 3)
    ELSE /\ buffer' = buf
         /\ chunk' = SubSeq(buf, 1, n)

\* poll_take_buffer: a data part whole, up to a buffer of a stream, or the end.
TakeBuffer ==
  /\ pc = "take" /\ ~finished
  /\ pc' = "write"
  /\ IF Remaining = <<>>
       THEN /\ finished' = TRUE /\ parts' = <<>>
            /\ chunk' = If(Chunked, LastChunk)
            /\ UNCHANGED buffer
       ELSE LET part == Head(Remaining) IN
            /\ UNCHANGED finished
            /\ \E n \in IF part.stream
                          THEN 1..Min({MaxChunkSize, Len(part.data)})
                          ELSE {Len(part.data)} :
                 /\ parts' = [Remaining EXCEPT ![1].data = SubSeq(@, n + 1, Len(@))]
                 /\ IF part.stream
                      THEN Offer(SubSeq(part.data, 1, n)
                                   \o SubSeq(Resized(buffer), n + 1, ChunkBufferSize), n)
                      ELSE Offer(part.data, n)
  /\ UNCHANGED <<req, calls, total, wire, readVars>>

\* write_data: WinHTTP takes some of what it is given, at most u32::MAX of it.
Accepted == 1..Min({Len(chunk), U32Max})

WriteData ==
  /\ pc = "write" /\ chunk # <<>>
  /\ \E n \in Accepted :
       /\ wire' = wire \o SubSeq(chunk, 1, n)
       /\ chunk' = SubSeq(chunk, n + 1, Len(chunk))
  /\ UNCHANGED <<req, pc, calls, total, parts, buffer, finished, readVars>>

\* advance keeps the buffer for a stream; the loop ends with the writer.
Advance ==
  /\ pc = "write" /\ chunk = <<>>
  /\ buffer' = IF parts # <<>> /\ Head(parts).stream THEN Resized(buffer) ELSE <<>>
  /\ pc' = IF finished THEN "receive" ELSE "take"
  /\ UNCHANGED <<req, calls, total, parts, finished, chunk, wire, readVars>>

-----------------------------------------------------------------------------
(* The response.                                                           *)

Receive ==
  /\ pc = "receive"
  /\ pc' = "open"
  /\ UNCHANGED <<req, calls, total, writerVars, wire, readVars>>

\* Read::read: what is available, as much as the caller's buffer takes.
Read ==
  /\ pc = "open" /\ left > 0
  /\ left' \in 0..(left - 1)
  /\ UNCHANGED <<req, pc, calls, total, writerVars, wire, got, room, headerVars>>

\* Variant of RoomFor: a body as long as the limit fills the room.
RoomForExactly(limit) == limit

\* max_size + 1.
RoomFor(limit) == {n + 1 : n \in limit}

StartBytes ==
  /\ pc = "open"
  /\ pc' = "bytes" /\ got' = 0 /\ room' = RoomFor(req.limit)
  /\ UNCHANGED <<req, calls, total, writerVars, wire, left, headerVars>>

\* query_data_available announces what has arrived, read_data returns some of what is
\* there: the spare capacity it is given is as long as the announcement or the room, or
\* longer, as a Vec grows.
Readable == 1..left

\* One round of bytes(): query, read, compare.
ReadMore ==
  /\ pc = "bytes" /\ left > 0
  /\ \E n \in Readable :
       /\ left' = left - n /\ got' = got + n
       /\ IF room # {} /\ n >= Min(room)
            THEN pc' = "large" /\ UNCHANGED room
            ELSE room' = {r - n : r \in room} /\ UNCHANGED pc
  /\ UNCHANGED <<req, calls, total, writerVars, wire, headerVars>>

\* Nothing is announced any more, or what was announced turns out to be nothing: only
\* at the end of the response.
ReadAll ==
  /\ pc = "bytes" /\ left = 0
  /\ pc' = "whole"
  /\ UNCHANGED <<req, calls, total, writerVars, wire, readVars>>

\* query_header: a call without a buffer fails and tells the size, the call with
\* one succeeds and moves the index on, until the header is not found again.
QueryHeader ==
  /\ \/ /\ pc = "open"
        /\ pc' = "header" /\ index' = 0 /\ found' = <<>>
     \/ /\ pc = "header" /\ index < Len(Values)
        /\ index' = index + 1 /\ found' = Append(found, Values[index + 1])
        /\ UNCHANGED pc
     \/ /\ pc = "header" /\ index = Len(Values)
        /\ pc' = "open"
        /\ UNCHANGED headerVars
  /\ UNCHANGED <<req, calls, total, writerVars, wire, left, got, room>>

Next ==
  Configure \/ CreateRequest \/ Send \/ TakeBuffer \/ WriteData \/ Advance
    \/ Receive \/ Read \/ StartBytes \/ ReadMore \/ ReadAll \/ QueryHeader \/ Fail

Spec == Init /\ [][Next]_vars

-----------------------------------------------------------------------------
(* Properties.                                                             *)

\* What the caller meant: the parts of a multipart body each with its head and a
\* line end, any other body as it is.
Meant(body) ==
  IF body.kind = "multipart"
    THEN FlattenSeq([i \in DOMAIN body.parts |->
                       <<<<"head", i>>>> \o body.parts[i].data \o <<CRLF>>])
           \o <<<<"end", 0>>>>
    ELSE Contents(body.parts)

\* A chunk of data that starts at a place: its size, its tokens between line ends.
ChunkAt(w, i) ==
  /\ i <= Len(w) /\ w[i][1] = "size" /\ w[i][2] > 0
  /\ i + w[i][2] + 2 <= Len(w) /\ w[i + 1] = CRLF /\ w[i + w[i][2] + 2] = CRLF

\* How a server takes chunks apart: decoded[i] is the body from token i on,
\* an option.
Unchunked(w) ==
  LET decoded[i \in 1..(Len(w) + 1)] ==
        IF SubSeq(w, i, Len(w)) = LastChunk THEN {<<>>}
        ELSE IF ChunkAt(w, i)
          THEN {SubSeq(w, i + 2, i + w[i][2] + 1) \o rest :
                  rest \in decoded[i + w[i][2] + 3]}
        ELSE {}
  IN decoded[1]

Received == IF Chunked THEN Unchunked(wire) ELSE {wire}

\* When a response is asked for, the server can take apart what was written and
\* finds the caller's body, exactly as long as announced, for every mix of parts,
\* read sizes and short writes.
ServerReadsTheBody ==
  pc \in {"receive", "open", "header", "bytes", "large", "whole"} =>
    /\ Received = {Meant(req.body)}
    /\ Prepared.len # {} => Prepared.len = {Len(wire)}
    /\ total \in {Len(wire), U32Max}

\* A body within the limit is returned whole and a longer one refused, what read()
\* took before not counted; a header is returned with all its values.
ResponseIsExact ==
  /\ pc = "open" => found \in {<<>>, Values}
  /\ pc = "whole" => left = 0 /\ \A n \in req.limit : got <= n
  /\ pc = "large" => \E n \in req.limit : got > n

=============================================================================
