----------------------------- MODULE HttpReceive -----------------------------
(***************************************************************************)
(* Receiving HTTP messages: HttpSession::recvRequest with the loop of      *)
(* HttpServer::handleClient around it, and HttpConnection::recvResponse,   *)
(* over a stream that hands over any part of what has arrived; with the    *)
(* Ragel machines that parse a head, the body read by content-length       *)
(* (Stream::readFixSize) and the body read chunk by chunk.                 *)
(*                                                                         *)
(* A unit of the stream stands for a piece of text a read does not split:  *)
(* the first line (named after the kind of message it begins), a field's   *)
(* name, its value, the end of the head; a chunk's size and the end of its *)
(* line; "cr" and "lf"; and two bytes of body, "x" and "y".                *)
(***************************************************************************)
EXTENDS Integers, Sequences, FiniteSets, SequencesExt

CONSTANTS
    BufferSize,   \* GetHttpRequestBufferSize() and GetHttpResponseBufferSize()
    MaxMessages   \* bound: requests a client sends on one connection

Body == <<"x", "y">>

\* external: the kinds of message a peer sends, by the name of their first line
Text(kind) ==
    CASE kind = "bare"    -> <<"bare", "end">>
      [] kind = "sized"   -> <<"sized", "name", "value", "end">> \o Body
      [] kind = "chunked" -> <<"chunked", "encoding", "end", "size", "eol">> \o Body
                                 \o <<"cr", "lf", "last", "eol", "cr", "lf">>
BodyOf(kind) == IF kind = "bare" THEN <<>> ELSE Body

VARIABLES
    role,       \* which function receives: "request" or "response"
    wire,       \* what has arrived and was not read
    messages,   \* how many messages the peer has sent
    peerOpen,   \* the peer has not closed the connection
    pipelined,  \* the peer has sent a request without waiting for the answer
    at,         \* where the receiver is
    data,       \* what the buffer holds before the next read: data[0 .. offset)
    parser,     \* the parser's state
    left,       \* bytes that a body or a chunk still lacks
    body,       \* the body collected so far
    clean,      \* no read has so far split what the receiver needs whole
    received    \* what was received

httpVars == <<role, wire, messages, peerOpen, pipelined, at, data, parser, left, body, clean, received>>

\* http_parser_init / httpclient_parser_init
FreshParser == [cs |-> "start", nread |-> 0, total |-> 0, kind |-> "bare", field |-> FALSE,
                length |-> 0, chunked |-> FALSE, size |-> 0]

HttpInit ==
    /\ role \in {"request", "response"}
    /\ wire = <<>> /\ messages = 0 /\ peerOpen = TRUE /\ pipelined = FALSE
    /\ at = "head" /\ data = <<>> /\ parser = FreshParser
    /\ left = 0 /\ body = <<>> /\ clean = TRUE /\ received = <<>>
-----------------------------------------------------------------------------
(* The parsers.                                                            *)

\* the grammars' transitions, as <<from, unit, to>>: the first line of a request, or of a
\* response, ...
RequestRows  == {<<"start", line, "fields">> : line \in {"bare", "sized"}}
ResponseRows == {<<"start", line, "fields">> : line \in {"bare", "sized", "chunked"}}

\* ... the fields and the end of the head, ...
FieldRows == {<<"fields", "name", "name">>, <<"name", "value", "value">>, <<"value", "end", "final">>,
              <<"fields", "encoding", "fields">>, <<"fields", "end", "final">>}

\* ... and the line that begins a chunk
ChunkRows == {<<"start", "size", "size">>, <<"start", "last", "size">>, <<"size", "eol", "final">>}

Transitions == FieldRows \cup IF role = "request" THEN RequestRows ELSE ResponseRows \cup ChunkRows

Target(cs, unit) ==
    LET to == {t \in Transitions : t[1] = cs /\ t[2] = unit}
    IN  IF to = {} THEN "error" ELSE (CHOOSE t \in to : TRUE)[3]

\* one unit: a field is stored when the end of its value is met, from marks into the
\* buffer of this call, so that its name must have been met in the same call
Consume(p, unit) ==
    IF p.cs \in {"final", "error"} THEN p
    ELSE LET to == Target(p.cs, unit) IN
         [p EXCEPT !.cs = to,
                   !.nread = IF to = "error" THEN @ ELSE @ + 1,
                   !.kind = IF p.cs = "start" THEN unit ELSE @,
                   !.field = unit = "name" \/ (@ /\ unit = "value"),
                   !.length = IF p.cs = "value" /\ p.field THEN Len(Body) ELSE @,
                   !.chunked = @ \/ unit \in {"encoding", "size", "last"},
                   !.size = IF unit = "size" THEN Len(Body) ELSE @]

\* a call of the machine: it stops after the end of the head or at an error.  The response
\* parser starts nread anew, the request parser adds to what earlier calls have read
Execute(p, text) ==
    LET run[k \in 0 .. Len(text)] ==
            IF k = 0 THEN [p EXCEPT !.nread = 0, !.field = FALSE] ELSE Consume(run[k - 1], text[k])
        q == run[Len(text)]
    IN  [q EXCEPT !.total = IF role = "request" THEN p.total + q.nread ELSE q.nread]
-----------------------------------------------------------------------------
(* The peer (external).                                                    *)

Kinds == IF role = "request" THEN {"bare", "sized"} ELSE {"bare", "sized", "chunked"}

PeerSends(kind) ==
    /\ peerOpen /\ messages < IF role = "request" THEN MaxMessages ELSE 1
    /\ messages' = messages + 1
    /\ wire' = wire \o Text(kind)
    /\ pipelined' = (pipelined \/ Len(received) < messages \/ at = "serve")
    /\ UNCHANGED <<role, peerOpen, at, data, parser, left, body, clean, received>>

PeerCloses ==
    /\ peerOpen /\ peerOpen' = FALSE
    /\ UNCHANGED <<role, wire, messages, pipelined, at, data, parser, left, body, clean, received>>

\* read(): any part of what has arrived, up to the room there is
Reads(n, room) ==
    /\ n \in 1 .. Len(wire) /\ n <= room
    /\ wire' = SubSeq(wire, n + 1, Len(wire))
Chunk(n) == SubSeq(wire, 1, n)

\* read() returns 0 after the peer has closed, -1 on a time-out
ReadsNothing == wire = <<>>
peerVars == <<role, messages, peerOpen, pipelined>>
-----------------------------------------------------------------------------
(* The receiver.                                                           *)

\* close() and return nullptr
Fail == at' = "failed" /\ UNCHANGED <<data, parser, left, body, clean, received>>

Deliver(p, b, ok) ==
    /\ received' = Append(received, [kind |-> p.kind, body |-> b, clean |-> ok])
    /\ at' = IF role = "request" THEN "serve" ELSE "done"
    /\ data' = <<>> /\ parser' = FreshParser /\ left' = 0 /\ body' = <<>> /\ clean' = TRUE

\* the head is complete: go on with the body, of which rest is already in the buffer; what
\* the buffer holds beyond the body is dropped with it
HeadDone(p, rest, ok) ==
    \/ /\ p.chunked /\ role = "response"
       /\ at' = "chunk" /\ data' = rest /\ parser' = p /\ clean' = ok
       /\ UNCHANGED <<left, body, received>>
    \/ /\ ~(p.chunked /\ role = "response") /\ p.length > Len(rest)
       /\ at' = "body" /\ left' = p.length - Len(rest) /\ body' = rest
       /\ parser' = p /\ data' = <<>> /\ clean' = ok
       /\ UNCHANGED received
    \/ /\ ~(p.chunked /\ role = "response") /\ p.length <= Len(rest)
       /\ Deliver(p, SubSeq(rest, 1, p.length), ok)

\* the head loop: read, parse, keep what the parser did not take.  The request parser
\* asserts nread <= len
ReadHead(n) ==
    /\ at = "head" /\ Reads(n, BufferSize - Len(data))
    /\ LET text == data \o Chunk(n)
           p    == Execute(parser, text)
           rest == SubSeq(text, p.total + 1, Len(text))
           ok   == clean /\ (p.cs = "final" \/ (role = "response" /\ p.cs \notin {"name", "value"}))
       IN  \/ /\ p.total > Len(text)
              /\ at' = "aborted" /\ clean' = ok /\ UNCHANGED <<data, parser, left, body, received>>
           \/ /\ p.total <= Len(text) /\ (p.cs = "error" \/ Len(rest) = BufferSize)
              /\ Fail
           \/ /\ p.total <= Len(text) /\ p.cs = "final" /\ Len(rest) # BufferSize
              /\ HeadDone(p, rest, ok)
           \/ /\ p.total <= Len(text) /\ p.cs \notin {"error", "final"} /\ Len(rest) # BufferSize
              /\ data' = rest /\ parser' = p /\ clean' = ok
              /\ UNCHANGED <<at, left, body, received>>
    /\ UNCHANGED peerVars

ReadBodyOver(n) ==   \* mutant of ReadBody: a read starts the body anew
    /\ at = "body" /\ Reads(n, left)
    /\ IF n = left THEN Deliver(parser, Chunk(n), clean)
                   ELSE /\ left' = left - n /\ body' = Chunk(n)
                        /\ UNCHANGED <<at, data, parser, clean, received>>
    /\ UNCHANGED peerVars

\* readFixSize() of what the body lacks
ReadBody(n) ==
    /\ at = "body" /\ Reads(n, left)
    /\ IF n = left THEN Deliver(parser, body \o Chunk(n), clean)
                   ELSE /\ left' = left - n /\ body' = body \o Chunk(n)
                        /\ UNCHANGED <<at, data, parser, clean, received>>
    /\ UNCHANGED peerVars

\* readFixSize() keeps the -1 of a failed read() in a size_t: it goes on one byte further
\* back and with one byte more to read, before the start of the body in the end
ReadBodyFails ==
    /\ at = "body" /\ ReadsNothing /\ peerOpen
    /\ clean' = FALSE
    /\ IF body = <<>> THEN at' = "corrupt" /\ UNCHANGED <<left, body>>
                      ELSE /\ body' = Front(body) /\ left' = left + 1
                           /\ UNCHANGED at
    /\ UNCHANGED <<peerVars, wire, data, parser, received>>

\* the chunk loop: it reads before it parses, whatever the buffer already holds, with a
\* parser started anew, and takes two bytes off for the end of the chunk
ReadChunkLine(n) ==
    /\ at = "chunk" /\ Reads(n, BufferSize - Len(data))
    /\ LET text == data \o Chunk(n)
           p    == Execute(FreshParser, text)
           rest == SubSeq(text, p.total + 1, Len(text))
           len  == Len(rest) - 2
           q    == [p EXCEPT !.kind = parser.kind]
           ok   == clean /\ len = p.size
       IN  \/ /\ p.cs = "error" \/ (p.cs # "final" /\ Len(rest) = BufferSize)
              /\ Fail
           \/ /\ p.cs \notin {"error", "final"} /\ Len(rest) # BufferSize
              /\ data' = rest /\ UNCHANGED <<at, parser, left, body, clean, received>>
           \/ /\ p.cs = "final" /\ p.size = 0 /\ 0 <= len
              /\ Deliver(q, body, ok)
           \/ /\ p.cs = "final" /\ p.size # 0 /\ p.size <= len
              /\ body' = body \o SubSeq(rest, 1, p.size)
              /\ data' = SubSeq(rest, p.size + 1, len)
              /\ parser' = q /\ clean' = ok
              /\ UNCHANGED <<at, left, received>>
           \/ /\ p.cs = "final" /\ p.size > len /\ len < 0
              /\ at' = "aborted" /\ clean' = FALSE /\ UNCHANGED <<data, parser, left, body, received>>
           \/ /\ p.cs = "final" /\ p.size > len /\ len >= 0
              /\ body' = body \o SubSeq(rest, 1, len) /\ left' = p.size - len
              /\ at' = "chunkdata" /\ data' = <<>> /\ parser' = q /\ clean' = ok
              /\ UNCHANGED received
    /\ UNCHANGED peerVars

\* the rest of a chunk
ReadChunkData(n) ==
    /\ at = "chunkdata" /\ Reads(n, IF left > BufferSize THEN BufferSize ELSE left)
    /\ body' = body \o Chunk(n) /\ left' = left - n
    /\ at' = IF n = left THEN "chunk" ELSE at
    /\ UNCHANGED <<peerVars, data, parser, clean, received>>

\* read() returned 0, or -1 where that is looked at
ReadFails ==
    /\ ReadsNothing
    /\ at \in {"head", "chunk", "chunkdata"} \/ (at = "body" /\ ~peerOpen)
    /\ Fail
    /\ UNCHANGED <<peerVars, wire>>

\* handleClient(): dispatch and answer, then close or wait for the next request, with a
\* parser and a buffer of its own
Serve(keepAlive) ==
    /\ at = "serve"
    /\ at' = IF keepAlive THEN "head" ELSE "done"
    /\ UNCHANGED <<peerVars, wire, data, parser, left, body, clean, received>>

HttpNext ==
    \/ \E kind \in Kinds : PeerSends(kind)
    \/ PeerCloses
    \/ \E n \in 1 .. Len(wire) : ReadHead(n) \/ ReadBody(n) \/ ReadChunkLine(n) \/ ReadChunkData(n)
    \/ ReadBodyFails \/ ReadFails
    \/ \E keepAlive \in BOOLEAN : Serve(keepAlive)

HttpSpec == HttpInit /\ [][HttpNext]_httpVars
-----------------------------------------------------------------------------
\* The assertion of http_parser_execute: "nread longer than length".
NreadWithinLength == role = "request" => at # "aborted"

\* As long as no read ends inside a request's head, between the name and the end of a
\* response's field, or anywhere but at the end of a chunk, and none fails inside a body:
\* a message is received as it was sent, the server stays in step with a client that waits
\* for each answer, and the receiver does not die by an assertion or outside its buffer.
ReceivedAsSent ==
    /\ \A i \in DOMAIN received : received[i].clean => received[i].body = BodyOf(received[i].kind)
    /\ (at = "head" /\ clean /\ ~pipelined /\ parser.cs = "start" /\ \A i \in DOMAIN received : received[i].clean)
          => wire = <<>> \/ wire[1] \in {"bare", "sized", "chunked"}
    /\ at \in {"aborted", "corrupt"} => ~clean
=============================================================================
