-------------------------------- MODULE Wget --------------------------------
(***************************************************************************)
(* wget (ex_net.c): requests, redirects, and a body that is framed by its  *)
(* length, by chunks or by the end of the connection, read through a       *)
(* buffer that receives arbitrary pieces.                                  *)
(*                                                                         *)
(* The servers are external: the hops are the responses met on the way.    *)
(* A response is a row of tokens: those of the headers, the empty line,    *)
(* then the units of the body, which are numbered; of a chunk they stand   *)
(* between its size and a line end, and a chunk of size 0 is the last.     *)
(* The connection may end, or fail, after any token.                       *)
(***************************************************************************)
EXTENDS Integers, SequencesExt

CONSTANTS Journeys,     \* sequences of [code, location, framing, headers, size, chunks],
                        \* a chunk [at, from, size]: after "at" tokens and "from" units
          BufSize,      \* W_BUF_SIZE, in tokens
          MaxRedirects, \* W_REDIR_MAX
          TmpSize,      \* what is written at a time: 1024
          MaxWgetFaults

IsChunked(r) == r.framing = "chunked"
Leads(r) == r.code = "redirect" /\ r.location \in {"url", "path"}
Tokens(r) == IF IsChunked(r) THEN r.chunks[Len(r.chunks)].at + 1 ELSE r.headers + 1 + r.size

\* A chunk stands where the one before it ends.
Placed(cs, headers, size) ==
  /\ Len(cs) \in Nat \ {0} /\ DOMAIN cs = 1..Len(cs)
  /\ cs[1].at = headers + 1 /\ cs[1].from = 0 /\ cs[Len(cs)].from = size
  /\ \A i \in DOMAIN cs :
       /\ cs[i].at \in Nat /\ cs[i].from \in Nat /\ cs[i].size \in Nat
       /\ cs[i].size = 0 <=> i = Len(cs)
       /\ i > 1 => /\ cs[i].at = cs[i - 1].at + cs[i - 1].size + 2
                   /\ cs[i].from = cs[i - 1].from + cs[i - 1].size

\* A redirect that can be followed leads to the next response.
ASSUME WgetAssumption ==
  /\ BufSize \in Nat \ {0} /\ TmpSize \in Nat \ {0} /\ MaxRedirects \in Nat
  /\ MaxWgetFaults \in Nat
  /\ \A j \in Journeys :
       /\ 1 \in DOMAIN j /\ DOMAIN j \subseteq Nat
       /\ \A h \in DOMAIN j :
            /\ Leads(j[h]) /\ h <= MaxRedirects => h + 1 \in DOMAIN j
            /\ j[h].code \in {"ok", "redirect", "error"}
            /\ j[h].framing \in {"chunked", "length", "close"}
            /\ j[h].headers \in Nat /\ j[h].size \in Nat
            /\ IsChunked(j[h]) => Placed(j[h].chunks, j[h].headers, j[h].size)

Old == <<0>>            \* what the file held before: no unit of a body

VARIABLES journey, hop, attempt,
          coming,       \* tokens of the response that will arrive
          recvd, used,    \* tokens received, and of those the ones taken from the buffer
          held,         \* units in tmp, of the piece of a chunk that is read
          clen, wpc, file, rcw, cut, wfaults
wgetVars ==
  <<journey, hop, attempt, coming, recvd, used, held, clen, wpc, file, rcw, cut, wfaults>>

Response == journey[hop]
Chunked == IsChunked(Response)
Buffered == recvd - used
Upto(n) == [k \in 1..n |-> k]
Body(r) == Upto(r.size)

\* the chunk whose size comes after n tokens, or whose data the next token is
ChunkAt(n) == {i \in DOMAIN Response.chunks : Response.chunks[i].at = n}
ChunkOf(n) == {i \in DOMAIN Response.chunks :
                 Response.chunks[i].at < n /\ n <= Response.chunks[i].at + Response.chunks[i].size}
\* the unit of the body after n tokens; 0 for a token that is none
BodyUnit(n) ==
  IF ~Chunked THEN n - Response.headers
  ELSE IF ChunkOf(n) = {} THEN 0
  ELSE LET c == Response.chunks[CHOOSE i \in ChunkOf(n) : TRUE] IN c.from + n - c.at

WgetInit ==
  /\ journey \in Journeys /\ hop = 1 /\ attempt = 0 /\ coming = 0 /\ recvd = 0 /\ used = 0
  /\ held = 0 /\ clen = 0 /\ wpc = "connect" /\ file = Old /\ rcw = 0 /\ cut = FALSE /\ wfaults = 0

Fault == wfaults < MaxWgetFaults /\ wfaults' = wfaults + 1
GiveUp == wpc' = "done" /\ rcw' = 1
Conn == UNCHANGED <<journey, hop, attempt>>
Calm == Conn /\ UNCHANGED held

\* wget_open_conn and wget_send_request
SendRequest ==
  /\ wpc = "connect" /\ attempt < MaxRedirects
  /\ \/ /\ wpc' = "headers" /\ coming' = Tokens(Response) /\ recvd' = 0 /\ used' = 0
        /\ UNCHANGED <<rcw, wfaults>>
     \/ Fault /\ GiveUp /\ UNCHANGED <<coming, recvd, used>>
  /\ UNCHANGED <<clen, file, cut>> /\ Calm

TooManyRedirects ==
  /\ wpc = "connect" /\ attempt >= MaxRedirects /\ GiveUp
  /\ UNCHANGED <<coming, recvd, used, clen, file, cut, wfaults>> /\ Calm

\* The server or the network ends the connection before its time.
Break ==
  /\ wpc \in {"headers", "body", "chunk", "crlf"} /\ recvd < coming /\ Fault
  /\ coming' = recvd /\ cut' = TRUE
  /\ UNCHANGED <<recvd, used, clen, wpc, file, rcw>> /\ Calm

\* A receive: up to room tokens, nothing at the end, or an error.
Receive(room) == \E n \in 1..room : n <= coming - recvd /\ recvd' = recvd + n

HeadersIn == recvd > Response.headers

\* wbuf_append: what is unread stays in front
MoreHeaders ==
  /\ wpc = "headers" /\ ~HeadersIn
  /\ \/ Receive(BufSize - Buffered) /\ UNCHANGED <<wpc, rcw, wfaults>>
     \/ (recvd = coming \/ Buffered >= BufSize) /\ GiveUp /\ UNCHANGED <<recvd, wfaults>>
     \/ Fault /\ GiveUp /\ UNCHANGED recvd
  /\ UNCHANGED <<coming, used, clen, file, cut>> /\ Calm

Redirect ==
  /\ wpc = "headers" /\ HeadersIn /\ Response.code = "redirect"
  /\ IF Leads(Response)
     THEN /\ hop' = hop + 1 /\ attempt' = attempt + 1 /\ wpc' = "connect"
          /\ UNCHANGED rcw
     ELSE GiveUp /\ UNCHANGED <<hop, attempt>>
  /\ UNCHANGED <<journey, coming, recvd, used, held, clen, file, cut, wfaults>>

HttpError ==
  /\ wpc = "headers" /\ HeadersIn /\ Response.code = "error" /\ GiveUp
  /\ UNCHANGED <<coming, recvd, used, clen, file, cut, wfaults>> /\ Calm

\* the file is opened, and emptied, only now
OpenOutput ==
  /\ wpc = "headers" /\ HeadersIn /\ Response.code = "ok"
  /\ used' = Response.headers + 1
  /\ clen' = CASE Response.framing = "length" -> Response.size
               [] Response.framing = "close" -> -1
               [] Response.framing = "chunked" -> 0
  /\ \/ wpc' = "body" /\ file' = <<>> /\ UNCHANGED <<rcw, wfaults>>
     \/ Fault /\ GiveUp /\ UNCHANGED file
  /\ UNCHANGED <<coming, recvd, cut>> /\ Calm

\* Mutant of wbuf_fill: the end of the connection ends every body.
wbuf_fill_any_end ==
  /\ wpc \in {"body", "chunk", "crlf"} /\ Buffered = 0
  /\ ~(wpc = "body" /\ ~Chunked /\ clen = 0)
  /\ \/ Receive(BufSize) /\ UNCHANGED <<wpc, rcw, wfaults>>
     \/ recvd = coming /\ wpc' = "done" /\ UNCHANGED <<rcw, recvd, wfaults>>
     \/ Fault /\ GiveUp /\ UNCHANGED recvd
  /\ UNCHANGED <<coming, used, clen, file, cut>> /\ Calm

\* wbuf_fill, when nothing is left in the buffer
wbuf_fill ==
  /\ wpc \in {"body", "chunk", "crlf"} /\ Buffered = 0
  /\ ~(wpc = "body" /\ ~Chunked /\ clen = 0)
  /\ \/ Receive(BufSize) /\ UNCHANGED <<wpc, rcw, wfaults>>
     \/ /\ recvd = coming /\ UNCHANGED <<recvd, wfaults>>
        /\ IF Chunked THEN GiveUp ELSE wpc' = "done" /\ UNCHANGED rcw
     \/ Fault /\ GiveUp /\ UNCHANGED recvd
  /\ UNCHANGED <<coming, used, clen, file, cut>> /\ Calm

\* Anything else where a size is expected is not followed further.
ChunkSize ==
  /\ wpc = "body" /\ Chunked /\ Buffered > 0
  /\ used' = used + 1
  /\ \/ \E i \in ChunkAt(used) :
          /\ clen' = Response.chunks[i].size
          /\ wpc' = IF clen' = 0 THEN "done" ELSE "chunk"
     \/ ChunkAt(used) = {} /\ wpc' = "lost" /\ UNCHANGED clen
  /\ UNCHANGED <<coming, recvd, file, rcw, cut, wfaults>> /\ Calm

Contents(u, n) == [k \in 1..n |-> BodyUnit(u + k - 1)]
AtMost(m, n) == IF m < n THEN m ELSE n

\* wget_write_all: the n units after u tokens go to the file, if it can be written
Save(u, n, next) ==
  \/ file' = file \o Contents(u, n) /\ wpc' = next /\ UNCHANGED <<rcw, wfaults>>
  \/ Fault /\ GiveUp /\ \E k \in 0..(n - 1) : file' = file \o Contents(u, k)

\* wbuf_readn and wget_write_all: a piece is written when all of it is in tmp
Portion == AtMost(clen, TmpSize)
ChunkData ==
  /\ wpc = "chunk" /\ Buffered > 0
  /\ LET n == AtMost(Portion - held, Buffered)
     IN  /\ used' = used + n
         /\ \/ /\ held + n < Portion /\ held' = held + n
               /\ UNCHANGED <<clen, wpc, file, rcw, wfaults>>
            \/ /\ held + n = Portion /\ held' = 0 /\ clen' = clen - Portion
               /\ Save(used - held, Portion, IF clen = Portion THEN "crlf" ELSE "chunk")
  /\ UNCHANGED <<coming, recvd, cut>> /\ Conn

ChunkEnd ==
  /\ wpc = "crlf" /\ Buffered > 0 /\ used' = used + 1 /\ wpc' = "body"
  /\ UNCHANGED <<coming, recvd, clen, file, rcw, cut, wfaults>> /\ Calm

\* The piece goes through tmp, whose size is not looked at: what a piece that
\* is longer does to the stack may or may not end the program.
PlainData ==
  /\ wpc = "body" /\ ~Chunked /\ Buffered > 0 /\ clen # 0
  /\ LET n == IF clen > 0 THEN AtMost(clen, Buffered) ELSE Buffered
     IN  \/ /\ clen' = (IF clen > 0 THEN clen - n ELSE clen) /\ used' = used + n
            /\ Save(used, n, IF clen = n THEN "done" ELSE "body")
         \/ /\ n > TmpSize /\ wpc' = "died" /\ rcw' = 139
            /\ UNCHANGED <<used, clen, file, wfaults>>
  /\ UNCHANGED <<coming, recvd, cut>> /\ Calm

EmptyBody ==
  /\ wpc = "body" /\ ~Chunked /\ clen = 0 /\ wpc' = "done"
  /\ UNCHANGED <<coming, recvd, used, clen, file, rcw, cut, wfaults>> /\ Calm

wget_read_headers == MoreHeaders \/ Redirect \/ HttpError \/ OpenOutput
wget_save_body == wbuf_fill \/ ChunkSize \/ ChunkData \/ ChunkEnd \/ PlainData \/ EmptyBody
WgetNext == SendRequest \/ TooManyRedirects \/ wget_read_headers \/ wget_save_body \/ Break

WgetSpec == WgetInit /\ [][WgetNext]_wgetVars

WgetOff ==
  /\ journey = <<>> /\ hop = 1 /\ attempt = 0 /\ coming = 0 /\ recvd = 0 /\ used = 0 /\ held = 0
  /\ clen = 0 /\ wpc = "off" /\ file = Old /\ rcw = 0 /\ cut = FALSE /\ wfaults = 0

(***************************************************************************)
(* What wget promises.                                                     *)
(***************************************************************************)
(* At any moment the file is what it was, or a piece of the body from its  *)
(* start, and then the response was a success; status 0 is given for the   *)
(* whole body, however the pieces came in, after no more redirects than    *)
(* allowed; without a failure another status means a response that cannot  *)
(* be followed.  Exception: a connection that ends before Content-Length   *)
(* bytes have come ends the body (ex_net.c:1803), and without a length or  *)
(* chunks nobody can tell.                                                 *)
BodyIsWhole ==
  wpc # "off" =>
    /\ wpc # "lost"
    /\ file = Old \/ (Response.code = "ok" /\ IsPrefix(file, Body(Response)))
    /\ hop <= MaxRedirects + 1
    /\ wpc = "done" /\ rcw = 0 =>
         Response.code = "ok" /\ (file = Body(Response) \/ (cut /\ ~Chunked))
    /\ wpc = "done" /\ rcw = 1 /\ wfaults = 0 =>
         \/ Response.code = "error" \/ attempt = MaxRedirects
         \/ Response.code = "redirect" /\ ~Leads(Response)
         \/ Response.headers >= BufSize
=============================================================================
