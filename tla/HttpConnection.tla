--------------------------- MODULE HttpConnection ---------------------------
(***************************************************************************)
(* The incremental HTTP request parser of src/server/request_parser.cpp:   *)
(* a state machine fed with one character at a time, across as many reads  *)
(* as the request needs.                                                   *)
(*                                                                         *)
(* A symbol stands for one character, or for a run of ordinary characters  *)
(* (a word), which the parser treats alike.  The characters the parser     *)
(* tells apart have names: SP CR LF TAB COLON COMMA SLASH DOT DIGIT H T P  *)
(* and HIGH, a byte above 127.                                             *)
(***************************************************************************)
EXTENDS Sequences, Integers

is_char(ch) == ch # "HIGH"
is_CTL(ch) == ch \in {"CR", "LF", "TAB"}
is_special(ch) == ch \in {"COLON", "COMMA", "SLASH", "SP", "TAB"}
is_digit(ch) == ch = "DIGIT"

NotToken(ch) == ~is_char(ch) \/ is_CTL(ch) \/ is_special(ch)

NoHeader == [name |-> <<>>, value |-> <<>>]

NewParser ==
    [state       |-> "method_start",
     header      |-> NoHeader,
     compression |-> "no_compression",
     uri         |-> <<>>,
     connection  |-> <<>>]

(* States in which exactly one character is acceptable, with the state it  *)
(* leads to.                                                               *)
Expected ==
    [http_version_h           |-> <<"H", "http_version_t_1">>,
     http_version_t_1         |-> <<"T", "http_version_t_2">>,
     http_version_t_2         |-> <<"T", "http_version_p">>,
     http_version_p           |-> <<"P", "http_version_slash">>,
     http_version_slash       |-> <<"SLASH", "http_version_major_start">>,
     http_version_major_start |-> <<"DIGIT", "http_version_major">>,
     http_version_minor_start |-> <<"DIGIT", "http_version_minor">>,
     expecting_newline_1      |-> <<"LF", "header_line_start">>,
     expecting_newline_2      |-> <<"LF", "header_line_start">>]

(* The states of internal_state that can be reached: no transition leads   *)
(* to uri_start or header_lws.                                             *)
States == DOMAIN Expected \cup
    {"method_start", "method", "uri", "http_version_major", "http_version_minor",
     "header_line_start", "header_name", "header_value", "expecting_newline_3"}

Continue(p) == [parser |-> p, status |-> "indeterminate"]
Reject(p) == [parser |-> p, status |-> "invalid"]
GoTo(p, state) == Continue([p EXCEPT !.state = state])

Contains(value, word) == \E i \in 1 .. Len(value) : value[i] = word

(* What the header read last contributes to the request; gzip has          *)
(* precedence over deflate.                                                *)
FinishHeader(p) ==
    LET h == p.header IN
    CASE h.name = <<"Accept-Encoding">> ->
           [p EXCEPT !.compression =
               IF Contains(h.value, "gzip") THEN "gzip"
               ELSE IF Contains(h.value, "deflate") THEN "deflate" ELSE @]
      [] h.name = <<"Connection">> -> [p EXCEPT !.connection = h.value]
      [] OTHER -> p

(* The digits of the version, ended by a dot or by a carriage return. *)
consumeVersion(p, ch, last, next) ==
    IF ch = last THEN GoTo(p, next)
    ELSE IF is_digit(ch) THEN Continue(p) ELSE Reject(p)

consumeHeaderName(p, ch) ==
    IF ch = "COLON" THEN GoTo(p, "header_value")
    ELSE IF NotToken(ch) THEN Reject(p)
    ELSE Continue([p EXCEPT !.header.name = Append(@, ch)])

(* Spaces are dropped wherever they stand in a header value. *)
consumeHeaderValue(p, ch) ==
    IF ch = "SP" THEN Continue(p)
    ELSE IF ch = "CR" THEN GoTo(p, "expecting_newline_2")
    ELSE IF is_CTL(ch) THEN Reject(p)
    ELSE Continue([p EXCEPT !.header.value = Append(@, ch)])

consumeHeaderLineStart(p, ch) ==
    LET q == FinishHeader(p) IN
    IF ch = "CR" THEN GoTo(q, "expecting_newline_3")
    ELSE IF NotToken(ch) THEN Reject(q)
    ELSE GoTo([q EXCEPT !.header = [name |-> <<ch>>, value |-> <<>>]], "header_name")

consume(p, ch) ==
    CASE p.state \in DOMAIN Expected ->
           IF ch = Expected[p.state][1] THEN GoTo(p, Expected[p.state][2]) ELSE Reject(p)
      [] p.state = "method_start" -> IF NotToken(ch) THEN Reject(p) ELSE GoTo(p, "method")
      [] p.state = "method" ->
           IF ch = "SP" THEN GoTo(p, "uri")
           ELSE IF NotToken(ch) THEN Reject(p) ELSE Continue(p)
      [] p.state = "uri" ->
           IF ch = "SP" THEN GoTo(p, "http_version_h")
           ELSE IF is_CTL(ch) THEN Reject(p)
           ELSE Continue([p EXCEPT !.uri = Append(@, ch)])
      [] p.state = "http_version_major" ->
           consumeVersion(p, ch, "DOT", "http_version_minor_start")
      [] p.state = "http_version_minor" ->
           consumeVersion(p, ch, "CR", "expecting_newline_1")
      [] p.state = "header_line_start" -> consumeHeaderLineStart(p, ch)
      [] p.state = "header_name" -> consumeHeaderName(p, ch)
      [] p.state = "header_value" -> consumeHeaderValue(p, ch)
      [] p.state = "expecting_newline_3" ->
           [parser |-> p, status |-> IF ch = "LF" THEN "valid" ELSE "invalid"]

consumeNext(r, ch) == IF r.status # "indeterminate" THEN r ELSE consume(r.parser, ch)

(* A parser that starts over with every read instead of going on. *)
parse_Restart(p, buffer) ==
    LET after[i \in 0..Len(buffer)] ==
            IF i = 0 THEN Continue(NewParser)
            ELSE CHOOSE r \in {consumeNext(before, buffer[i]) : before \in {after[i - 1]}} : TRUE
    IN  after[Len(buffer)]

(* The first determinate result ends the parse; the rest of the buffer is  *)
(* not looked at.                                                          *)
parse(p, buffer) ==
    LET after[i \in 0..Len(buffer)] ==
            IF i = 0 THEN Continue(p)
            ELSE CHOOSE r \in {consumeNext(before, buffer[i]) : before \in {after[i - 1]}} : TRUE
    IN  after[Len(buffer)]

-----------------------------------------------------------------------------


(***************************************************************************)
(* From a request to the content of its reply: URL dispatch, the services  *)
(* and the error paths of src/server/request_handler.cpp,                  *)
(* service_handler.cpp and service/*_service.cpp.                          *)
(*                                                                         *)
(* A URL is abstracted to what these functions find out about it:          *)
(*   wellFormed  the URL grammar accepts it up to its end                  *)
(*   service, version                                                      *)
(*   query       "malformed", "invalid" (IsValid is false) or "valid"      *)
(*   format      "json" or "flatbuffers"                                   *)
(*   engine      what the routing machine does with it: "Ok", "Error",     *)
(*               "disabled" (DisabledDatasetException) or "throws"         *)
(***************************************************************************)

Services == {"route", "table", "nearest", "trip", "match", "tile", "traffic"}

Version == 1

Failed(code) == [status |-> "Error", code |-> code, kind |-> "json"]

(* What the routing machine answers, in the result type prepared for it. *)
EngineResult(url, kind) == [status |-> url.engine, code |-> "engine", kind |-> kind]

(* The traffic service turns every exception of its own into an error. *)
TrafficRunQuery(url) ==
    IF url.query = "malformed" \/ (url.query = "valid" /\ url.engine \in {"disabled", "throws"})
    THEN Failed("InvalidQuery")
    ELSE IF url.query = "invalid" THEN Failed("InvalidOptions")
    ELSE EngineResult(url, "json")

TileRunQuery(url) ==
    CASE url.query = "malformed" -> Failed("InvalidQuery")
      [] url.query = "invalid" -> Failed("InvalidOptions")
      [] OTHER -> EngineResult(url, "protobuf")

(* The other services differ only in the parameters they parse. *)
ParameterisedRunQuery(url) ==
    CASE url.query = "malformed" -> Failed("InvalidQuery")
      [] url.query = "invalid" -> Failed("InvalidOptions")
      [] OTHER -> EngineResult(url, url.format)

RouteRunQuery(url) == ParameterisedRunQuery(url)
TableRunQuery(url) == ParameterisedRunQuery(url)
NearestRunQuery(url) == ParameterisedRunQuery(url)
TripRunQuery(url) == ParameterisedRunQuery(url)
MatchRunQuery(url) == ParameterisedRunQuery(url)

RunQuery(url) ==
    IF url.service \notin Services THEN Failed("InvalidService")
    ELSE IF url.version # Version THEN Failed("InvalidVersion")
    ELSE CASE url.service = "traffic" -> TrafficRunQuery(url)
           [] url.service = "tile" -> TileRunQuery(url)
           [] url.service = "route" -> RouteRunQuery(url)
           [] url.service = "table" -> TableRunQuery(url)
           [] url.service = "nearest" -> NearestRunQuery(url)
           [] url.service = "trip" -> TripRunQuery(url)
           [] url.service = "match" -> MatchRunQuery(url)

(* A reply before the connection adds its own headers.  The length is the  *)
(* value of Content-Length, the content the bytes that follow the headers. *)
Content(status, kind, code) ==
    [status |-> status, kind |-> kind, code |-> code, length |-> "plain", content |-> "plain"]

stock_reply(status) == Content(status, "html", "stock")

SendResponse(status, result) == Content(status, result.kind, result.code)

HandleRequest(registered, url) ==
    IF ~registered THEN stock_reply(500)
    ELSE IF ~url.wellFormed THEN SendResponse(400, Failed("InvalidUrl"))
    ELSE LET result == RunQuery(url) IN
         CASE result.status = "Ok" -> SendResponse(200, result)
           [] result.status = "Error" -> SendResponse(400, result)
           [] result.status = "disabled" -> SendResponse(400, Failed("DisabledDataset"))
           [] result.status = "throws" -> stock_reply(500)

-----------------------------------------------------------------------------
(***************************************************************************)
(* One client of osrm-routed: the acceptor (include/server/server.hpp) and *)
(* the connection it creates (src/server/connection.cpp).                  *)
(*                                                                         *)
(* A connection is a chain of asynchronous operations.  Its handlers run   *)
(* one at a time (they share a strand) but in any order: an operation      *)
(* completes in one step and its handler runs in a later one, so that a    *)
(* timer may expire while the read it guards has already completed.        *)
(* A handler called with operation_aborted does nothing, so a cancelled    *)
(* operation is simply gone.                                               *)
(***************************************************************************)

CONSTANTS
    Uris,          \* the URIs clients ask for
    UrlOf,         \* what URL dispatch finds out about a URI
    Requests,      \* what a client may send
    MaxRequests,   \* initial processed_requests, 512 in the code
    BufferSize,    \* size of incoming_data_buffer, 8192 in the code
    Asks,          \* bound: requests one client sends
    Pieces,        \* bound: sizes of the pieces a client sends, short of the whole rest
    Registered     \* a service handler is registered

ASSUME HttpAssumption ==
    /\ MaxRequests \in Nat
    /\ BufferSize \in Nat \ {0}
    /\ Asks \in Nat
    /\ Pieces \subseteq Nat \ {0}
    /\ Registered \in BOOLEAN

(* A URI is a word without the characters that end it.                     *)
ASSUME RequestsAssumption ==
    /\ Uris \cap {"SP", "CR", "LF", "TAB"} = {}
    /\ Requests \subseteq [uri : Uris, close : BOOLEAN, accepts : SUBSET {"gzip", "deflate"},
                           malformed : BOOLEAN]
    /\ \A u \in Uris : /\ UrlOf[u].query \in {"malformed", "invalid", "valid"}
                        /\ UrlOf[u].engine \in {"Ok", "Error", "disabled", "throws"}

VARIABLES
    accept,     \* the accept operation: "pending", "done" or "failed"
    conn,       \* members of Connection
    ops,        \* outstanding operations and completed ones whose handler is due
    shut,       \* the socket is shut down, or the process has stopped
    wire,       \* symbols sent by the client and not read yet
    client,     \* what the client still has to send of its request, and whether it closed
    pending,    \* requests the client has sent in full and got no reply for
    last,       \* the reply the client received last
    budget      \* replies the client may still expect on this connection

vars == <<accept, conn, ops, shut, wire, client, pending, last, budget>>

NoReply == [status |-> 0]
NoRequest == [uri |-> "none"]

NoOps == [read |-> "none", write |-> "none", armed |-> FALSE, fired |-> FALSE]

NewConnection ==
    [keep_alive         |-> FALSE,
     processed_requests |-> MaxRequests,
     parser             |-> NewParser,
     buffer             |-> <<>>,
     reply              |-> NoReply]

Init ==
    /\ accept = "pending"
    /\ conn = NewConnection
    /\ ops = NoOps
    /\ shut = FALSE
    /\ wire = <<>>
    /\ client = [rest |-> <<>>, request |-> NoRequest, left |-> Asks, closed |-> FALSE]
    /\ pending = <<>>
    /\ last = NoReply
    /\ budget = MaxRequests + 1

-----------------------------------------------------------------------------
(* The client: it sends a request in as many pieces as it likes, asks for  *)
(* the next thing after the answer, and may close at any time.  What it    *)
(* sends once the server has shut down is never read and is left out.      *)

HeaderLine(name, value) == <<name, "COLON", "SP">> \o value \o <<"CR", "LF">>

AcceptLine(accepts) ==
    CASE accepts = {} -> <<>>
      [] accepts = {"gzip"} -> HeaderLine("Accept-Encoding", <<"gzip">>)
      [] accepts = {"deflate"} -> HeaderLine("Accept-Encoding", <<"deflate">>)
      [] OTHER -> HeaderLine("Accept-Encoding", <<"gzip", "COMMA", "SP", "deflate">>)

(* The bytes of a request.  A malformed one ends with the symbol the       *)
(* parser stumbles over.                                                   *)
Encode(r) ==
    IF r.malformed THEN <<"GET", "SP", r.uri, "TAB">>
    ELSE <<"GET", "SP", r.uri, "SP", "H", "T", "T", "P", "SLASH", "DIGIT", "DOT", "DIGIT",
           "CR", "LF">>
         \o AcceptLine(r.accepts)
         \o (IF r.close THEN HeaderLine("Connection", <<"close">>) ELSE <<>>)
         \o <<"CR", "LF">>

ClientAsks ==
    /\ client.rest = <<>> /\ ~client.closed /\ ~shut
    /\ client.left > 0
    /\ pending = <<>>
    /\ \E r \in Requests :
         client' = [client EXCEPT !.rest = Encode(r), !.request = r, !.left = @ - 1]
    /\ UNCHANGED <<accept, conn, ops, shut, wire, pending, last, budget>>

ClientSends ==
    /\ ~client.closed /\ ~shut
    /\ \E n \in DOMAIN client.rest \cap (Pieces \cup {Len(client.rest)}) :
         /\ wire' = wire \o SubSeq(client.rest, 1, n)
         /\ client' = [client EXCEPT !.rest = SubSeq(@, n + 1, Len(@)),
                                     !.request = IF n = Len(client.rest) THEN NoRequest ELSE @]
         /\ pending' = IF n = Len(client.rest) THEN Append(pending, client.request) ELSE pending
    /\ UNCHANGED <<accept, conn, ops, shut, last, budget>>

ClientCloses ==
    /\ ~client.closed
    /\ client' = [client EXCEPT !.closed = TRUE, !.rest = <<>>, !.request = NoRequest]
    /\ UNCHANGED <<accept, conn, ops, shut, wire, pending, last, budget>>

-----------------------------------------------------------------------------
(* Operations of the connection, as functions of the outstanding ones. *)

(* No timer is armed at all. *)
start_NoTimer(c, o) == [o EXCEPT !.read = "pending"]

start(c, o) == [o EXCEPT !.read = "pending", !.armed = c.keep_alive]

handle_shutdown(o) == /\ ops' = [o EXCEPT !.armed = FALSE]
                      /\ shut' = TRUE

HandleAccept ==
    /\ accept = "pending"
    /\ ~shut
    /\ accept' = "done"
    /\ ops' = start(conn, ops)
    /\ UNCHANGED <<conn, shut, wire, client, pending, last, budget>>

(* An accept that fails is logged and no further one is started: this      *)
(* client, and every later one, is never served.                           *)
HandleAcceptError ==
    /\ accept = "pending"
    /\ accept' = "failed"
    /\ shut' = TRUE
    /\ UNCHANGED <<conn, ops, wire, client, pending, last, budget>>

(* Server::Stop from the signal handler: no handler runs any more. *)
Stop ==
    /\ accept # "failed"
    /\ shut' = TRUE
    /\ accept' = "failed"
    /\ ops' = NoOps
    /\ conn' = NewConnection
    /\ wire' = <<>>
    /\ UNCHANGED <<client, pending, last, budget>>

ReadCompletes ==
    /\ ops.read = "pending"
    /\ \/ /\ ~shut /\ wire # <<>>
          /\ LET n == IF Len(wire) < BufferSize THEN Len(wire) ELSE BufferSize IN
             /\ conn' = [conn EXCEPT !.buffer = SubSeq(wire, 1, n)]
             /\ wire' = SubSeq(wire, n + 1, Len(wire))
          /\ ops' = [ops EXCEPT !.read = "data"]
       \/ /\ shut \/ (client.closed /\ wire = <<>>)
          /\ ops' = [ops EXCEPT !.read = "eof"]
          /\ UNCHANGED <<conn, wire>>
    /\ UNCHANGED <<accept, shut, client, pending, last, budget>>

ClientReceives(reply) ==
    /\ last' = reply
    /\ pending' = IF pending = <<>> THEN <<>> ELSE Tail(pending)
    /\ budget' = IF reply.connection = "keep-alive" /\ reply.max < budget
                 THEN reply.max ELSE budget - 1

WriteCompletes ==
    /\ ops.write = "pending"
    /\ \/ /\ ~shut
          /\ ops' = [ops EXCEPT !.write = "done"]
          /\ IF client.closed THEN UNCHANGED <<pending, last, budget>>
             ELSE ClientReceives(conn.reply)
       \/ /\ shut \/ client.closed
          /\ ops' = [ops EXCEPT !.write = "failed"]
          /\ UNCHANGED <<pending, last, budget>>
    /\ UNCHANGED <<accept, conn, shut, wire, client>>

TimerExpires ==
    /\ ops.armed
    /\ ops' = [ops EXCEPT !.armed = FALSE, !.fired = TRUE]
    /\ UNCHANGED <<accept, conn, shut, wire, client, pending, last, budget>>

-----------------------------------------------------------------------------
(* The handlers. *)

(* Reading the peer address of a socket that is shut down on either side   *)
(* may fail.                                                               *)
EndpointFails ==
    /\ shut \/ client.closed
    /\ handle_shutdown([ops EXCEPT !.read = "none", !.armed = FALSE])
    /\ UNCHANGED conn

(* The connection's own headers and the compression.  Note that a request  *)
(* to close does not end an earlier keep-alive.                            *)
Reply(c, p) ==
    LET base == HandleRequest(Registered, UrlOf[p.uri[1]])
        close == p.connection = <<"close">>
        size == IF p.compression = "no_compression" THEN "plain" ELSE p.compression
    IN  [status |-> base.status, kind |-> base.kind, code |-> base.code,
         uri |-> p.uri, encoding |-> p.compression, length |-> size, content |-> size,
         connection |-> IF close THEN "close" ELSE "keep-alive",
         max |-> IF close THEN 0 ELSE c.processed_requests]

BadRequest ==
    [status |-> 400, kind |-> "html", code |-> "stock", uri |-> <<>>,
     encoding |-> "no_compression", length |-> "plain", content |-> "plain",
     connection |-> "none", max |-> 0]

(* A request that asks to close leaves keep-alive as it was, and so does   *)
(* one that cannot be parsed.                                              *)
KeepAlive(c, p) == c.keep_alive \/ p.connection # <<"close">>

(* The next read is started together with the write. *)
WriteReply_ReadAhead(o) == [o EXCEPT !.read = "pending", !.write = "pending"]

(* Only the write is outstanding while a reply is being sent. *)
WriteReply(o) == [o EXCEPT !.write = "pending"]

HandleRead ==
    /\ ops.read = "data"
    /\ LET result == parse(conn.parser, conn.buffer)
           p == result.parser
           timerOff == [ops EXCEPT !.read = "none",
                                   !.armed = IF conn.keep_alive THEN FALSE ELSE @]
       IN  \/ /\ result.status = "valid"
              /\ EndpointFails
           \/ /\ result.status = "valid"
              /\ conn' = [conn EXCEPT !.parser = p, !.reply = Reply(conn, p),
                                      !.keep_alive = KeepAlive(conn, p)]
              /\ ops' = WriteReply(timerOff)
              /\ UNCHANGED shut
           \/ /\ result.status = "invalid"
              /\ conn' = [conn EXCEPT !.parser = p, !.reply = BadRequest]
              /\ ops' = WriteReply(timerOff)
              /\ UNCHANGED shut
           \/ /\ result.status = "indeterminate"
              /\ conn' = [conn EXCEPT !.parser = p]
              /\ ops' = [timerOff EXCEPT !.read = "pending"]
              /\ UNCHANGED shut
    /\ UNCHANGED <<accept, wire, client, pending, last, budget>>

HandleReadError ==
    /\ ops.read = "eof"
    /\ handle_shutdown([ops EXCEPT !.read = "none"])
    /\ UNCHANGED <<accept, conn, wire, client, pending, last, budget>>

(* The budget is not counted down. *)
NextRequest_NoBudget(c) ==
    [NewConnection EXCEPT !.keep_alive = c.keep_alive,
                          !.processed_requests = c.processed_requests]

(* The connection for its next request: everything but keep-alive and the  *)
(* request count is as new.                                                *)
NextRequest(c) ==
    [NewConnection EXCEPT !.keep_alive = c.keep_alive,
                          !.processed_requests = c.processed_requests - 1]

HandleWrite ==
    /\ ops.write = "done"
    /\ LET o == [ops EXCEPT !.write = "none"] IN
       \/ /\ conn.keep_alive /\ conn.processed_requests > 0
          /\ conn' = NextRequest(conn)
          /\ ops' = start(conn, o)
          /\ UNCHANGED shut
       \/ /\ ~(conn.keep_alive /\ conn.processed_requests > 0)
          /\ handle_shutdown(o)
          /\ UNCHANGED conn
    /\ UNCHANGED <<accept, wire, client, pending, last, budget>>

(* A failed write is only logged. *)
HandleWriteError ==
    /\ ops.write = "failed"
    /\ ops' = [ops EXCEPT !.write = "none"]
    /\ UNCHANGED <<accept, conn, shut, wire, client, pending, last, budget>>

(* The socket's operations that have not completed are cancelled; those    *)
(* that have keep their handlers.                                          *)
handle_timeout ==
    /\ ops.fired
    /\ handle_shutdown([read  |-> IF ops.read = "pending" THEN "none" ELSE ops.read,
                        write |-> IF ops.write = "pending" THEN "none" ELSE ops.write,
                        armed |-> ops.armed, fired |-> FALSE])
    /\ UNCHANGED <<accept, conn, wire, client, pending, last, budget>>

Server ==
    \/ HandleAccept \/ ReadCompletes \/ WriteCompletes \/ TimerExpires
    \/ HandleRead \/ HandleReadError \/ HandleWrite \/ HandleWriteError \/ handle_timeout

Next == Server \/ HandleAcceptError \/ Stop \/ ClientAsks \/ ClientSends \/ ClientCloses

(* The handlers run on a pool of threads, the kernel completes what it can, *)
(* and a timer that is not cancelled expires.  Of the client nothing is     *)
(* assumed but that it reads its replies or goes away: a write has no       *)
(* time-out.                                                                *)
Fairness ==
    /\ WF_vars(HandleAccept) /\ WF_vars(ReadCompletes) /\ WF_vars(WriteCompletes)
    /\ WF_vars(TimerExpires) /\ WF_vars(HandleRead) /\ WF_vars(HandleReadError)
    /\ WF_vars(HandleWrite) /\ WF_vars(HandleWriteError) /\ WF_vars(handle_timeout)

Spec == Init /\ [][Next]_vars /\ Fairness

-----------------------------------------------------------------------------
(* Properties. *)

TypeOK ==
    /\ accept \in {"pending", "done", "failed"}
    /\ conn.keep_alive \in BOOLEAN
    /\ conn.processed_requests \in 0..MaxRequests
    /\ conn.parser.state \in States
    /\ ops \in [read : {"none", "pending", "data", "eof"},
                write : {"none", "pending", "done", "failed"},
                armed : BOOLEAN, fired : BOOLEAN]
    /\ shut \in BOOLEAN
    /\ Len(conn.buffer) <= BufferSize

(* A read and a write are never outstanding together: the buffers of the   *)
(* reply being written are not cleared or filled again under the write     *)
(* (Connection::handle_read, handle_write).                                *)
OneOperation == ops.read = "none" \/ ops.write = "none"

(* A reply that announces "max=n" is followed by at most n further replies *)
(* on its connection (processed_requests, Connection::handle_write).       *)
AnnouncedMaxKept == budget >= 0

(* "Slow client with a delayed _first_ request, which should be ignored    *)
(* too" (Connection::handle_timeout): before the first reply the server    *)
(* does not end a connection its client keeps open.                        *)
FirstRequestPatience ==
    [][accept' = "done" /\ ~shut /\ shut' => client.closed \/ last # NoReply]_vars

(* "Absent next request during waiting time in the keepalive mode - should *)
(* stop right there" (Connection::handle_timeout): a connection that waits *)
(* for the first byte of a further request gets it or is shut down.        *)
IdleClosed ==
    (conn.keep_alive /\ ops.read = "pending" /\ wire = <<>> /\ conn.parser = NewParser)
        ~> (shut \/ wire # <<>>)

(* Once the client has closed, every operation and handler that keeps the  *)
(* Connection object alive comes to an end.                                *)
AbandonedReleased == client.closed ~> (ops = NoOps)

(* A connection ends when it should and not before: patience with the      *)
(* first request, a limit for the next one, and no object left behind.     *)
ConnectionEnds == FirstRequestPatience /\ IdleClosed /\ AbandonedReleased

(* The status a request deserves, stated independently of the dispatch. *)
DeservedStatus(url) ==
    LET reachesEngine == /\ url.wellFormed /\ url.service \in Services
                         /\ url.version = Version /\ url.query = "valid"
    IN  IF ~Registered THEN 500
        ELSE IF reachesEngine /\ url.engine = "Ok" THEN 200
        ELSE IF reachesEngine /\ url.engine = "throws" /\ url.service # "traffic" THEN 500
        ELSE 400

DeservedReply(r) ==
    IF r.malformed THEN [status |-> 400, uri |-> <<>>, encoding |-> "no_compression",
                         connection |-> "none", sized |-> TRUE]
    ELSE [status |-> DeservedStatus(UrlOf[r.uri]), uri |-> <<r.uri>>,
          encoding |-> IF "gzip" \in r.accepts THEN "gzip"
                       ELSE IF "deflate" \in r.accepts THEN "deflate" ELSE "no_compression",
          connection |-> IF r.close THEN "close" ELSE "keep-alive", sized |-> TRUE]

Received(reply) ==
    IF reply = NoReply THEN NoReply ELSE
    [status |-> reply.status, uri |-> reply.uri, encoding |-> reply.encoding,
     connection |-> reply.connection, sized |-> reply.length = reply.content]

Exchange == INSTANCE HttpExchange
    WITH ReplyTo <- DeservedReply,
         last <- Received(last),
         open <- ~shut /\ ~client.closed

(* However the bytes of the requests are cut into reads, and whatever      *)
(* expires or closes in between, the connection implements HttpExchange:   *)
(* the n-th reply is the one the n-th request calls for, and a request     *)
(* sent in full is answered unless the exchange ends.                      *)
ImplementsExchange == Exchange!Spec
=============================================================================
