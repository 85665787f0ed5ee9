--------------------------- MODULE HttpRefinement ---------------------------
(***************************************************************************)
(* The connection implements the safety part of HttpExchange: for every    *)
(* buffer size, set of requests and way of cutting them into pieces, the   *)
(* replies come in the order of the requests, each one the reply that its  *)
(* request calls for.                                                      *)
(***************************************************************************)
EXTENDS HttpProofs

-----------------------------------------------------------------------------
(* From the text of a request to its reply.                                *)

(* It does not matter to parse where a text is cut in two.                 *)
LEMMA ParseConcat ==
    ASSUME NEW S, NEW a \in Seq(S), NEW b \in Seq(S), NEW p, NEW q, parse(p, a) = Continue(q)
    PROVE  parse(p, a \o b) = parse(q, b)
<1>1. PICK s : s = a \o b
  BY Zenon
<1>2. /\ Len(a) \in Nat /\ Len(b) \in Nat /\ Len(s) = Len(a) + Len(b) /\ Len(s) \in Nat
      /\ \A i \in 1 .. Len(a) : a[i] = s[0 + i]
      /\ \A i \in 1 .. Len(b) : b[i] = s[Len(a) + i]
  <2>1. Len(a) \in Nat /\ Len(b) \in Nat
    BY LenProperties
  <2> QED
    BY <1>1, <2>1, ConcatProperties
<1>3. PICK f : IsRun(f, p, s)
  BY <1>2, RunExists, Zenon
<1>4. f[0] = Continue(p)
  BY <1>2, <1>3, RunSteps
<1>5. PICK zero \in Nat : zero = 0
  OBVIOUS
<1>6. parse(p, a) = f[zero + Len(a)]
  <2>1. PartAt(s, a, zero) /\ f[zero] = Continue(p)
    BY <1>2, <1>4, <1>5 DEF PartAt
  <2> QED
    BY <1>2, <1>3, <2>1, ParsePart
<1>7. f[Len(a)] = Continue(q)
  BY <1>2, <1>5, <1>6
<1>8. parse(q, b) = f[Len(a) + Len(b)]
  <2>1. PartAt(s, b, Len(a))
    BY <1>2 DEF PartAt
  <2> QED
    BY <1>2, <1>3, <1>7, <2>1, ParsePart
<1>9. parse(p, s) = f[Len(s)]
  BY <1>2, <1>3, ParseRuns, Zenon
<1> QED
  BY <1>1, <1>2, <1>8, <1>9

(* An empty read changes nothing.                                          *)
LEMMA ParseNothing ==
    ASSUME NEW p PROVE parse(p, <<>>) = Continue(p)
<1>1. PICK f : IsRun(f, p, <<>>)
  BY RunExists
<1>2. f[0] = Continue(p)
  BY <1>1 DEF IsRun
<1> QED
  BY <1>1, <1>2, ParseRuns

(* The parser decides at the end of a request, and not before.             *)
LEMMA RequestParsed ==
    ASSUME NEW r \in Requests, NEW a \in Seq(Symbols), NEW b \in Seq(Symbols), Encode(r) = a \o b
    PROVE  /\ b = <<>> => Understood(r, parse(NewParser, a))
           /\ b # <<>> => \E q : parse(NewParser, a) = Continue(q)
<1>1. PICK result : Reaches(NewParser, Encode(r), result) /\ Understood(r, result)
  BY RequestRead, Zenon
<1>2. PICK s : s = Encode(r)
  OBVIOUS
<1>3. PICK f : /\ IsRun(f, NewParser, s) /\ f[Len(s)] = result
               /\ \A i \in 0 .. (Len(s) - 1) : \E q : f[i] = Continue(q)
  BY <1>1, <1>2, Zenon DEF Reaches
<1>4. /\ Len(a) \in Nat /\ Len(b) \in Nat /\ Len(s) = Len(a) + Len(b) /\ Len(s) \in Nat
      /\ \A i \in 1 .. Len(a) : a[i] = s[0 + i]
  <2>1. Len(a) \in Nat /\ Len(b) \in Nat
    BY LenProperties
  <2> QED
    BY <1>2, <2>1, ConcatProperties
<1>5. PICK zero \in Nat : zero = 0
  OBVIOUS
<1>6. parse(NewParser, a) = f[zero + Len(a)]
  <2>1. f[0] = Continue(NewParser)
    BY <1>3, <1>4, RunSteps
  <2>2. PartAt(s, a, zero) /\ f[zero] = Continue(NewParser)
    BY <1>4, <1>5, <2>1 DEF PartAt
  <2> QED
    BY <1>3, <1>4, <2>2, ParsePart
<1>7. parse(NewParser, a) = f[Len(a)]
  BY <1>4, <1>5, <1>6
<1>8. b = <<>> => Len(b) = 0
  OBVIOUS
<1>9. b # <<>> => Len(b) # 0
  BY EmptySeq
<1>10. ASSUME b = <<>> PROVE Understood(r, parse(NewParser, a))
  <2>1. Len(a) = Len(s)
    BY <1>4, <1>8, <1>10
  <2> QED
    BY <1>1, <1>3, <1>7, <2>1
<1>11. ASSUME b # <<>> PROVE \E q : parse(NewParser, a) = Continue(q)
  <2>1. Len(a) \in 0 .. (Len(s) - 1)
    BY <1>4, <1>9, <1>11
  <2> QED
    BY <1>3, <1>7, <2>1
<1> QED
  BY <1>10, <1>11

(* No request is empty.                                                    *)
LEMMA RequestNotEmpty ==
    ASSUME NEW r \in Requests PROVE Encode(r) # <<>>
<1> SUFFICES ASSUME Encode(r) = <<>> PROVE FALSE
  OBVIOUS
<1>0. <<>> \in Seq(Symbols)
  OBVIOUS
<1>1. PICK a \in Seq(Symbols) : a = <<>>
  BY <1>0, Zenon
<1>2. PICK b \in Seq(Symbols) : b = <<>>
  BY <1>0, Zenon
<1>3. Encode(r) = a \o b
  BY <1>1, <1>2, ConcatEmptySeq
<1>4. Understood(r, parse(NewParser, a))
  BY <1>2, <1>3, RequestParsed
<1>5. parse(NewParser, a) = Continue(NewParser)
  BY <1>1, ParseNothing
<1>6. Continue(NewParser).status = "indeterminate"
  BY DEF Continue
<1> QED
  BY <1>4, <1>5, <1>6 DEF Understood

(* The dispatch of RequestHandler and the services answers with the status *)
(* the URL deserves.                                                       *)
LEMMA StatusFits ==
    ASSUME NEW url, url.query \in {"malformed", "invalid", "valid"},
           url.engine \in {"Ok", "Error", "disabled", "throws"}
    PROVE  HandleRequest(Registered, url).status = DeservedStatus(url)
<1> DEFINE reaches == url.service \in Services /\ url.version = Version /\ url.query = "valid"
<1>1. PICK result : result = RunQuery(url)
  OBVIOUS
<1>2. ASSUME ~reaches PROVE result.status = "Error"
  <2>1. CASE url.service \notin Services
    BY <1>1, <2>1 DEF RunQuery, Failed, Services
  <2>2. CASE url.service \in Services /\ url.version # Version
    BY <1>1, <2>2 DEF RunQuery, Failed, Services
  <2>3. CASE url.service \in Services /\ url.version = Version /\ url.query \in {"malformed", "invalid"}
    BY <1>1, <2>3 DEF RunQuery, Failed, Services, TrafficRunQuery, TileRunQuery, ParameterisedRunQuery,
       RouteRunQuery, TableRunQuery, NearestRunQuery, TripRunQuery, MatchRunQuery
  <2> QED
    BY <1>2, <2>1, <2>2, <2>3
<1>3. ASSUME reaches
      PROVE  result.status = IF url.service = "traffic" /\ url.engine \in {"disabled", "throws"}
                             THEN "Error" ELSE url.engine
  BY <1>1, <1>3 DEF RunQuery, Failed, EngineResult, Services, TrafficRunQuery, TileRunQuery,
     ParameterisedRunQuery, RouteRunQuery, TableRunQuery, NearestRunQuery, TripRunQuery, MatchRunQuery
<1>4. CASE ~Registered \/ ~url.wellFormed
  BY <1>4, HttpAssumption DEF HandleRequest, stock_reply, SendResponse, Content, DeservedStatus
<1>5. CASE Registered /\ url.wellFormed
  <2>1. ASSUME NEW status, result.status = status
        PROVE  /\ status = "Ok" => HandleRequest(Registered, url).status = 200
               /\ status \in {"Error", "disabled"} => HandleRequest(Registered, url).status = 400
               /\ status = "throws" => HandleRequest(Registered, url).status = 500
    BY <1>1, <1>5, <2>1, SMTT(30) DEF HandleRequest, stock_reply, SendResponse, Content
  <2>2. CASE ~reaches
    <3>1. DeservedStatus(url) = 400
      BY <1>5, <2>2 DEF DeservedStatus
    <3>2. result.status = "Error"
      BY <1>2, <2>2
    <3> QED
      BY <2>1, <3>1, <3>2
  <2>3. CASE reaches
    <3>1. DeservedStatus(url) = IF url.engine = "Ok" THEN 200
                                ELSE IF url.engine = "throws" /\ url.service # "traffic" THEN 500 ELSE 400
      BY <1>5, <2>3 DEF DeservedStatus
    <3>2. CASE url.engine = "Ok"
      BY <1>3, <2>1, <2>3, <3>1, <3>2
    <3>3. CASE url.engine = "Error"
      BY <1>3, <2>1, <2>3, <3>1, <3>3
    <3>4. CASE url.engine = "disabled"
      BY <1>3, <2>1, <2>3, <3>1, <3>4
    <3>5. CASE url.engine = "throws"
      BY <1>3, <2>1, <2>3, <3>1, <3>5
    <3> QED
      BY <3>2, <3>3, <3>4, <3>5
  <2> QED
    BY <2>2, <2>3
<1> QED
  BY <1>4, <1>5

(* The reply to a request that has been understood is the one it deserves. *)
LEMMA ReplyFits ==
    ASSUME NEW r \in Requests, NEW result, Understood(r, result), NEW c
    PROVE  /\ result.status = "valid" => Received(Reply(c, result.parser)) = DeservedReply(r)
           /\ result.status = "invalid" => Received(BadRequest) = DeservedReply(r)
           /\ result.status \in {"valid", "invalid"}
<1>1. /\ r.malformed \in BOOLEAN /\ r.close \in BOOLEAN /\ r.uri \in Uris
      /\ UrlOf[r.uri].query \in {"malformed", "invalid", "valid"}
      /\ UrlOf[r.uri].engine \in {"Ok", "Error", "disabled", "throws"}
  BY RequestsAssumption
<1>2. CASE r.malformed = TRUE
  <2>1. result.status = "invalid"
    BY <1>2 DEF Understood
  <2>2. BadRequest # NoReply
    BY RepliesAreReplies
  <2>3. Received(BadRequest) = [status |-> 400, uri |-> <<>>, encoding |-> "no_compression",
                                connection |-> "none", sized |-> TRUE]
    BY <2>2, Zenon DEF Received, BadRequest
  <2> QED
    BY <1>2, <2>1, <2>3 DEF DeservedReply
<1>3. CASE r.malformed = FALSE
  <2>1. /\ result.status = "valid" /\ result.parser.uri = <<r.uri>>
        /\ result.parser.compression = Chosen(r.accepts)
        /\ result.parser.connection = Closing(r.close)
    BY <1>3 DEF Understood
  <2>2. PICK p : p = result.parser
    OBVIOUS
  <2>3. PICK reply : reply = Reply(c, p)
    OBVIOUS
  <2>4. reply # NoReply
    BY <2>3, RepliesAreReplies
  <2>5. p.uri[1] = r.uri
    BY <2>1, <2>2
  <2>6. reply.status = DeservedStatus(UrlOf[r.uri])
    BY <1>1, <2>3, <2>5, StatusFits DEF Reply
  <2>7. (p.connection = <<"close">>) <=> r.close
    BY <1>1, <2>1, <2>2 DEF Closing
  <2>8. /\ reply.uri = <<r.uri>> /\ reply.encoding = Chosen(r.accepts) /\ reply.length = reply.content
        /\ reply.connection = IF p.connection = <<"close">> THEN "close" ELSE "keep-alive"
    BY <2>1, <2>2, <2>3 DEF Reply
  <2>9. reply.connection = IF r.close THEN "close" ELSE "keep-alive"
    BY <2>7, <2>8
  <2>10. DeservedReply(r) = [status |-> DeservedStatus(UrlOf[r.uri]), uri |-> <<r.uri>>,
                             encoding |-> Chosen(r.accepts),
                             connection |-> IF r.close THEN "close" ELSE "keep-alive", sized |-> TRUE]
    BY <1>3 DEF DeservedReply, Chosen, Plain
  <2>11. Received(reply) = DeservedReply(r)
    BY <2>4, <2>6, <2>8, <2>9, <2>10, Zenon DEF Received
  <2> QED
    BY <2>1, <2>2, <2>3, <2>11
<1> QED
  BY <1>1, <1>2, <1>3, Zenon

-----------------------------------------------------------------------------
(* The text in flight: the inductive invariant of the refinement.          *)

(* Read from the wire, but not by the parser yet.                          *)
Held == IF ops.read = "data" THEN conn.buffer ELSE <<>>

Whole(h, w, t) == (h \o w) \o t

(* What the parser will still see of the request in progress.              *)
Unread == Whole(Held, wire, client.rest)

Idle == client.rest = <<>> /\ pending = <<>>

(* The request in progress: still being sent, or sent and not answered.    *)
Asking(r) ==
    \/ client.rest # <<>> /\ client.request = r /\ pending = <<>>
    \/ client.rest = <<>> /\ pending = <<r>>

(* The parser has got as far as the text that is gone allows.              *)
Reading(r, unread, parser) ==
    \E read \in Seq(Symbols) : Encode(r) = read \o unread /\ parse(NewParser, read) = Continue(parser)

TextTypeOK ==
    /\ client = [m \in {"rest", "request", "left", "closed"} |-> client[m]]
    /\ client.closed \in BOOLEAN /\ shut \in BOOLEAN
    /\ conn.buffer \in Seq(Symbols) /\ wire \in Seq(Symbols) /\ client.rest \in Seq(Symbols)

BeforeReply ==
    /\ Idle => Unread = <<>> /\ conn.parser = NewParser
    /\ \A r \in Requests : Asking(r) => Reading(r, Unread, conn.parser)

DuringReply ==
    \E r \in Requests : /\ client.rest = <<>> /\ pending = <<r>> /\ Unread = <<>>
                        /\ Received(conn.reply) = DeservedReply(r)

AfterReply ==
    /\ Idle => Unread = <<>>
    /\ \A r \in Requests : Asking(r) => Unread = Encode(r)

TextInv ==
    /\ TextTypeOK
    /\ ~Over => /\ Idle \/ \E r \in Requests : Asking(r)
                /\ ops.write = "none" => BeforeReply
                /\ ops.write = "pending" => DuringReply
                /\ ops.write = "done" => AfterReply

(* The empty text.                                                         *)
LEMMA NoText == <<>> \in Seq(Symbols)
OBVIOUS

(* The texts in flight are texts.                                          *)
LEMMA UnreadTyped ==
    ASSUME TextTypeOK
    PROVE  Held \in Seq(Symbols) /\ Held \o wire \in Seq(Symbols) /\ Unread \in Seq(Symbols)
<1>1. Held \in Seq(Symbols)
  BY NoText DEF TextTypeOK, Held
<1>2. Held \o wire \in Seq(Symbols)
  BY <1>1, ConcatProperties DEF TextTypeOK
<1> QED
  BY <1>1, <1>2, ConcatProperties DEF TextTypeOK, Unread, Whole

(* A text is empty when it is empty joined to another one.                 *)
LEMMA JoinEmpty ==
    ASSUME NEW s \in Seq(Symbols), NEW t \in Seq(Symbols), s \o t = <<>>
    PROVE  s = <<>> /\ t = <<>>
<1>1. Len(s) \in Nat /\ Len(t) \in Nat /\ Len(s \o t) = Len(s) + Len(t)
  BY LenProperties, ConcatProperties
<1>2. Len(s) = 0 /\ Len(t) = 0
  BY <1>1
<1> QED
  BY <1>2, EmptySeq

(* Nothing is unread when no part is.                                      *)
LEMMA NothingUnread ==
    ASSUME TextTypeOK, Unread = <<>>
    PROVE  Held = <<>> /\ wire = <<>> /\ client.rest = <<>>
<1>1. Held \in Seq(Symbols) /\ Held \o wire \in Seq(Symbols) /\ wire \in Seq(Symbols)
      /\ client.rest \in Seq(Symbols)
  BY UnreadTyped DEF TextTypeOK
<1>2. Held \o wire = <<>> /\ client.rest = <<>>
  BY <1>1, JoinEmpty DEF Unread, Whole
<1> QED
  BY <1>1, <1>2, JoinEmpty

(* A step that moves no text past the parser keeps the invariant.          *)
LEMMA TextSame ==
    ASSUME TextInv, TextTypeOK', Over => Over',
           \/ Over'
           \/ /\ Unread' = Unread /\ conn'.parser = conn.parser /\ conn'.reply = conn.reply
              /\ ops'.write = ops.write /\ pending' = pending
              /\ client'.rest = client.rest /\ client'.request = client.request
    PROVE  TextInv'
<1>1. CASE Over'
  BY <1>1 DEF TextInv
<1>2. CASE ~Over'
  <2>1. /\ Unread' = Unread /\ conn'.parser = conn.parser /\ conn'.reply = conn.reply
        /\ ops'.write = ops.write /\ pending' = pending
        /\ client'.rest = client.rest /\ client'.request = client.request /\ ~Over
    BY <1>2
  <2>2. Idle' <=> Idle
    BY <2>1 DEF Idle
  <2>3. \A r : Asking(r)' <=> Asking(r)
    BY <2>1 DEF Asking
  <2>4. /\ Idle' \/ \E r \in Requests : Asking(r)'
    BY <2>1, <2>2, <2>3 DEF TextInv
  <2>5. BeforeReply => BeforeReply'
    BY <2>1, <2>2, <2>3 DEF BeforeReply, Reading
  <2>6. DuringReply => DuringReply'
    BY <2>1 DEF DuringReply
  <2>7. AfterReply => AfterReply'
    BY <2>1, <2>2, <2>3 DEF AfterReply
  <2> QED
    BY <2>1, <2>4, <2>5, <2>6, <2>7 DEF TextInv
<1> QED
  BY <1>1, <1>2

-----------------------------------------------------------------------------
(* Every step keeps it.                                                    *)

(* A text cut in two is the text.                                          *)
LEMMA CutInTwo ==
    ASSUME NEW S, NEW s \in Seq(S), NEW n \in 1 .. Len(s)
    PROVE  /\ SubSeq(s, 1, n) \in Seq(S) /\ SubSeq(s, n + 1, Len(s)) \in Seq(S)
           /\ SubSeq(s, 1, n) \o SubSeq(s, n + 1, Len(s)) = s
           /\ SubSeq(s, n + 1, Len(s)) = <<>> <=> n = Len(s)
<1>1. Len(s) \in Nat /\ n \in Nat /\ \A i \in 1 .. Len(s) : s[i] \in S
  BY LenProperties, ElementOfSeq
<1>2. SubSeq(s, 1, n) \in Seq(S)
  BY <1>1, SubSeqProperties
<1>3. SubSeq(s, n + 1, Len(s)) \in Seq(S) /\ Len(SubSeq(s, n + 1, Len(s))) = Len(s) - n
  <2>1. n + 1 \in Int /\ Len(s) \in Int /\ \A i \in (n + 1) .. Len(s) : s[i] \in S
    BY <1>1
  <2>2. /\ SubSeq(s, n + 1, Len(s)) \in Seq(S)
        /\ Len(SubSeq(s, n + 1, Len(s))) = IF n + 1 <= Len(s) THEN Len(s) - (n + 1) + 1 ELSE 0
    BY <2>1, SubSeqProperties
  <2> QED
    BY <1>1, <2>2
<1>4. SubSeq(s, 1, n) \o SubSeq(s, n + 1, Len(s)) = SubSeq(s, 1, Len(s))
  BY <1>1, ConcatAdjacentSubSeq
<1>5. SubSeq(s, 1, Len(s)) = s
  BY SubSeqFull
<1>6. SubSeq(s, n + 1, Len(s)) = <<>> <=> n = Len(s)
  <2>1. PICK b : b = SubSeq(s, n + 1, Len(s))
    BY Zenon
  <2>2. b \in Seq(S) /\ Len(b) = Len(s) - n
    BY <1>3, <2>1
  <2>3. b = <<>> <=> Len(b) = 0
    BY <2>2, EmptySeq
  <2> QED
    BY <1>1, <2>1, <2>2, <2>3
<1> QED
  BY <1>2, <1>3, <1>4, <1>5, <1>6, Zenon

(* Sending a part of the rest changes nothing for the parser.              *)
LEMMA WholeSame ==
    ASSUME NEW S, NEW h \in Seq(S), NEW w \in Seq(S), NEW a \in Seq(S), NEW b \in Seq(S)
    PROVE  Whole(h, w \o a, b) = Whole(h, w, a \o b)
<1>1. h \o w \in Seq(S)
  BY ConcatProperties
<1>2. (h \o w) \o a = h \o (w \o a)
  BY ConcatAssociative
<1>3. PICK u \in Seq(S) : u = h \o w
  BY <1>1, Zenon
<1>4. (u \o a) \o b = u \o (a \o b)
  BY ConcatAssociative
<1>5. (h \o (w \o a)) \o b = (h \o w) \o (a \o b)
  BY <1>2, <1>3, <1>4
<1> QED
  BY <1>5, Zenon DEF Whole

(* The client begins a request.                                            *)
LEMMA TextAsked ==
    ASSUME TextInv, IInv, ClientAsks
    PROVE  TextInv'
<1>1. /\ client.rest = <<>> /\ ~client.closed /\ ~shut /\ pending = <<>>
      /\ UNCHANGED <<accept, conn, ops, shut, wire, pending, last, budget>>
  BY DEF ClientAsks
<1>2. PICK r \in Requests : client' = [client EXCEPT !.rest = Encode(r), !.request = r, !.left = @ - 1]
  BY Zenon DEF ClientAsks
<1>3. /\ client' = [m \in {"rest", "request", "left", "closed"} |-> client'[m]]
      /\ client'.rest = Encode(r) /\ client'.request = r /\ client'.closed = client.closed
  BY <1>2, Zenon DEF TextInv, TextTypeOK
<1>4. Encode(r) \in Seq(Symbols) /\ Encode(r) # <<>>
  BY RequestRead, RequestNotEmpty
<1>5. TextTypeOK'
  BY <1>1, <1>3, <1>4 DEF TextInv, TextTypeOK
<1>6. ~Over /\ Idle
  BY <1>1 DEF Over, Idle
<1>7. ops.write \in {"none", "done"} /\ Unread = <<>>
  <2>1. ops.write # "failed" /\ ops.write \in {"none", "pending", "done", "failed"}
    BY <1>6 DEF IInv, ChainInv, ConnTypeOK, OpStates
  <2>2. ops.write # "pending"
    BY <1>1, <1>6 DEF TextInv, DuringReply
  <2> QED
    BY <1>6, <2>1, <2>2 DEF TextInv, BeforeReply, AfterReply
<1>8. Held = <<>> /\ wire = <<>>
  BY <1>7, NothingUnread DEF TextInv
<1>9. Unread' = Encode(r)
  <2>1. Held' = <<>> /\ wire' = <<>>
    BY <1>1, <1>8 DEF Held
  <2>2. <<>> \o <<>> = <<>> /\ <<>> \o Encode(r) = Encode(r)
    BY <1>4, NoText, ConcatEmptySeq
  <2> QED
    BY <1>3, <2>1, <2>2 DEF Unread, Whole
<1>10. ~Idle' /\ Asking(r)' /\ \A x : Asking(x)' => x = r
  BY <1>1, <1>3, <1>4 DEF Idle, Asking
<1>11. ops.write = "none" => BeforeReply'
  <2>1. ASSUME ops.write = "none" PROVE Reading(r, Unread, conn.parser)'
    <3>1. conn.parser = NewParser
      BY <1>6, <2>1 DEF TextInv, BeforeReply
    <3>2. parse(NewParser, <<>>) = Continue(conn'.parser)
      BY <1>1, <3>1, ParseNothing
    <3>3. Encode(r) = <<>> \o Unread'
      BY <1>4, <1>9, ConcatEmptySeq
    <3> QED
      BY <3>2, <3>3, NoText, Zenon DEF Reading
  <2> QED
    BY <1>10, <2>1 DEF BeforeReply
<1>12. ops.write = "done" => AfterReply'
  BY <1>9, <1>10 DEF AfterReply
<1> QED
  BY <1>1, <1>5, <1>7, <1>10, <1>11, <1>12 DEF TextInv

(* The client sends a piece: what is unread stays the same.                *)
LEMMA TextSent ==
    ASSUME TextInv, IInv, ClientSends
    PROVE  /\ TextInv'
           /\ pending' = pending \/ (pending = <<>> /\ \E r \in Requests : pending' = <<r>>)
<1>1. ~client.closed /\ ~shut /\ UNCHANGED <<accept, conn, ops, shut, last, budget>>
  BY DEF ClientSends
<1>2. PICK rest : rest = client.rest
  OBVIOUS
<1>3. PICK n \in DOMAIN rest \cap (Pieces \cup {Len(rest)}) :
         /\ wire' = wire \o SubSeq(rest, 1, n)
         /\ client' = [client EXCEPT !.rest = SubSeq(rest, n + 1, Len(rest)),
                                     !.request = IF n = Len(rest) THEN NoRequest ELSE @]
         /\ pending' = IF n = Len(rest) THEN Append(pending, client.request) ELSE pending
  BY <1>2, Zenon DEF ClientSends
<1>4. rest \in Seq(Symbols) /\ Len(rest) \in Nat /\ n \in 1 .. Len(rest) /\ rest # <<>>
  BY <1>2, LenProperties DEF TextInv, TextTypeOK
<1>5. PICK a \in Seq(Symbols) : a = SubSeq(rest, 1, n)
  BY <1>4, CutInTwo, Zenon
<1>6. PICK b \in Seq(Symbols) : b = SubSeq(rest, n + 1, Len(rest))
  BY <1>4, CutInTwo, Zenon
<1>7. a \o b = rest /\ (b = <<>> <=> n = Len(rest))
  BY <1>4, <1>5, <1>6, CutInTwo, Zenon
<1>8. /\ client' = [m \in {"rest", "request", "left", "closed"} |-> client'[m]]
      /\ client'.rest = b /\ client'.closed = client.closed
      /\ client'.request = IF n = Len(rest) THEN NoRequest ELSE client.request
  BY <1>3, <1>6, Zenon DEF TextInv, TextTypeOK
<1>9. wire \in Seq(Symbols) /\ wire' = wire \o a /\ wire' \in Seq(Symbols)
  BY <1>3, <1>5, <1>7, ConcatProperties DEF TextInv, TextTypeOK
<1>10. TextTypeOK'
  BY <1>1, <1>7, <1>8, <1>9 DEF TextInv, TextTypeOK
<1>11. ~Over /\ ~Over' /\ ~Idle
  BY <1>1, <1>2, <1>4, <1>8 DEF Over, Idle
<1>12. PICK r \in Requests : Asking(r)
  BY <1>11 DEF TextInv
<1>13. client.request = r /\ pending = <<>>
  BY <1>2, <1>4, <1>12 DEF Asking
<1>14. Unread' = Unread
  <2>1. PICK h \in Seq(Symbols) : h = Held
    BY UnreadTyped DEF TextInv
  <2>2. PICK w \in Seq(Symbols) : w = wire
    BY <1>9
  <2>3. Whole(h, w \o a, b) = Whole(h, w, a \o b)
    BY WholeSame
  <2>4. Held' = h
    BY <1>1, <2>1 DEF Held
  <2>5. Unread' = Whole(h, wire', b) /\ Unread = Whole(h, wire, rest)
    BY <1>2, <1>8, <2>1, <2>4 DEF Unread
  <2> QED
    BY <1>7, <1>9, <2>2, <2>3, <2>5
<1>15. /\ ~Idle' /\ Asking(r)' /\ \A x : Asking(x)' => x = r
       /\ pending' = pending \/ pending' = <<r>>
  <2>1. CASE n = Len(rest)
    <3>1. client'.rest = <<>> /\ pending' = <<r>>
      BY <1>3, <1>7, <1>8, <1>13, <2>1
    <3> QED
      BY <3>1 DEF Idle, Asking
  <2>2. CASE n # Len(rest)
    <3>1. client'.rest # <<>> /\ pending' = <<>> /\ client'.request = r
      BY <1>3, <1>7, <1>8, <1>13, <2>2, Zenon
    <3> QED
      BY <1>13, <3>1 DEF Idle, Asking
  <2> QED
    BY <2>1, <2>2
<1>16. ops.write = "none" => BeforeReply'
  BY <1>1, <1>11, <1>12, <1>14, <1>15, Zenon DEF TextInv, BeforeReply, Reading
<1>17. ops.write # "pending"
  BY <1>2, <1>4, <1>11 DEF TextInv, DuringReply
<1>18. ops.write = "done" => AfterReply'
  BY <1>11, <1>12, <1>14, <1>15 DEF TextInv, AfterReply
<1> QED
  BY <1>1, <1>10, <1>13, <1>15, <1>16, <1>17, <1>18 DEF TextInv

(* However a request is cut, the last read decides.                        *)
LEMMA ReadDecides ==
    ASSUME NEW r \in Requests, NEW held \in Seq(Symbols), NEW left \in Seq(Symbols), NEW q,
           Reading(r, held \o left, q)
    PROVE  /\ left = <<>> => Understood(r, parse(q, held))
           /\ left # <<>> => \E x : parse(q, held) = Continue(x) /\ Reading(r, left, x)
<1>1. PICK read \in Seq(Symbols) : /\ Encode(r) = read \o (held \o left)
                                   /\ parse(NewParser, read) = Continue(q)
  BY Zenon DEF Reading
<1>2. parse(NewParser, read \o held) = parse(q, held)
  BY <1>1, ParseConcat
<1>3. (read \o held) \o left = read \o (held \o left)
  BY ConcatAssociative
<1>4. PICK a \in Seq(Symbols) : a = read \o held
  BY ConcatProperties, Zenon
<1>5. Encode(r) = a \o left
  BY <1>1, <1>3, <1>4
<1>6. /\ left = <<>> => Understood(r, parse(NewParser, a))
      /\ left # <<>> => \E x : parse(NewParser, a) = Continue(x)
  BY <1>5, RequestParsed, Zenon
<1>7. ASSUME NEW x, parse(NewParser, a) = Continue(x) PROVE Reading(r, left, x)
  BY <1>5, <1>7, Zenon DEF Reading
<1> QED
  BY <1>2, <1>4, <1>6, <1>7

(* The text when the parser has taken what was held.                       *)
LEMMA WholeUnheld ==
    ASSUME NEW S, NEW w \in Seq(S), NEW t \in Seq(S)
    PROVE  Whole(<<>>, w, t) = w \o t
<1>1. <<>> \o w = w
  BY ConcatEmptySeq
<1> QED
  BY <1>1 DEF Whole

(* The kernel moves text from the wire to the buffer.                      *)
LEMMA TextReadCompletes ==
    ASSUME TextInv, IInv, ReadCompletes
    PROVE  TextInv'
<1>1. ops.read = "pending" /\ UNCHANGED <<accept, shut, client, pending, last, budget>>
  BY DEF ReadCompletes
<1>2. CASE /\ ops' = [ops EXCEPT !.read = "eof"] /\ UNCHANGED <<conn, wire>>
           /\ shut \/ (client.closed /\ wire = <<>>)
  <2>1. Over' /\ TextTypeOK'
    BY <1>1, <1>2 DEF Over, TextInv, TextTypeOK
  <2> QED
    BY <2>1, TextSame
<1>3. ASSUME NEW n, n = IF Len(wire) < BufferSize THEN Len(wire) ELSE BufferSize,
             wire # <<>>, conn' = [conn EXCEPT !.buffer = SubSeq(wire, 1, n)],
             wire' = SubSeq(wire, n + 1, Len(wire)), ops' = [ops EXCEPT !.read = "data"]
      PROVE  TextInv'
  <2>1. PICK w \in Seq(Symbols) : w = wire
    BY DEF TextInv, TextTypeOK
  <2>2. PICK t \in Seq(Symbols) : t = client.rest
    BY DEF TextInv, TextTypeOK
  <2>3. n \in 1 .. Len(w)
    <3>1. Len(w) \in Nat \ {0}
      BY <1>3, <2>1, EmptySeq
    <3> QED
      BY <1>3, <2>1, <3>1, HttpAssumption
  <2>4. PICK a \in Seq(Symbols) : a = SubSeq(w, 1, n)
    BY <2>3, CutInTwo, Zenon
  <2>5. PICK b \in Seq(Symbols) : b = SubSeq(w, n + 1, Len(w))
    BY <2>3, CutInTwo, Zenon
  <2>6. a \o b = w
    BY <2>3, <2>4, <2>5, CutInTwo
  <2>7. /\ conn'.buffer = a /\ conn'.parser = conn.parser /\ conn'.reply = conn.reply /\ wire' = b
        /\ ops'.read = "data" /\ ops'.write = ops.write
    BY <1>3, <2>1, <2>4, <2>5 DEF IInv, ConnTypeOK, ConnMembers, OpStates
  <2>8. TextTypeOK'
    BY <1>1, <2>7 DEF TextInv, TextTypeOK
  <2>9. Held = <<>> /\ Held' = a
    BY <1>1, <2>7 DEF Held
  <2>10. Unread' = Whole(a, b, t) /\ Unread = Whole(<<>>, w, t)
    BY <1>1, <2>1, <2>2, <2>7, <2>9 DEF Unread
  <2>11. Whole(<<>>, w, t) = w \o t
    BY WholeUnheld
  <2>12. Whole(a, b, t) = w \o t
    BY <2>6, Zenon DEF Whole
  <2>13. Unread' = Unread
    BY <2>10, <2>11, <2>12
  <2>14. Over => Over'
    BY <1>1 DEF Over
  <2> QED
    BY <1>1, <2>7, <2>8, <2>13, <2>14, TextSame
<1> QED
  BY <1>2, <1>3, Zenon DEF ReadCompletes

(* The client receives the reply to its oldest request.                    *)
LEMMA TextWriteCompletes ==
    ASSUME TextInv, IInv, WriteCompletes
    PROVE  /\ TextInv'
           /\ \/ UNCHANGED <<pending, last>>
              \/ /\ ~Over /\ pending # <<>>
                 /\ Received(last') = DeservedReply(Head(pending)) /\ pending' = Tail(pending)
<1>1. ops.write = "pending" /\ UNCHANGED <<accept, conn, shut, wire, client>>
  BY DEF WriteCompletes
<1>2. TextTypeOK' /\ (Over' <=> Over)
  BY <1>1 DEF TextInv, TextTypeOK, Over
<1>3. CASE Over
  <2>1. UNCHANGED <<pending, last>>
    BY <1>3 DEF WriteCompletes, Over
  <2> QED
    BY <1>2, <1>3, <2>1, TextSame
<1>4. CASE ~Over
  <2>1. /\ ops' = [ops EXCEPT !.write = "done"] /\ last' = conn.reply
        /\ pending' = IF pending = <<>> THEN <<>> ELSE Tail(pending)
    BY <1>4 DEF WriteCompletes, ClientReceives, Over
  <2>2. ops'.write = "done" /\ ops'.read = ops.read
    BY <2>1 DEF IInv, ConnTypeOK, OpStates
  <2>3. PICK r \in Requests : /\ client.rest = <<>> /\ pending = <<r>> /\ Unread = <<>>
                              /\ Received(conn.reply) = DeservedReply(r)
    BY <1>1, <1>4 DEF TextInv, DuringReply
  <2>4. pending # <<>> /\ Head(pending) = r /\ Tail(pending) = <<>> /\ pending' = <<>>
    BY <2>1, <2>3
  <2>5. Idle' /\ \A x : ~Asking(x)'
    BY <1>1, <2>3, <2>4 DEF Idle, Asking
  <2>6. Unread' = <<>>
    BY <1>1, <2>2, <2>3 DEF Unread, Held
  <2>7. TextInv'
    BY <1>2, <2>2, <2>5, <2>6 DEF TextInv, AfterReply
  <2> QED
    BY <1>4, <2>1, <2>3, <2>4, <2>7
<1> QED
  BY <1>3, <1>4

(* The connection gets ready for the next request.                         *)
LEMMA TextHandleWrite ==
    ASSUME TextInv, IInv, HandleWrite
    PROVE  TextInv'
<1>1. ops.write = "done" /\ ops.read = "none" /\ UNCHANGED <<accept, wire, client, pending, last, budget>>
  BY DEF HandleWrite, IInv, ChainInv, OneOperation
<1>2. PICK o : o = [ops EXCEPT !.write = "none"]
  BY Zenon
<1>3. CASE handle_shutdown(o) /\ UNCHANGED conn
  <2>1. Over' /\ TextTypeOK'
    BY <1>1, <1>3 DEF handle_shutdown, Over, TextInv, TextTypeOK
  <2> QED
    BY <2>1, TextSame
<1>4. CASE conn' = NextRequest(conn) /\ ops' = start(conn, o) /\ UNCHANGED shut
  <2>1. conn'.parser = NewParser /\ conn'.buffer = <<>>
    BY <1>4 DEF NextRequest, NewConnection
  <2>2. ops'.read = "pending" /\ ops'.write = "none"
    BY <1>2, <1>4 DEF start, IInv, ConnTypeOK, OpStates
  <2>3. TextTypeOK' /\ (Over' <=> Over)
    BY <1>1, <1>4, <2>1, NoText DEF TextInv, TextTypeOK, Over
  <2>4. Unread' = Unread /\ (Idle' <=> Idle) /\ \A x : Asking(x)' <=> Asking(x)
    <3>1. Held = <<>> /\ Held' = <<>>
      BY <1>1, <2>2 DEF Held
    <3> QED
      BY <1>1, <3>1 DEF Unread, Idle, Asking
  <2>5. ASSUME ~Over, NEW r \in Requests, Asking(r) PROVE Reading(r, Unread, conn.parser)'
    <3>1. Unread = Encode(r)
      BY <1>1, <2>5 DEF TextInv, AfterReply
    <3>2. Unread \in Seq(Symbols)
      BY UnreadTyped DEF TextInv
    <3>3. Encode(r) = <<>> \o Unread'
      BY <2>4, <3>1, <3>2, ConcatEmptySeq
    <3>4. parse(NewParser, <<>>) = Continue(conn'.parser)
      BY <2>1, ParseNothing
    <3> QED
      BY <3>3, <3>4, NoText, Zenon DEF Reading
  <2>6. ~Over => BeforeReply'
    BY <1>1, <2>1, <2>4, <2>5 DEF TextInv, BeforeReply, AfterReply
  <2> QED
    BY <2>2, <2>3, <2>4, <2>6 DEF TextInv
<1> QED
  BY <1>2, <1>3, <1>4 DEF HandleWrite

(* The parser takes what was held; at the end of the request the reply is  *)
(* right.                                                                  *)
LEMMA TextHandleRead ==
    ASSUME TextInv, IInv, HandleRead
    PROVE  TextInv'
<1>1. PICK result : result = parse(conn.parser, conn.buffer)
  OBVIOUS
<1>2. PICK p : p = result.parser
  OBVIOUS
<1>3. PICK off : off = [ops EXCEPT !.read = "none", !.armed = IF conn.keep_alive THEN FALSE ELSE @]
  OBVIOUS
<1>4. ops.read = "data" /\ ops.write = "none" /\ UNCHANGED <<accept, wire, client, pending, last, budget>>
  BY DEF HandleRead, IInv, ChainInv, OneOperation
<1> DEFINE
      Answered == /\ result.status = "valid" /\ ops' = WriteReply(off) /\ UNCHANGED shut
                  /\ conn' = [conn EXCEPT !.parser = p, !.reply = Reply(conn, p),
                                          !.keep_alive = KeepAlive(conn, p)]
      Refused == /\ result.status = "invalid" /\ ops' = WriteReply(off) /\ UNCHANGED shut
                 /\ conn' = [conn EXCEPT !.parser = p, !.reply = BadRequest]
      GoesOn == /\ result.status = "indeterminate" /\ ops' = [off EXCEPT !.read = "pending"]
                /\ conn' = [conn EXCEPT !.parser = p] /\ UNCHANGED shut
<1>5. EndpointFails \/ Answered \/ Refused \/ GoesOn
  BY <1>1, <1>2, <1>3 DEF HandleRead
<1>6. conn'.buffer = conn.buffer /\ (Over => Over') /\ shut' \in BOOLEAN
  <2>1. CASE EndpointFails
    BY <1>4, <2>1 DEF EndpointFails, handle_shutdown, Over
  <2>2. CASE Answered \/ Refused \/ GoesOn
    BY <1>4, <2>2, Zenon DEF IInv, ConnTypeOK, ConnMembers, TextInv, TextTypeOK, Over
  <2> QED
    BY <1>5, <2>1, <2>2
<1>7. TextTypeOK'
  BY <1>4, <1>6 DEF TextInv, TextTypeOK
<1>8. CASE Over
  BY <1>6, <1>7, <1>8, TextSame
<1>9. CASE ~Over
  <2>1. BeforeReply /\ (Idle \/ \E r \in Requests : Asking(r))
    BY <1>4, <1>9 DEF TextInv
  <2>2. PICK h \in Seq(Symbols) : h = conn.buffer
    BY DEF TextInv, TextTypeOK
  <2>3. PICK w \in Seq(Symbols) : w = wire
    BY DEF TextInv, TextTypeOK
  <2>4. PICK t \in Seq(Symbols) : t = client.rest
    BY DEF TextInv, TextTypeOK
  <2>0. (h \o w) \o t = h \o (w \o t)
    BY ConcatAssociative
  <2>5. PICK left \in Seq(Symbols) : left = w \o t
    BY ConcatProperties, Zenon
  <2>6. Unread = h \o left
    <3>1. Unread = Whole(h, w, t)
      BY <1>4, <2>2, <2>3, <2>4 DEF Unread, Held
    <3>2. Whole(h, w, t) = h \o (w \o t)
      BY <2>0, Zenon DEF Whole
    <3> QED
      BY <2>5, <3>1, <3>2, Zenon
  <2>7. ~EndpointFails /\ UNCHANGED shut
    BY <1>5, <1>9 DEF EndpointFails, Over
  <2>8. /\ Answered \/ Refused => ops'.read = "none" /\ ops'.write = "pending"
        /\ GoesOn => ops'.read = "pending" /\ ops'.write = "none"
    <3>1. off \in OpStates /\ off.read = "none" /\ off.write = "none"
      BY <1>3, <1>4, Zenon DEF IInv, ConnTypeOK, OpStates
    <3> QED
      BY <3>1 DEF WriteReply, OpStates
  <2>9. Unread' = left
    <3>1. Held' = <<>>
      BY <1>5, <2>7, <2>8 DEF Held
    <3>2. Whole(<<>>, w, t) = w \o t
      BY WholeUnheld
    <3>3. Unread' = Whole(<<>>, w, t)
      BY <1>4, <2>3, <2>4, <3>1 DEF Unread
    <3> QED
      BY <2>5, <3>2, <3>3, Zenon
  <2>10. (Idle' <=> Idle) /\ \A x : Asking(x)' <=> Asking(x)
    BY <1>4 DEF Idle, Asking
  <2>11. GoesOn => conn'.parser = p
    BY DEF IInv, ConnTypeOK, ConnMembers
  <2>12. CASE Idle
    <3>1. Unread = <<>> /\ conn.parser = NewParser
      BY <2>1, <2>12 DEF BeforeReply
    <3>2. h = <<>> /\ w = <<>> /\ t = <<>>
      BY <1>4, <2>2, <2>3, <2>4, <3>1, NothingUnread DEF TextInv, Held
    <3>3. result = Continue(NewParser)
      BY <1>1, <2>2, <3>1, <3>2, ParseNothing
    <3>4. GoesOn /\ p = NewParser
      BY <1>2, <1>5, <2>7, <3>3 DEF Continue
    <3>5. Unread' = <<>>
      <4>1. <<>> \o <<>> = <<>>
        BY NoText, ConcatEmptySeq
      <4> QED
        BY <2>5, <2>9, <3>2, <4>1
    <3>6. Idle' /\ \A x : ~Asking(x)'
      BY <2>10, <2>12 DEF Idle, Asking
    <3> QED
      BY <1>7, <2>8, <2>11, <3>4, <3>5, <3>6 DEF TextInv, BeforeReply
  <2>13. ASSUME NEW r \in Requests, Asking(r) PROVE TextInv'
    <3>1. PICK q : q = conn.parser
      OBVIOUS
    <3>2. Reading(r, h \o left, q)
      <4>1. Reading(r, Unread, conn.parser)
        BY <2>1, <2>13 DEF BeforeReply
      <4> QED
        BY <2>6, <3>1, <4>1
    <3>3. result = parse(q, h)
      BY <1>1, <2>2, <3>1
    <3>4. /\ left = <<>> => Understood(r, result)
          /\ left # <<>> => \E x : result = Continue(x) /\ Reading(r, left, x)
      BY <3>2, <3>3, ReadDecides
    <3>5. ~Idle' /\ Asking(r)' /\ \A x : Asking(x)' => x = r
      <4>1. Asking(r)'
        BY <2>10, <2>13
      <4>2. pending' = <<r>> => pending' # <<>>
        OBVIOUS
      <4>3. ASSUME NEW x, Asking(x)' PROVE x = r
        <5>1. <<x>> = <<r>> => x = r
          OBVIOUS
        <5> QED
          BY <4>1, <4>2, <4>3, <5>1 DEF Asking
      <4> QED
        BY <4>1, <4>2, <4>3 DEF Asking, Idle
    <3>6. CASE left # <<>>
      <4>1. PICK x : result = Continue(x) /\ Reading(r, left, x)
        BY <3>4, <3>6
      <4>2. x = p /\ GoesOn
        BY <1>2, <1>5, <2>7, <4>1 DEF Continue
      <4>3. Reading(r, Unread', conn'.parser)
        BY <2>9, <2>11, <4>1, <4>2
      <4>4. BeforeReply'
        BY <3>5, <4>3 DEF BeforeReply, Reading
      <4> QED
        BY <1>7, <2>8, <3>5, <4>2, <4>4 DEF TextInv
    <3>7. CASE left = <<>>
      <4>1. Understood(r, result)
        BY <3>4, <3>7
      <4>2. w = <<>> /\ t = <<>>
        <5>1. w \o t = <<>>
          BY <2>5, <3>7
        <5> QED
          BY <5>1, JoinEmpty
      <4>3. client'.rest = <<>> /\ pending' = <<r>>
        BY <1>4, <2>4, <2>13, <4>2 DEF Asking
      <4>4. /\ result.status = "valid" => Received(Reply(conn, p)) = DeservedReply(r)
            /\ result.status = "invalid" => Received(BadRequest) = DeservedReply(r)
            /\ result.status \in {"valid", "invalid"}
        BY <1>2, <4>1, ReplyFits, Zenon
      <4>5. Answered \/ Refused
        BY <1>5, <2>7, <4>4
      <4>6. Received(conn'.reply) = DeservedReply(r)
        <5>1. Answered => conn'.reply = Reply(conn, p)
          BY DEF IInv, ConnTypeOK, ConnMembers
        <5>2. Refused => conn'.reply = BadRequest
          BY DEF IInv, ConnTypeOK, ConnMembers
        <5> QED
          BY <4>4, <4>5, <5>1, <5>2
      <4>7. DuringReply'
        BY <2>9, <3>7, <4>3, <4>6 DEF DuringReply
      <4> QED
        BY <1>7, <2>8, <3>5, <4>5, <4>7 DEF TextInv
    <3> QED
      BY <3>6, <3>7
  <2> QED
    BY <2>1, <2>12, <2>13
<1> QED
  BY <1>8, <1>9

(* The other steps move no text.                                           *)
LEMMA TextOthers ==
    ASSUME TextInv, IInv,
           \/ HandleAccept \/ HandleAcceptError \/ Stop \/ TimerExpires \/ HandleReadError
           \/ HandleWriteError \/ handle_timeout \/ ClientCloses
    PROVE  TextInv'
<1>1. CASE HandleAccept
  <2>1. /\ ops = NoOps /\ ops' = [ops EXCEPT !.read = "pending", !.armed = conn.keep_alive]
        /\ UNCHANGED <<conn, shut, wire, client, pending, last, budget>>
    BY <1>1 DEF HandleAccept, start, IInv, ChainInv
  <2>2. ops.read = "none" /\ ops'.read = "pending" /\ ops'.write = ops.write
    BY <2>1 DEF NoOps
  <2>3. Unread' = Unread /\ TextTypeOK' /\ (Over' <=> Over)
    BY <2>1, <2>2 DEF Unread, Held, TextInv, TextTypeOK, Over
  <2> QED
    BY <2>1, <2>2, <2>3, TextSame
<1>2. CASE TimerExpires
  <2>1. ops' = [ops EXCEPT !.armed = FALSE, !.fired = TRUE]
        /\ UNCHANGED <<accept, conn, shut, wire, client, pending, last, budget>>
    BY <1>2 DEF TimerExpires
  <2>2. ops'.read = ops.read /\ ops'.write = ops.write
    BY <2>1 DEF IInv, ConnTypeOK, OpStates
  <2>3. Unread' = Unread /\ TextTypeOK' /\ (Over' <=> Over)
    BY <2>1, <2>2 DEF Unread, Held, TextInv, TextTypeOK, Over
  <2> QED
    BY <2>1, <2>2, <2>3, TextSame
<1>3. CASE HandleWriteError
  <2>1. Over' /\ TextTypeOK'
    BY <1>3 DEF HandleWriteError, IInv, ChainInv, Over, TextInv, TextTypeOK
  <2> QED
    BY <2>1, TextSame
<1>4. CASE HandleAcceptError \/ HandleReadError \/ handle_timeout
  <2>1. Over' /\ TextTypeOK'
    BY <1>4, Zenon DEF HandleAcceptError, HandleReadError, handle_timeout, handle_shutdown, Over, TextInv, TextTypeOK
  <2> QED
    BY <2>1, TextSame
<1>5. CASE Stop
  <2>1. conn'.buffer = <<>> /\ wire' = <<>> /\ shut' = TRUE /\ UNCHANGED client
    BY <1>5 DEF Stop, NewConnection
  <2>2. Over' /\ TextTypeOK'
    BY <2>1, NoText DEF Over, TextInv, TextTypeOK
  <2> QED
    BY <2>2, TextSame
<1>6. CASE ClientCloses
  <2>1. /\ client' = [client EXCEPT !.closed = TRUE, !.rest = <<>>, !.request = NoRequest]
        /\ UNCHANGED <<accept, conn, ops, shut, wire, pending, last, budget>>
    BY <1>6 DEF ClientCloses
  <2>2. /\ client' = [m \in {"rest", "request", "left", "closed"} |-> client'[m]]
        /\ client'.closed = TRUE /\ client'.rest = <<>>
    BY <2>1, Zenon DEF TextInv, TextTypeOK
  <2>3. Over' /\ TextTypeOK'
    BY <2>1, <2>2, NoText DEF Over, TextInv, TextTypeOK
  <2> QED
    BY <2>3, TextSame
<1> QED
  BY <1>1, <1>2, <1>3, <1>4, <1>5, <1>6

-----------------------------------------------------------------------------
(* The refinement.                                                         *)

(* Every step keeps the invariant.                                         *)
LEMMA TextKeeps ==
    ASSUME TextInv, IInv, [Next]_vars
    PROVE  TextInv'
<1>1. CASE UNCHANGED vars
  <2>1. Unread' = Unread /\ TextTypeOK' /\ (Over' <=> Over)
    BY <1>1 DEF vars, Unread, Held, TextInv, TextTypeOK, Over
  <2> QED
    BY <1>1, <2>1, TextSame DEF vars
<1> QED
  BY <1>1, TextAsked, TextSent, TextReadCompletes, TextWriteCompletes, TextHandleRead, TextHandleWrite, TextOthers
  DEF Next, Server

(* It holds at the beginning.                                              *)
LEMMA TextBegins == Init => TextInv
<1> SUFFICES ASSUME Init PROVE TextInv
  OBVIOUS
<1>1. /\ conn.buffer = <<>> /\ conn.parser = NewParser /\ ops.read = "none" /\ ops.write = "none" /\ shut = FALSE
      /\ wire = <<>> /\ pending = <<>> /\ client.rest = <<>> /\ client.closed = FALSE
      /\ client = [m \in {"rest", "request", "left", "closed"} |-> client[m]]
  BY DEF Init, NewConnection, NoOps
<1>2. TextTypeOK
  BY <1>1, NoText, Zenon DEF TextTypeOK
<1>3. <<>> \o <<>> = <<>>
  BY NoText, ConcatEmptySeq
<1>4. Unread = <<>>
  BY <1>1, <1>3 DEF Unread, Held, Whole
<1>5. Idle /\ \A r : ~Asking(r)
  BY <1>1 DEF Idle, Asking
<1> QED
  BY <1>1, <1>2, <1>4, <1>5 DEF TextInv, BeforeReply

(* The invariant holds in every reachable state.                           *)
THEOREM TextInvariant == Spec => []TextInv
BY TextBegins, TextKeeps, Invariant, PTL DEF Spec

(* The safety part of HttpExchange.                                        *)
ExchangeKept == Exchange!Init /\ [][Exchange!Next]_<<pending, Received(last), ~shut /\ ~client.closed>>

(* The first state is one of the exchange.                                 *)
LEMMA ExchangeBegins == Init => Exchange!Init
<1> SUFFICES ASSUME Init PROVE Exchange!Init
  OBVIOUS
<1>1. pending = <<>> /\ last = NoReply /\ shut = FALSE /\ client.closed = FALSE
  BY DEF Init
<1> QED
  BY <1>1 DEF Exchange!Init, Received

(* Every step of the connection is a step of the exchange or none.         *)
LEMMA ExchangeStep ==
    ASSUME TextInv, IInv, [Next]_vars
    PROVE  [Exchange!Next]_<<pending, Received(last), ~shut /\ ~client.closed>>
<1> DEFINE open == ~shut /\ ~client.closed
           Same == pending' = pending /\ last' = last
<1>1. ASSUME Same, open' => open PROVE [Exchange!Next]_<<pending, Received(last), open>>
  <2>1. pending' = pending /\ Received(last)' = Received(last)
    BY <1>1 DEF Received
  <2>2. CASE open' <=> open
    BY <2>1, <2>2
  <2>3. CASE open /\ ~open'
    BY <2>1, <2>3 DEF Exchange!Next, Exchange!End
  <2> QED
    BY <1>1, <2>2, <2>3
<1>2. CASE ClientSends
  <2>1. last' = last /\ (open' <=> open) /\ Received(last)' = Received(last)
    <3>1. UNCHANGED <<shut, last>> /\ client'.closed = client.closed
      BY <1>2 DEF ClientSends, TextInv, TextTypeOK
    <3> QED
      BY <3>1 DEF Received
  <2>2. pending' = pending \/ (pending = <<>> /\ \E r \in Requests : pending' = <<r>>)
    BY <1>2, TextSent
  <2>3. CASE pending' = pending
    BY <1>1, <2>1, <2>3
  <2>4. ASSUME pending = <<>>, NEW r \in Requests, pending' = <<r>>
        PROVE  Exchange!Ask
    <3>1. pending' = Append(pending, r)
      BY <2>4
    <3> QED
      BY <2>1, <3>1 DEF Exchange!Ask
  <2> QED
    BY <2>2, <2>3, <2>4 DEF Exchange!Next
<1>3. CASE WriteCompletes
  <2>1. open' <=> open
    BY <1>3 DEF WriteCompletes
  <2>2. \/ Same
        \/ /\ ~Over /\ pending # <<>>
           /\ Received(last') = DeservedReply(Head(pending)) /\ pending' = Tail(pending)
    BY <1>3, TextWriteCompletes
  <2>3. CASE Same
    BY <1>1, <2>1, <2>3
  <2>4. ASSUME ~Over, pending # <<>>, Received(last') = DeservedReply(Head(pending)),
               pending' = Tail(pending)
        PROVE  Exchange!Answer
    <3>1. open /\ Received(last)' = DeservedReply(Head(pending))
      BY <2>4 DEF Over, Received
    <3> QED
      BY <2>1, <2>4, <3>1 DEF Exchange!Answer
  <2> QED
    BY <2>2, <2>3, <2>4 DEF Exchange!Next
<1>4. CASE UNCHANGED vars
  BY <1>1, <1>4 DEF vars
<1>5. CASE ClientAsks
  <2>1. Same /\ shut' = shut /\ client'.closed = client.closed
    BY <1>5 DEF ClientAsks, TextInv, TextTypeOK
  <2> QED
    BY <1>1, <2>1
<1>6. CASE ClientCloses
  <2>1. Same /\ shut' = shut /\ client'.closed = TRUE
    BY <1>6 DEF ClientCloses, TextInv, TextTypeOK
  <2> QED
    BY <1>1, <2>1
<1>7. CASE HandleAccept \/ ReadCompletes \/ TimerExpires \/ HandleWriteError
  BY <1>1, <1>7 DEF HandleAccept, ReadCompletes, TimerExpires, HandleWriteError
<1>8. CASE HandleAcceptError \/ Stop \/ HandleReadError \/ handle_timeout
  BY <1>1, <1>8 DEF HandleAcceptError, Stop, HandleReadError, handle_timeout, handle_shutdown
<1>9. CASE HandleRead
  <2>1. Same /\ UNCHANGED client /\ (shut' = shut \/ shut' = TRUE)
    BY <1>9 DEF HandleRead, EndpointFails, handle_shutdown
  <2> QED
    BY <1>1, <2>1
<1>10. CASE HandleWrite
  <2>1. Same /\ UNCHANGED client /\ (shut' = shut \/ shut' = TRUE)
    BY <1>10 DEF HandleWrite, handle_shutdown
  <2> QED
    BY <1>1, <2>1
<1> QED
  BY <1>2, <1>3, <1>4, <1>5, <1>6, <1>7, <1>8, <1>9, <1>10 DEF Next, Server

(* However the bytes of the requests are cut into reads, and whatever      *)
(* expires or closes in between, the replies come in the order of the      *)
(* requests, each one the reply its request calls for                      *)
(* (Connection::handle_read, RequestParser::parse,                         *)
(* RequestHandler::HandleRequest): the connection implements the safety    *)
(* part of HttpExchange.                                                   *)
THEOREM RepliesInOrder == Spec => ExchangeKept
BY ExchangeBegins, ExchangeStep, TextInvariant, Invariant, PTL DEF Spec, ExchangeKept
=============================================================================
