----------------------------- MODULE HttpProofs -----------------------------
(***************************************************************************)
(* The connection's safety for every limit, buffer size, set of requests   *)
(* and way of cutting them into pieces: a read and a write never           *)
(* outstanding together, announced limits kept, patience with the first    *)
(* request.  None of it depends on what the parser makes of the bytes: the *)
(* proofs hold for every result of parse.                                  *)
(*                                                                         *)
(* The replies do depend on it.  The second half of the module says what   *)
(* RequestParser makes of the requests of a client, however many symbols   *)
(* they have: the text of a request is understood at its end and never     *)
(* earlier, and a text can be parsed in any number of pieces.              *)
(* HttpRefinement goes on from there.                                      *)
(***************************************************************************)
EXTENDS HttpConnection, SequenceTheorems, WellFoundedInduction, TLAPS


-----------------------------------------------------------------------------
(* The inductive invariant.                                                *)

ConnMembers == {"keep_alive", "processed_requests", "parser", "buffer", "reply"}

OpStates ==
    [read : {"none", "pending", "data", "eof"}, write : {"none", "pending", "done", "failed"},
     armed : BOOLEAN, fired : BOOLEAN]

ConnTypeOK ==
    /\ conn = [m \in ConnMembers |-> conn[m]]
    /\ conn.keep_alive \in BOOLEAN
    /\ conn.processed_requests \in 0 .. MaxRequests
    /\ ops \in OpStates

(* Nobody can send to the client or hear from it any more. *)
Over == shut \/ client.closed

(* What the chain of operations keeps: nothing is outstanding before the   *)
(* accept, a read fails only when the exchange is over, and the connection *)
(* never reads while it writes.                                            *)
ChainInv ==
    /\ accept = "pending" => ops = NoOps /\ conn.keep_alive = FALSE
    /\ OneOperation
    /\ ops.read = "eof" => Over
    /\ ops.write = "failed" => Over

(* The replies the client may still expect are one more than the requests  *)
(* the connection will still serve, until the reply has arrived.           *)
BudgetInv ==
    /\ budget \in Nat
    /\ ~Over => budget = conn.processed_requests + (IF ops.write = "done" THEN 0 ELSE 1)
    /\ ops.write = "pending" => conn.reply # NoReply /\
         (conn.reply.connection = "keep-alive" => conn.reply.max = conn.processed_requests)

(* A timer is armed only between requests, hence after a reply.            *)
PatienceInv ==
    last = NoReply /\ ~Over => ~ops.armed /\ ~ops.fired /\ ops.write # "done"

IInv == ConnTypeOK /\ ChainInv /\ BudgetInv /\ PatienceInv

-----------------------------------------------------------------------------
LEMMA InitEstablishes == Init => IInv
BY HttpAssumption
   DEF Init, IInv, ConnTypeOK, ConnMembers, OpStates, ChainInv, OneOperation, BudgetInv, PatienceInv, Over,
       NewConnection, NoOps

(* A reply is never taken for none. *)
LEMMA RepliesAreReplies ==
    /\ \A c, p : Reply(c, p) # NoReply
    /\ BadRequest # NoReply
<1>1. \A c, p : "max" \in DOMAIN Reply(c, p)
  BY DEF Reply
<1>2. "max" \in DOMAIN BadRequest
  BY DEF BadRequest
<1>3. "max" \notin DOMAIN NoReply
  BY DEF NoReply
<1> QED
  BY <1>1, <1>2, <1>3

(* The client only sends, closes or does nothing; the connection is as it  *)
(* was.                                                                    *)
LEMMA ClientKeeps ==
    ASSUME IInv, ClientAsks \/ ClientSends \/ ClientCloses
    PROVE  IInv'
BY Zenon DEF ClientAsks, ClientSends, ClientCloses, IInv, ConnTypeOK, ChainInv, OneOperation, BudgetInv,
       PatienceInv, Over

(* The acceptor and the signal handler.                                    *)
LEMMA AcceptKeeps ==
    ASSUME IInv, HandleAccept \/ HandleAcceptError \/ Stop
    PROVE  IInv'
<1>1. CASE HandleAccept
  <2>1. /\ ops'.read = "pending" /\ ops'.write = "none" /\ ~ops'.armed /\ ~ops'.fired
        /\ ops' \in OpStates
    <3>1. /\ ops.write = "none" /\ ops.fired = FALSE /\ conn.keep_alive = FALSE
          /\ ops' = [ops EXCEPT !.read = "pending", !.armed = conn.keep_alive]
      BY <1>1 DEF HandleAccept, start, IInv, ChainInv, NoOps
    <3> QED
      BY <3>1, Zenon DEF IInv, ConnTypeOK, OpStates
  <2>2. ops.write = "none" /\ accept' = "done" /\ UNCHANGED <<conn, shut, client, last, budget>>
    BY <1>1 DEF HandleAccept, IInv, ChainInv, NoOps
  <2> QED
    BY <2>1, <2>2
    DEF IInv, ConnTypeOK, ChainInv, OneOperation, BudgetInv, PatienceInv, Over
<1>2. CASE HandleAcceptError
  BY <1>2
  DEF HandleAcceptError, IInv, ConnTypeOK, ChainInv, OneOperation, BudgetInv, PatienceInv, Over
<1>3. CASE Stop
  BY <1>3, HttpAssumption
  DEF Stop, IInv, ConnTypeOK, ConnMembers, OpStates, ChainInv, OneOperation, BudgetInv, PatienceInv, Over, NoOps,
      NewConnection
<1> QED
  BY <1>1, <1>2, <1>3

(* The kernel completes an operation, or a timer expires.                  *)
LEMMA CompletionKeeps ==
    ASSUME IInv, ReadCompletes \/ WriteCompletes \/ TimerExpires
    PROVE  IInv'
<1>1. CASE ReadCompletes
  BY <1>1
  DEF ReadCompletes, IInv, ConnTypeOK, ConnMembers, OpStates, ChainInv, OneOperation, BudgetInv, PatienceInv, Over,
      NoOps
<1>2. CASE WriteCompletes
  BY <1>2
  DEF WriteCompletes, ClientReceives, IInv, ConnTypeOK, ConnMembers, OpStates, ChainInv, OneOperation, BudgetInv,
      PatienceInv, Over, NoOps
<1>3. CASE TimerExpires
  <2>1. /\ ops.armed = TRUE /\ accept # "pending"
        /\ UNCHANGED <<accept, conn, shut, client, last, budget>>
    BY <1>3 DEF TimerExpires, IInv, ChainInv, ConnTypeOK, OpStates, NoOps
  <2>2. ops'.read = ops.read /\ ops'.write = ops.write /\ ops' \in OpStates
    BY <1>3, Zenon DEF TimerExpires, IInv, ConnTypeOK, OpStates
  <2> QED
    BY <2>1, <2>2
    DEF IInv, ConnTypeOK, ChainInv, OneOperation, BudgetInv, PatienceInv, Over
<1> QED
  BY <1>1, <1>2, <1>3

(* The reply to a request, whatever the parser made of it.                 *)
LEMMA HandleReadKeeps ==
    ASSUME IInv, HandleRead
    PROVE  IInv'
<1>1. PICK result : result = parse(conn.parser, conn.buffer)
  OBVIOUS
<1>2. PICK p : p = result.parser
  OBVIOUS
<1>3. PICK off : off = [ops EXCEPT !.read = "none", !.armed = IF conn.keep_alive THEN FALSE ELSE @]
  OBVIOUS
<1>4. ops.read = "data" /\ ops.write = "none" /\ accept # "pending"
  BY DEF HandleRead, IInv, ChainInv, OneOperation, NoOps
<1>5. /\ off \in OpStates /\ off.read = "none" /\ off.write = "none" /\ off.fired = ops.fired
       /\ off.armed = IF conn.keep_alive THEN FALSE ELSE ops.armed
  BY <1>3, <1>4, Zenon DEF IInv, ConnTypeOK, OpStates
<1>6. UNCHANGED <<accept, wire, client, pending, last, budget>>
  BY DEF HandleRead
<1>7. CASE EndpointFails
  <2>1. ops' \in OpStates /\ ops'.read = "none" /\ ops'.write = "none" /\ shut' = TRUE /\ UNCHANGED conn
    BY <1>4, <1>7, Zenon DEF EndpointFails, handle_shutdown, IInv, ConnTypeOK, OpStates
  <2> QED
    BY <1>4, <1>6, <2>1
    DEF IInv, ConnTypeOK, ChainInv, OneOperation, BudgetInv, PatienceInv, Over
<1>8. CASE /\ conn' = [conn EXCEPT !.parser = p, !.reply = Reply(conn, p),
                                  !.keep_alive = KeepAlive(conn, p)]
           /\ ops' = WriteReply(off) /\ UNCHANGED shut
  <2>1. /\ conn'.reply = Reply(conn, p) /\ conn'.processed_requests = conn.processed_requests
        /\ conn'.keep_alive = KeepAlive(conn, p) /\ conn' = [m \in ConnMembers |-> conn'[m]]
    BY <1>8, Zenon DEF IInv, ConnTypeOK, ConnMembers
  <2>2. conn'.reply # NoReply /\ conn'.keep_alive \in BOOLEAN
    BY <2>1, RepliesAreReplies DEF KeepAlive, IInv, ConnTypeOK
  <2>3. conn'.reply.connection = "keep-alive" => conn'.reply.max = conn.processed_requests
    BY <2>1 DEF Reply
  <2>4. /\ ops' \in OpStates /\ ops'.read = "none" /\ ops'.write = "pending" /\ ops'.fired = ops.fired
        /\ ops'.armed = off.armed
    BY <1>8, <1>5, Zenon DEF WriteReply, OpStates
  <2> QED
    BY <1>4, <1>6, <1>8, <1>5, <2>1, <2>2, <2>3, <2>4, Zenon
    DEF IInv, ConnTypeOK, ChainInv, OneOperation, BudgetInv, PatienceInv, Over
<1>9. CASE /\ conn' = [conn EXCEPT !.parser = p, !.reply = BadRequest]
           /\ ops' = WriteReply(off) /\ UNCHANGED shut
  <2>1. /\ conn'.reply = BadRequest /\ conn'.processed_requests = conn.processed_requests
        /\ conn'.keep_alive = conn.keep_alive /\ conn' = [m \in ConnMembers |-> conn'[m]]
    BY <1>9, Zenon DEF IInv, ConnTypeOK, ConnMembers
  <2>2. conn'.reply # NoReply /\ conn'.reply.connection # "keep-alive"
    BY <2>1, RepliesAreReplies DEF BadRequest
  <2>3. /\ ops' \in OpStates /\ ops'.read = "none" /\ ops'.write = "pending" /\ ops'.fired = ops.fired
        /\ ops'.armed = off.armed
    BY <1>9, <1>5, Zenon DEF WriteReply, OpStates
  <2> QED
    BY <1>4, <1>6, <1>9, <1>5, <2>1, <2>2, <2>3, Zenon
    DEF IInv, ConnTypeOK, ChainInv, OneOperation, BudgetInv, PatienceInv, Over
<1>10. CASE /\ conn' = [conn EXCEPT !.parser = p]
           /\ ops' = [off EXCEPT !.read = "pending"] /\ UNCHANGED shut
  <2>1. /\ conn'.processed_requests = conn.processed_requests
        /\ conn'.keep_alive = conn.keep_alive /\ conn' = [m \in ConnMembers |-> conn'[m]]
    BY <1>10 DEF IInv, ConnTypeOK, ConnMembers
  <2>2. /\ ops' \in OpStates /\ ops'.read = "pending" /\ ops'.write = "none" /\ ops'.fired = ops.fired
        /\ ops'.armed = off.armed
    BY <1>10, <1>5, Zenon DEF OpStates
  <2> QED
    BY <1>4, <1>6, <1>10, <1>5, <2>1, <2>2, Zenon
    DEF IInv, ConnTypeOK, ChainInv, OneOperation, BudgetInv, PatienceInv, Over
<1> QED
  BY <1>1, <1>2, <1>3, <1>7, <1>8, <1>9, <1>10 DEF HandleRead

(* The handler of a write goes on to the next request or shuts down.       *)
LEMMA HandleWriteKeeps ==
    ASSUME IInv, HandleWrite
    PROVE  IInv'
<1>1. /\ ops.write = "done" /\ ops.read = "none" /\ accept # "pending"
      /\ UNCHANGED <<accept, wire, client, pending, last, budget>>
  BY DEF HandleWrite, IInv, ChainInv, OneOperation, NoOps
<1>2. PICK o : o = [ops EXCEPT !.write = "none"]
  BY Zenon
<1>3. CASE /\ conn.keep_alive /\ conn.processed_requests > 0
           /\ conn' = NextRequest(conn) /\ ops' = start(conn, o) /\ UNCHANGED shut
  <2>1. /\ conn'.processed_requests = conn.processed_requests - 1
        /\ conn'.keep_alive = conn.keep_alive /\ conn' = [m \in ConnMembers |-> conn'[m]]
    BY <1>3, Zenon DEF NextRequest, NewConnection, ConnMembers
  <2>2. conn'.processed_requests \in 0 .. MaxRequests
    BY <1>3, <2>1, HttpAssumption DEF IInv, ConnTypeOK
  <2>3. ops' \in OpStates /\ ops'.read = "pending" /\ ops'.write = "none"
    BY <1>1, <1>2, <1>3, Zenon DEF start, IInv, ConnTypeOK, OpStates
  <2> QED
    BY <1>1, <1>3, <2>1, <2>2, <2>3
    DEF IInv, ConnTypeOK, ChainInv, OneOperation, BudgetInv, PatienceInv, Over
<1>4. CASE handle_shutdown(o) /\ UNCHANGED conn
  <2>1. ops' \in OpStates /\ ops'.read = "none" /\ ops'.write = "none" /\ shut' = TRUE
    BY <1>1, <1>2, <1>4, Zenon DEF handle_shutdown, IInv, ConnTypeOK, OpStates
  <2> QED
    BY <1>1, <1>4, <2>1
    DEF IInv, ConnTypeOK, ChainInv, OneOperation, BudgetInv, PatienceInv, Over
<1> QED
  BY <1>2, <1>3, <1>4 DEF HandleWrite

(* The other handlers leave the connection's members alone.                *)
LEMMA OtherHandlersKeep ==
    ASSUME IInv, HandleReadError \/ HandleWriteError \/ handle_timeout
    PROVE  IInv'
<1>1. accept # "pending" /\ UNCHANGED <<accept, conn, client, last, budget>>
  BY DEF HandleReadError, HandleWriteError, handle_timeout, IInv, ChainInv, NoOps
<1>2. CASE HandleReadError
  <2>1. ops' \in OpStates /\ ops'.read = "none" /\ ops'.write = ops.write /\ shut' = TRUE
    BY <1>2, Zenon DEF HandleReadError, handle_shutdown, IInv, ConnTypeOK, OpStates
  <2> QED
    BY <1>1, <2>1
    DEF IInv, ConnTypeOK, ChainInv, OneOperation, BudgetInv, PatienceInv, Over
<1>3. CASE HandleWriteError
  <2>1. /\ ops' \in OpStates /\ ops'.read = ops.read /\ ops'.write = "none" /\ ops.write = "failed"
        /\ ops'.armed = ops.armed /\ ops'.fired = ops.fired /\ UNCHANGED shut
    BY <1>3 DEF HandleWriteError, IInv, ConnTypeOK, OpStates
  <2> QED
    BY <1>1, <2>1
    DEF IInv, ConnTypeOK, ChainInv, OneOperation, BudgetInv, PatienceInv, Over
<1>4. CASE handle_timeout
  <2>1. /\ ops' \in OpStates /\ ops'.read \in {ops.read, "none"} /\ ops'.write \in {ops.write, "none"}
        /\ shut' = TRUE
    BY <1>4, Zenon DEF handle_timeout, handle_shutdown, IInv, ConnTypeOK, OpStates
  <2> QED
    BY <1>1, <2>1
    DEF IInv, ConnTypeOK, ChainInv, OneOperation, BudgetInv, PatienceInv, Over
<1> QED
  BY <1>2, <1>3, <1>4

LEMMA NextKeeps ==
    ASSUME IInv, [Next]_vars
    PROVE  IInv'
<1>1. CASE UNCHANGED vars
  BY <1>1 DEF vars, IInv, ConnTypeOK, ChainInv, OneOperation, BudgetInv, PatienceInv, Over
<1> QED
  BY <1>1, ClientKeeps, AcceptKeeps, CompletionKeeps, HandleReadKeeps, HandleWriteKeeps,
     OtherHandlersKeep
  DEF Next, Server

(* The invariant holds in every reachable state.                           *)
THEOREM Invariant == Spec => []IInv
BY InitEstablishes, NextKeeps, PTL DEF Spec

-----------------------------------------------------------------------------
(* The buffers of a reply are not cleared or filled again while it is      *)
(* being written: Connection never has a read and a write outstanding.     *)
THEOREM NeverReadAndWrite == Spec => []OneOperation
<1>1. IInv => OneOperation
  BY DEF IInv, ChainInv
<1> QED
  BY <1>1, Invariant, PTL

(* A reply that announces "max=n" is followed by at most n replies         *)
(* (processed_requests in Connection::handle_read and handle_write).       *)
THEOREM MaxKept == Spec => []AnnouncedMaxKept
<1>1. IInv => AnnouncedMaxKept
  BY DEF IInv, BudgetInv, AnnouncedMaxKept
<1> QED
  BY <1>1, Invariant, PTL

(* Before the first reply the server does not end a connection its client  *)
(* keeps open ("should be ignored too", Connection::handle_timeout).       *)
THEOREM Patience == Spec => FirstRequestPatience
<1> DEFINE Patient == accept' = "done" /\ ~shut /\ shut' => client.closed \/ last # NoReply
<1>1. ASSUME IInv, [Next]_vars PROVE [Patient]_vars
  <2> SUFFICES ASSUME Next, accept' = "done", ~shut, shut', ~client.closed, last = NoReply
               PROVE  FALSE
    BY <1>1
  <2>1. CASE HandleRead
    BY <2>1, Zenon DEF HandleRead, EndpointFails
  <2>2. CASE HandleReadError
    BY <1>1, <2>2 DEF HandleReadError, IInv, ChainInv, Over
  <2>3. CASE HandleWrite
    BY <1>1, <2>3 DEF HandleWrite, IInv, PatienceInv, Over
  <2>4. CASE handle_timeout
    BY <1>1, <2>4 DEF handle_timeout, IInv, PatienceInv, Over
  <2>5. CASE HandleAcceptError \/ Stop
    BY <2>5 DEF HandleAcceptError, Stop
  <2>6. CASE \/ HandleAccept \/ ReadCompletes \/ WriteCompletes \/ TimerExpires \/ HandleWriteError
             \/ ClientAsks \/ ClientSends \/ ClientCloses
    BY <2>6, Zenon DEF HandleAccept, ReadCompletes, WriteCompletes, TimerExpires, HandleWriteError, ClientAsks,
                ClientSends, ClientCloses
  <2> QED
    BY <2>1, <2>2, <2>3, <2>4, <2>5, <2>6 DEF Next, Server
<1> QED
  BY <1>1, Invariant, PTL DEF Spec, FirstRequestPatience

-----------------------------------------------------------------------------
(* Parsing a text: parse is the last result of a run over the symbols, and *)
(* can be taken up where an earlier read left it.                          *)

(* The results of a parse, symbol by symbol.                               *)
IsRun(f, p, s) ==
    f = [i \in 0 .. Len(s) |-> IF i = 0 THEN Continue(p) ELSE consumeNext(f[i - 1], s[i])]

(* A run begins with its parser and takes one symbol a step.               *)
LEMMA RunSteps ==
    ASSUME NEW p, NEW s, Len(s) \in Nat, NEW f, IsRun(f, p, s)
    PROVE  f[0] = Continue(p) /\ \A i \in 1 .. Len(s) : f[i] = consumeNext(f[i - 1], s[i])
<1>1. ASSUME NEW i \in 0 .. Len(s)
      PROVE  f[i] = IF i = 0 THEN Continue(p) ELSE consumeNext(f[i - 1], s[i])
  BY DEF IsRun
<1> QED
  BY <1>1

(* The step of a run at one place.                                         *)
LEMMA RunStep ==
    ASSUME NEW p, NEW s, Len(s) \in Nat, NEW f, IsRun(f, p, s), NEW i \in 1 .. Len(s)
    PROVE  f[i] = consumeNext(f[i - 1], s[i])
BY DEF IsRun

(* What steps like a run is one.                                           *)
LEMMA StepsRun ==
    ASSUME NEW p, NEW s, Len(s) \in Nat, NEW f, f = [i \in 0 .. Len(s) |-> f[i]],
           f[0] = Continue(p), \A i \in 1 .. Len(s) : f[i] = consumeNext(f[i - 1], s[i])
    PROVE  IsRun(f, p, s)
<1>1. \A i \in 0 .. Len(s) : f[i] = IF i = 0 THEN Continue(p) ELSE consumeNext(f[i - 1], s[i])
  OBVIOUS
<1> QED
  BY <1>1 DEF IsRun

(* A set of numbers that has 0, and with a number below n the next one,    *)
(* has all numbers up to n.                                                *)
LEMMA UpTo ==
    ASSUME NEW n \in Nat, NEW T, 0 \in T, \A i \in 0 .. (n - 1) : i \in T => i + 1 \in T
    PROVE  0 .. n \subseteq T
<1> DEFINE out == (0 .. n) \ T
<1>1. SUFFICES ASSUME out # {} PROVE FALSE
  OBVIOUS
<1>2. out \subseteq Nat
  OBVIOUS
<1>3. PICK c \in out : \A d \in out : ~(<<d, c>> \in OpToRel(<, Nat))
  BY <1>1, <1>2, WFMin, NatLessThanWellFounded, Zenon
<1>4. c \in 1 .. n /\ c - 1 \in 0 .. (n - 1) /\ (c - 1) + 1 = c
  OBVIOUS
<1>5. c - 1 \in out /\ c - 1 < c /\ c - 1 \in Nat /\ c \in Nat
  BY <1>4
<1>6. <<c - 1, c>> \in OpToRel(<, Nat)
  BY <1>5 DEF OpToRel
<1> QED
  BY <1>3, <1>5, <1>6, Zenon

(* There is a run of every text from every parser.                         *)
LEMMA RunExists ==
    ASSUME NEW p, NEW s, Len(s) \in Nat
    PROVE  \E f : IsRun(f, p, s)
<1> DEFINE Step(x, i) == consumeNext(x, s[i])
           Part(f, n) == f = [i \in 0 .. n |-> IF i = 0 THEN Continue(p) ELSE Step(f[i - 1], i)]
           T == {n \in 0 .. Len(s) : \E f : Part(f, n)}
<1> HIDE DEF Step
<1>1. 0 \in T
  <2>1. PICK f : f = [i \in 0 .. 0 |-> Continue(p)]
    BY Zenon
  <2>2. Part(f, 0)
    BY <2>1
  <2> QED
    BY <2>2
<1>2. ASSUME NEW n \in 0 .. (Len(s) - 1), n \in T PROVE n + 1 \in T
  <2>1. PICK f : Part(f, n)
    BY <1>2
  <2>2. PICK g : g = [i \in 0 .. (n + 1) |-> IF i <= n THEN f[i] ELSE Step(f[n], n + 1)]
    BY Zenon
  <2>3. \A i \in 0 .. (n + 1) : g[i] = IF i = 0 THEN Continue(p) ELSE Step(g[i - 1], i)
    BY <2>1, <2>2
  <2>4. Part(g, n + 1)
    BY <2>2, <2>3
  <2> QED
    BY <2>4
<1>3. Len(s) \in T
  <2>1. \A n \in 0 .. (Len(s) - 1) : n \in T => n + 1 \in T
    BY <1>2
  <2> HIDE DEF T
  <2>2. 0 .. Len(s) \subseteq T
    BY <1>1, <2>1, UpTo, Zenon
  <2> QED
    BY <2>2
<1> QED
  BY <1>3 DEF IsRun, Step

(* There is only one.                                                      *)
LEMMA RunUnique ==
    ASSUME NEW p, NEW s, Len(s) \in Nat, NEW f, NEW g, IsRun(f, p, s), IsRun(g, p, s)
    PROVE  f = g
<1> DEFINE T == {n \in 0 .. Len(s) : f[n] = g[n]}
<1>1. 0 \in T
  BY DEF IsRun
<1>2. ASSUME NEW n \in 0 .. (Len(s) - 1), n \in T PROVE n + 1 \in T
  <2>1. f[n + 1] = consumeNext(f[n], s[n + 1]) /\ g[n + 1] = consumeNext(g[n], s[n + 1])
    BY DEF IsRun
  <2> QED
    BY <1>2, <2>1
<1>3. 0 .. Len(s) \subseteq T
  BY <1>1, <1>2, UpTo, Zenon
<1> QED
  BY <1>3 DEF IsRun

(* The element parse chooses is the result of consuming the symbol.        *)
LEMMA OneStep ==
    ASSUME NEW x, NEW ch
    PROVE  (CHOOSE r \in {consumeNext(before, ch) : before \in {x}} : TRUE) = consumeNext(x, ch)
<1>1. \A r : r \in {consumeNext(before, ch) : before \in {x}} <=> r = consumeNext(x, ch)
  OBVIOUS
<1>2. \E r \in {consumeNext(before, ch) : before \in {x}} : TRUE
  BY <1>1
<1>3. (CHOOSE r \in {consumeNext(before, ch) : before \in {x}} : TRUE) \in {consumeNext(before, ch) : before \in {x}}
  BY <1>2
<1> QED
  BY <1>1, <1>3

(* parse returns the last result of its run.                               *)
LEMMA ParseRuns ==
    ASSUME NEW p, NEW s, Len(s) \in Nat, NEW f, IsRun(f, p, s)
    PROVE  parse(p, s) = f[Len(s)]
<1> DEFINE Body(a) == [i \in 0 .. Len(s) |->
               IF i = 0 THEN Continue(p)
               ELSE CHOOSE r \in {consumeNext(before, s[i]) : before \in {a[i - 1]}} : TRUE]
<1>1. ASSUME NEW a PROVE a = Body(a) <=> IsRun(a, p, s)
  BY OneStep DEF IsRun
<1>2. PICK a : a = CHOOSE x : x = Body(x)
  OBVIOUS
<1>3. \E x : x = Body(x)
  BY <1>1
<1>4. a = Body(a)
  BY <1>2, <1>3, Zenon
<1>5. a = f
  BY <1>1, <1>4, RunUnique, Zenon
<1>6. parse(p, s) = a[Len(s)]
  BY <1>2 DEF parse
<1> QED
  BY <1>5, <1>6

(* The text t stands in s after the first k symbols.                       *)
PartAt(s, t, k) == k + Len(t) <= Len(s) /\ \A i \in 1 .. Len(t) : t[i] = s[k + i]

(* The parse of a part of a text goes on where the part begins.            *)
LEMMA ParsePart ==
    ASSUME NEW p, NEW q, NEW s, NEW t, Len(s) \in Nat, Len(t) \in Nat, NEW f, IsRun(f, p, s),
           NEW k \in Nat, PartAt(s, t, k), f[k] = Continue(q)
    PROVE  parse(q, t) = f[k + Len(t)]
<1>1. PICK g : g = [i \in 0 .. Len(t) |-> f[k + i]]
  BY Zenon
<1>2. \A i \in 0 .. Len(t) : g[i] = IF i = 0 THEN Continue(q) ELSE consumeNext(g[i - 1], t[i])
  <2>1. g[0] = Continue(q)
    BY <1>1
  <2>2. ASSUME NEW i \in 1 .. Len(t) PROVE g[i] = consumeNext(g[i - 1], t[i])
    <3>1. k + i \in 1 .. Len(s) /\ (k + i) - 1 = k + (i - 1) /\ i - 1 \in 0 .. Len(t)
      BY DEF PartAt
    <3>2. f[k + i] = consumeNext(f[(k + i) - 1], s[k + i])
      BY <3>1, RunStep
    <3>3. g[i] = f[k + i] /\ g[i - 1] = f[k + (i - 1)] /\ t[i] = s[k + i]
      BY <1>1, <3>1 DEF PartAt
    <3> QED
      BY <3>1, <3>2, <3>3
  <2> QED
    BY <2>1, <2>2
<1>3. IsRun(g, q, t)
  BY <1>1, <1>2, Zenon DEF IsRun
<1>4. parse(q, t) = g[Len(t)] /\ g[Len(t)] = f[k + Len(t)]
  BY <1>1, <1>3, ParseRuns
<1> QED
  BY <1>4

(* From p, the text leads to the result and not before its end.            *)
Reaches(p, s, result) ==
    \E f : /\ IsRun(f, p, s)
           /\ \A i \in 0 .. (Len(s) - 1) : \E q : f[i] = Continue(q)
           /\ f[Len(s)] = result

(* A text read after another one.                                          *)
LEMMA ReachesConcat ==
    ASSUME NEW S, NEW s \in Seq(S), NEW t \in Seq(S), NEW p, NEW q, NEW result,
           Reaches(p, s, Continue(q)), Reaches(q, t, result)
    PROVE  Reaches(p, s \o t, result)
<1>1. /\ Len(s) \in Nat /\ Len(t) \in Nat /\ Len(s \o t) = Len(s) + Len(t)
      /\ \A i \in 1 .. Len(s) : (s \o t)[i] = s[i]
      /\ \A i \in 1 .. Len(t) : (s \o t)[Len(s) + i] = t[i]
  <2>1. Len(s) \in Nat /\ Len(t) \in Nat
    BY LenProperties
  <2> QED
    BY <2>1, ConcatProperties
<1>2. PICK f : /\ IsRun(f, p, s) /\ f[Len(s)] = Continue(q)
               /\ \A i \in 0 .. (Len(s) - 1) : \E x : f[i] = Continue(x)
  BY DEF Reaches
<1>3. PICK g : /\ IsRun(g, q, t) /\ g[Len(t)] = result
               /\ \A i \in 0 .. (Len(t) - 1) : \E x : g[i] = Continue(x)
  BY DEF Reaches
<1>4. PICK h : h = [i \in 0 .. (Len(s) + Len(t)) |-> IF i <= Len(s) THEN f[i] ELSE g[i - Len(s)]]
  BY Zenon
<1>5. /\ \A i \in 0 .. Len(s) : h[i] = f[i]
      /\ \A i \in 0 .. Len(t) : h[Len(s) + i] = g[i]
  <2>1. g[0] = Continue(q)
    BY <1>1, <1>3, RunSteps
  <2>2. \A i \in 1 .. Len(t) : h[Len(s) + i] = g[i]
    BY <1>1, <1>4
  <2> QED
    BY <1>1, <1>2, <1>4, <2>1, <2>2
<1>6. ASSUME NEW i \in 1 .. (Len(s) + Len(t)) PROVE h[i] = consumeNext(h[i - 1], (s \o t)[i])
  <2>1. CASE i <= Len(s)
    <3>1. i \in 1 .. Len(s) /\ i - 1 \in 0 .. Len(s) /\ i \in 0 .. Len(s)
      BY <1>1, <2>1
    <3>2. f[i] = consumeNext(f[i - 1], s[i])
      BY <1>1, <1>2, <3>1, RunStep
    <3> QED
      BY <1>1, <1>5, <3>1, <3>2
  <2>2. CASE i > Len(s)
    <3>1. PICK j \in 1 .. Len(t) : i = Len(s) + j
      <4>1. i - Len(s) \in 1 .. Len(t) /\ i = Len(s) + (i - Len(s))
        BY <1>1, <2>2
      <4> QED
        BY <4>1
    <3>2. j \in 0 .. Len(t) /\ j - 1 \in 0 .. Len(t) /\ i - 1 = Len(s) + (j - 1)
      BY <1>1, <3>1
    <3>3. g[j] = consumeNext(g[j - 1], t[j])
      BY <1>1, <1>3, <3>1, RunSteps
    <3> QED
      BY <1>1, <1>5, <3>1, <3>2, <3>3
  <2> QED
    BY <1>1, <2>1, <2>2
<1>7. h[0] = Continue(p)
  BY <1>1, <1>2, <1>5, RunSteps
<1>8. IsRun(h, p, s \o t)
  <2>1. h = [i \in 0 .. Len(s \o t) |-> h[i]]
    BY <1>1, <1>4
  <2> QED
    BY <1>1, <1>6, <1>7, <2>1, StepsRun
<1>9. ASSUME NEW i \in 0 .. (Len(s) + Len(t) - 1) PROVE \E x : h[i] = Continue(x)
  <2>1. CASE i <= Len(s)
    <3>1. i \in 0 .. (Len(s) - 1) \/ i = Len(s)
      BY <1>1, <2>1
    <3>2. h[i] = f[i]
      BY <1>1, <1>5, <2>1
    <3>3. \E x : f[i] = Continue(x)
      BY <1>2, <3>1, Zenon
    <3> QED
      BY <3>2, <3>3, Zenon
  <2>2. CASE i > Len(s)
    <3>1. PICK j \in 0 .. (Len(t) - 1) : i = Len(s) + j
      <4>1. i - Len(s) \in 0 .. (Len(t) - 1) /\ i = Len(s) + (i - Len(s))
        BY <1>1, <2>2
      <4> QED
        BY <4>1
    <3>2. h[i] = g[j]
      BY <1>1, <1>5, <3>1
    <3> QED
      BY <1>3, <3>2
  <2> QED
    BY <1>1, <2>1, <2>2
<1>10. h[Len(s) + Len(t)] = result
  BY <1>1, <1>3, <1>5
<1> QED
  BY <1>1, <1>8, <1>9, <1>10 DEF Reaches

(* Without text the parser is where it was.                                *)
LEMMA ReachesNothing ==
    ASSUME NEW p PROVE Reaches(p, <<>>, Continue(p))
<1>1. PICK f : IsRun(f, p, <<>>)
  BY RunExists
<1>2. f[0] = Continue(p)
  BY <1>1 DEF IsRun
<1> QED
  BY <1>1, <1>2 DEF Reaches

-----------------------------------------------------------------------------
(* What the parser does with the symbols of a request.                     *)

(* A parser in a state, with what it has found out.                        *)
At(state, header, compression, uri, connection) ==
    [state |-> state, header |-> header, compression |-> compression, uri |-> uri,
     connection |-> connection]

(* What a request is made of.                                              *)
Symbols == {"GET", "SP", "H", "T", "P", "SLASH", "DIGIT", "DOT", "CR", "LF", "TAB", "COLON", "COMMA",
            "Accept-Encoding", "gzip", "deflate", "Connection", "close"} \cup Uris

Plain == "no_compression"

(* Going to a state keeps what the parser has found out.                   *)
LEMMA GoesTo ==
    ASSUME NEW s, NEW h, NEW c, NEW u, NEW n, NEW t
    PROVE  GoTo(At(s, h, c, u, n), t) = Continue(At(t, h, c, u, n))
BY DEF GoTo, At

(* The parser accepts a symbol and goes to the state named.                *)
LEMMA Accepts ==
    ASSUME NEW h, NEW c, NEW u, NEW n
    PROVE  /\ consume(At("method_start", h, c, u, n), "GET") = Continue(At("method", h, c, u, n))
           /\ consume(At("method", h, c, u, n), "SP") = Continue(At("uri", h, c, u, n))
           /\ consume(At("uri", h, c, u, n), "SP") = Continue(At("http_version_h", h, c, u, n))
           /\ consume(At("uri", h, c, u, n), "TAB") = Reject(At("uri", h, c, u, n))
           /\ consume(At("http_version_major", h, c, u, n), "DOT")
                = Continue(At("http_version_minor_start", h, c, u, n))
           /\ consume(At("http_version_minor", h, c, u, n), "CR")
                = Continue(At("expecting_newline_1", h, c, u, n))
           /\ consume(At("header_name", h, c, u, n), "COLON")
                = Continue(At("header_value", h, c, u, n))
           /\ consume(At("header_value", h, c, u, n), "SP")
                = Continue(At("header_value", h, c, u, n))
           /\ consume(At("header_value", h, c, u, n), "CR")
                = Continue(At("expecting_newline_2", h, c, u, n))
           /\ consume(At("expecting_newline_3", h, c, u, n), "LF")
                = [parser |-> At("expecting_newline_3", h, c, u, n), status |-> "valid"]
<1>1. DOMAIN Expected = {"http_version_h", "http_version_t_1", "http_version_t_2", "http_version_p",
         "http_version_slash", "http_version_major_start", "http_version_minor_start",
         "expecting_newline_1", "expecting_newline_2"}
  BY DEF Expected
<1>3. consume(At("method_start", h, c, u, n), "GET") = Continue(At("method", h, c, u, n))
  BY <1>1 DEF consume, At, GoTo, NotToken, is_char, is_CTL, is_special
<1>4. consume(At("method", h, c, u, n), "SP") = Continue(At("uri", h, c, u, n))
  BY <1>1 DEF consume, At, GoTo
<1>5. consume(At("uri", h, c, u, n), "SP") = Continue(At("http_version_h", h, c, u, n))
  BY <1>1 DEF consume, At, GoTo
<1>6. consume(At("uri", h, c, u, n), "TAB") = Reject(At("uri", h, c, u, n))
  BY <1>1 DEF consume, At, is_CTL
<1>7. consume(At("http_version_major", h, c, u, n), "DOT")
        = Continue(At("http_version_minor_start", h, c, u, n))
  BY <1>1 DEF consume, consumeVersion, At, GoTo
<1>8. consume(At("http_version_minor", h, c, u, n), "CR")
        = Continue(At("expecting_newline_1", h, c, u, n))
  BY <1>1 DEF consume, consumeVersion, At, GoTo
<1>9. consume(At("header_name", h, c, u, n), "COLON") = Continue(At("header_value", h, c, u, n))
  BY <1>1 DEF consume, consumeHeaderName, At, GoTo
<1>10. consume(At("header_value", h, c, u, n), "SP") = Continue(At("header_value", h, c, u, n))
  BY <1>1 DEF consume, consumeHeaderValue, At
<1>11. consume(At("header_value", h, c, u, n), "CR") = Continue(At("expecting_newline_2", h, c, u, n))
  BY <1>1 DEF consume, consumeHeaderValue, At, GoTo
<1>12. consume(At("expecting_newline_3", h, c, u, n), "LF")
         = [parser |-> At("expecting_newline_3", h, c, u, n), status |-> "valid"]
  BY <1>1 DEF consume, At
<1> QED
  BY <1>3, <1>4, <1>5, <1>6, <1>7, <1>8, <1>9, <1>10, <1>11, <1>12

(* In a state that expects one character that character is accepted.       *)
LEMMA AcceptsNext ==
    ASSUME NEW s \in DOMAIN Expected, NEW h, NEW c, NEW u, NEW n, NEW ch, NEW t, Expected[s] = <<ch, t>>
    PROVE  consume(At(s, h, c, u, n), ch) = Continue(At(t, h, c, u, n))
<1>1. DOMAIN Expected = {"http_version_h", "http_version_t_1", "http_version_t_2", "http_version_p",
         "http_version_slash", "http_version_major_start", "http_version_minor_start",
         "expecting_newline_1", "expecting_newline_2"}
  BY DEF Expected
<1>2. PICK p : p = At(s, h, c, u, n)
  OBVIOUS
<1>3. p.state = s
  BY <1>2 DEF At
<1>4. Expected[s][1] = ch /\ Expected[s][2] = t
  OBVIOUS
<1>5. consume(p, ch) = GoTo(p, t)
  BY <1>1, <1>3, <1>4 DEF consume
<1> QED
  BY <1>2, <1>5, GoesTo

(* The same for each of these states by name.                              *)
LEMMA AcceptsExpected ==
    ASSUME NEW h, NEW c, NEW u, NEW n
    PROVE  /\ consume(At("http_version_h", h, c, u, n), "H") = Continue(At("http_version_t_1", h, c, u, n))
           /\ consume(At("http_version_t_1", h, c, u, n), "T") = Continue(At("http_version_t_2", h, c, u, n))
           /\ consume(At("http_version_t_2", h, c, u, n), "T") = Continue(At("http_version_p", h, c, u, n))
           /\ consume(At("http_version_p", h, c, u, n), "P") = Continue(At("http_version_slash", h, c, u, n))
           /\ consume(At("http_version_slash", h, c, u, n), "SLASH") = Continue(At("http_version_major_start", h, c, u, n))
           /\ consume(At("http_version_major_start", h, c, u, n), "DIGIT") = Continue(At("http_version_major", h, c, u, n))
           /\ consume(At("http_version_minor_start", h, c, u, n), "DIGIT") = Continue(At("http_version_minor", h, c, u, n))
           /\ consume(At("expecting_newline_1", h, c, u, n), "LF") = Continue(At("header_line_start", h, c, u, n))
           /\ consume(At("expecting_newline_2", h, c, u, n), "LF") = Continue(At("header_line_start", h, c, u, n))
<1>2. "http_version_h" \in DOMAIN Expected /\ Expected["http_version_h"] = <<"H", "http_version_t_1">>
  BY DEF Expected
<1>3. "http_version_t_1" \in DOMAIN Expected /\ Expected["http_version_t_1"] = <<"T", "http_version_t_2">>
  BY DEF Expected
<1>4. "http_version_t_2" \in DOMAIN Expected /\ Expected["http_version_t_2"] = <<"T", "http_version_p">>
  BY DEF Expected
<1>5. "http_version_p" \in DOMAIN Expected /\ Expected["http_version_p"] = <<"P", "http_version_slash">>
  BY DEF Expected
<1>6. "http_version_slash" \in DOMAIN Expected /\ Expected["http_version_slash"] = <<"SLASH", "http_version_major_start">>
  BY DEF Expected
<1>7. "http_version_major_start" \in DOMAIN Expected /\ Expected["http_version_major_start"] = <<"DIGIT", "http_version_major">>
  BY DEF Expected
<1>8. "http_version_minor_start" \in DOMAIN Expected /\ Expected["http_version_minor_start"] = <<"DIGIT", "http_version_minor">>
  BY DEF Expected
<1>9. "expecting_newline_1" \in DOMAIN Expected /\ Expected["expecting_newline_1"] = <<"LF", "header_line_start">>
  BY DEF Expected
<1>10. "expecting_newline_2" \in DOMAIN Expected /\ Expected["expecting_newline_2"] = <<"LF", "header_line_start">>
  BY DEF Expected
<1> QED
  BY <1>2, <1>3, <1>4, <1>5, <1>6, <1>7, <1>8, <1>9, <1>10, AcceptsNext

Delimiters == {"SP", "CR", "LF", "TAB"}

(* A word of the URI is kept.                                              *)
LEMMA AcceptsUri ==
    ASSUME NEW h, NEW c, NEW u, NEW n, NEW ch, ch \notin Delimiters
    PROVE  consume(At("uri", h, c, u, n), ch) = Continue(At("uri", h, c, Append(u, ch), n))
<1>1. DOMAIN Expected = {"http_version_h", "http_version_t_1", "http_version_t_2", "http_version_p",
         "http_version_slash", "http_version_major_start", "http_version_minor_start",
         "expecting_newline_1", "expecting_newline_2"}
  BY DEF Expected
<1> QED
  BY <1>1, SMTT(30) DEF consume, At, is_CTL, Delimiters

(* A word of a header value is kept.                                       *)
LEMMA AcceptsValue ==
    ASSUME NEW name, NEW value, NEW c, NEW u, NEW n, NEW ch, ch \notin Delimiters
    PROVE  consume(At("header_value", [name |-> name, value |-> value], c, u, n), ch)
           = Continue(At("header_value", [name |-> name, value |-> Append(value, ch)], c, u, n))
<1>1. DOMAIN Expected = {"http_version_h", "http_version_t_1", "http_version_t_2", "http_version_p",
         "http_version_slash", "http_version_major_start", "http_version_minor_start",
         "expecting_newline_1", "expecting_newline_2"}
  BY DEF Expected
<1>2. PICK p : p = At("header_value", [name |-> name, value |-> value], c, u, n)
  OBVIOUS
<1>3. consume(p, ch) = consumeHeaderValue(p, ch)
  BY <1>1, <1>2 DEF consume, At
<1>4. consumeHeaderValue(p, ch) = Continue([p EXCEPT !.header.value = Append(@, ch)])
  BY <1>2 DEF consumeHeaderValue, is_CTL, Delimiters
<1>5. [p EXCEPT !.header.value = Append(@, ch)]
        = At("header_value", [name |-> name, value |-> Append(value, ch)], c, u, n)
  <2>1. PICK h : h = [name |-> name, value |-> value]
    BY Zenon
  <2>2. PICK more : more = Append(value, ch)
    BY Zenon
  <2>3. p = At("header_value", h, c, u, n) /\ p.header = h /\ h.value = value
    BY <1>2, <2>1 DEF At
  <2>4. [h EXCEPT !.value = more] = [name |-> name, value |-> more]
    BY <2>1
  <2>5. [p EXCEPT !.header = [name |-> name, value |-> more]]
          = At("header_value", [name |-> name, value |-> more], c, u, n)
    BY <2>3 DEF At
  <2> QED
    BY <2>2, <2>3, <2>4, <2>5, Zenon
<1> QED
  BY <1>2, <1>3, <1>4, <1>5

(* What a header contributes is noted when the next line begins.           *)
LEMMA LineBegins ==
    ASSUME NEW h, NEW c, NEW u, NEW n, NEW c2, NEW n2,
           FinishHeader(At("header_line_start", h, c, u, n)) = At("header_line_start", h, c2, u, n2)
    PROVE  /\ consume(At("header_line_start", h, c, u, n), "CR")
                = Continue(At("expecting_newline_3", h, c2, u, n2))
           /\ \A ch \in {"Accept-Encoding", "Connection"} :
                consume(At("header_line_start", h, c, u, n), ch)
                = Continue(At("header_name", [name |-> <<ch>>, value |-> <<>>], c2, u, n2))
<1>1. DOMAIN Expected = {"http_version_h", "http_version_t_1", "http_version_t_2", "http_version_p",
         "http_version_slash", "http_version_major_start", "http_version_minor_start",
         "expecting_newline_1", "expecting_newline_2"}
  BY DEF Expected
<1>2. PICK p : p = At("header_line_start", h, c, u, n)
  OBVIOUS
<1>3. PICK q : q = At("header_line_start", h, c2, u, n2)
  OBVIOUS
<1>4. \A ch : consume(p, ch) = consumeHeaderLineStart(p, ch)
  BY <1>1, <1>2 DEF consume, At
<1>5. consumeHeaderLineStart(p, "CR") = GoTo(q, "expecting_newline_3")
  BY <1>2, <1>3 DEF consumeHeaderLineStart
<1>6. GoTo(q, "expecting_newline_3") = Continue(At("expecting_newline_3", h, c2, u, n2))
  BY <1>3 DEF GoTo, At
<1>7. ASSUME NEW ch \in {"Accept-Encoding", "Connection"}
      PROVE  consumeHeaderLineStart(p, ch)
             = Continue(At("header_name", [name |-> <<ch>>, value |-> <<>>], c2, u, n2))
  <2>1. ch # "CR" /\ ~NotToken(ch)
    BY DEF NotToken, is_char, is_CTL, is_special
  <2>2. consumeHeaderLineStart(p, ch)
          = GoTo([q EXCEPT !.header = [name |-> <<ch>>, value |-> <<>>]], "header_name")
    BY <1>2, <1>3, <2>1 DEF consumeHeaderLineStart
  <2>3. [q EXCEPT !.header = [name |-> <<ch>>, value |-> <<>>]]
          = At("header_line_start", [name |-> <<ch>>, value |-> <<>>], c2, u, n2)
    BY <1>3 DEF At
  <2> QED
    BY <2>2, <2>3, GoesTo
<1> QED
  BY <1>2, <1>4, <1>5, <1>6, <1>7

(* A run that has gone on so far takes the next symbol.                    *)
LEMMA RunGoesOn ==
    ASSUME NEW p, NEW s, Len(s) \in Nat, NEW f, IsRun(f, p, s),
           NEW i \in 1 .. Len(s), NEW q, f[i - 1] = Continue(q)
    PROVE  f[i] = consume(q, s[i])
<1>1. f[i] = consumeNext(f[i - 1], s[i])
  BY RunStep
<1> QED
  BY <1>1 DEF consumeNext, Continue

(* The first line of a request.                                            *)
RequestLine(u) ==
    <<"GET", "SP", u, "SP", "H", "T", "T", "P", "SLASH", "DIGIT", "DOT", "DIGIT", "CR", "LF">>

(* The first line of a request leaves its URI and nothing else behind.     *)
LEMMA RequestLineRead ==
    ASSUME NEW u, u \notin Delimiters
    PROVE  Reaches(NewParser, RequestLine(u),
                   Continue(At("header_line_start", NoHeader, Plain, <<u>>, <<>>)))
<1>1. PICK s : s = RequestLine(u)
  OBVIOUS
<1>2. Len(s) \in Nat
  BY <1>1 DEF RequestLine
<1>3. PICK f : IsRun(f, NewParser, s)
  BY <1>2, RunExists
<1> DEFINE P(state) == At(state, NoHeader, Plain, <<u>>, <<>>)
           Q(state) == At(state, NoHeader, Plain, <<>>, <<>>)
<1>4. ASSUME NEW i \in 1 .. Len(s), NEW p, f[i - 1] = Continue(p)
      PROVE  f[i] = consume(p, s[i])
  BY <1>2, <1>3, <1>4, RunGoesOn
<1>5. f[0] = Continue(Q("method_start"))
  BY <1>2, <1>3, RunSteps DEF NewParser, At, Plain
<1>L. /\ Len(s) = 14
      /\ s[1] = "GET"
      /\ s[2] = "SP"
      /\ s[3] = u
      /\ s[4] = "SP"
      /\ s[5] = "H"
      /\ s[6] = "T"
      /\ s[7] = "T"
      /\ s[8] = "P"
      /\ s[9] = "SLASH"
      /\ s[10] = "DIGIT"
      /\ s[11] = "DOT"
      /\ s[12] = "DIGIT"
      /\ s[13] = "CR"
      /\ s[14] = "LF"
  BY <1>1 DEF RequestLine
<1>6. f[1] = Continue(Q("method"))
  <2>1. f[1] = consume(Q("method_start"), "GET")
    BY <1>L, <1>4, <1>5
  <2> QED
    BY <2>1, Accepts
<1>7. f[2] = Continue(Q("uri"))
  <2>1. f[2] = consume(Q("method"), "SP")
    BY <1>L, <1>4, <1>6
  <2> QED
    BY <2>1, Accepts
<1>8. f[3] = Continue(P("uri"))
  <2>1. f[3] = consume(Q("uri"), u)
    BY <1>L, <1>4, <1>7
  <2>2. PICK e : e = <<>>
    OBVIOUS
  <2>3. consume(At("uri", NoHeader, Plain, e, e), u) = Continue(At("uri", NoHeader, Plain, Append(e, u), e))
    BY AcceptsUri
  <2>4. Append(e, u) = <<u>>
    BY <2>2
  <2> QED
    BY <2>1, <2>2, <2>3, <2>4
<1>9. f[4] = Continue(P("http_version_h"))
  <2>1. f[4] = consume(P("uri"), "SP")
    BY <1>L, <1>4, <1>8
  <2> QED
    BY <2>1, Accepts
<1>10. f[5] = Continue(P("http_version_t_1"))
  <2>1. f[5] = consume(P("http_version_h"), "H")
    BY <1>L, <1>4, <1>9
  <2> QED
    BY <2>1, AcceptsExpected
<1>11. f[6] = Continue(P("http_version_t_2"))
  <2>1. f[6] = consume(P("http_version_t_1"), "T")
    BY <1>L, <1>4, <1>10
  <2> QED
    BY <2>1, AcceptsExpected
<1>12. f[7] = Continue(P("http_version_p"))
  <2>1. f[7] = consume(P("http_version_t_2"), "T")
    BY <1>L, <1>4, <1>11
  <2> QED
    BY <2>1, AcceptsExpected
<1>13. f[8] = Continue(P("http_version_slash"))
  <2>1. f[8] = consume(P("http_version_p"), "P")
    BY <1>L, <1>4, <1>12
  <2> QED
    BY <2>1, AcceptsExpected
<1>14. f[9] = Continue(P("http_version_major_start"))
  <2>1. f[9] = consume(P("http_version_slash"), "SLASH")
    BY <1>L, <1>4, <1>13
  <2> QED
    BY <2>1, AcceptsExpected
<1>15. f[10] = Continue(P("http_version_major"))
  <2>1. f[10] = consume(P("http_version_major_start"), "DIGIT")
    BY <1>L, <1>4, <1>14
  <2> QED
    BY <2>1, AcceptsExpected
<1>16. f[11] = Continue(P("http_version_minor_start"))
  <2>1. f[11] = consume(P("http_version_major"), "DOT")
    BY <1>L, <1>4, <1>15
  <2> QED
    BY <2>1, Accepts
<1>17. f[12] = Continue(P("http_version_minor"))
  <2>1. f[12] = consume(P("http_version_minor_start"), "DIGIT")
    BY <1>L, <1>4, <1>16
  <2> QED
    BY <2>1, AcceptsExpected
<1>18. f[13] = Continue(P("expecting_newline_1"))
  <2>1. f[13] = consume(P("http_version_minor"), "CR")
    BY <1>L, <1>4, <1>17
  <2> QED
    BY <2>1, Accepts
<1>19. f[14] = Continue(P("header_line_start"))
  <2>1. f[14] = consume(P("expecting_newline_1"), "LF")
    BY <1>L, <1>4, <1>18
  <2> QED
    BY <2>1, AcceptsExpected
<1> QED
  BY <1>1, <1>3, <1>L, <1>5, <1>6, <1>7, <1>8, <1>9, <1>10, <1>11, <1>12, <1>13, <1>14, <1>15, <1>16, <1>17, <1>18, <1>19 DEF Reaches

(* How to recognise a concatenation.                                       *)
LEMMA Concat ==
    ASSUME NEW S, NEW s \in Seq(S), NEW t \in Seq(S), NEW w \in Seq(S), Len(w) = Len(s) + Len(t),
           \A i \in 1 .. Len(s) : w[i] = s[i], \A i \in 1 .. Len(t) : w[Len(s) + i] = t[i]
    PROVE  s \o t = w
<1>1. /\ s \o t \in Seq(S) /\ Len(s \o t) = Len(s) + Len(t) /\ Len(s) \in Nat /\ Len(t) \in Nat
      /\ \A i \in 1 .. Len(s) : (s \o t)[i] = s[i]
      /\ \A i \in 1 .. Len(t) : (s \o t)[Len(s) + i] = t[i]
  <2>1. Len(s) \in Nat /\ Len(t) \in Nat
    BY LenProperties
  <2> QED
    BY <2>1, ConcatProperties
<1>2. ASSUME NEW i \in 1 .. Len(w) PROVE (s \o t)[i] = w[i]
  <2>1. CASE i <= Len(s)
    BY <1>1, <2>1
  <2>2. CASE i > Len(s)
    <3>1. i - Len(s) \in 1 .. Len(t) /\ i = Len(s) + (i - Len(s))
      BY <1>1, <2>2
    <3> QED
      BY <1>1, <3>1
  <2> QED
    BY <1>1, <2>1, <2>2
<1> QED
  BY <1>1, <1>2, SeqEqual

(* Texts of one, two, three and four symbols.                              *)
LEMMA ReachesOne ==
    ASSUME NEW p, NEW a, NEW result, consume(p, a) = result
    PROVE  Reaches(p, <<a>>, result)
<1>1. PICK s : s = <<a>>
  BY Zenon
<1>2. Len(s) \in Nat
  BY <1>1
<1>3. PICK f : IsRun(f, p, s)
  BY <1>2, RunExists
<1>4. f[0] = Continue(p)
  BY <1>2, <1>3, RunSteps
<1>5. ASSUME NEW i \in 1 .. Len(s), NEW x, f[i - 1] = Continue(x) PROVE f[i] = consume(x, s[i])
  BY <1>2, <1>3, <1>5, RunGoesOn
<1>6. Len(s) = 1 /\ s[1] = a
  BY <1>1
<1>7. f[1] = result
  BY <1>4, <1>5, <1>6
<1> QED
  BY <1>1, <1>3, <1>4, <1>6, <1>7 DEF Reaches

(* Two symbols.                                                            *)
LEMMA ReachesTwo ==
    ASSUME NEW p, NEW q, NEW a, NEW b, NEW result,
           consume(p, a) = Continue(q), consume(q, b) = result
    PROVE  Reaches(p, <<a, b>>, result)
<1>1. PICK S : S = {a, b}
  BY Zenon
<1>2. PICK s : s = <<a>>
  BY Zenon
<1>3. PICK t : t = <<b>>
  BY Zenon
<1>4. s \in Seq(S) /\ t \in Seq(S) /\ s \o t = <<a, b>>
  <2>1. PICK w : w = <<a, b>>
    BY Zenon
  <2>2. s \in Seq(S) /\ t \in Seq(S) /\ w \in Seq(S)
    BY <1>1, <1>2, <1>3, <2>1
  <2>3. /\ Len(w) = Len(s) + Len(t)
        /\ \A i \in 1 .. Len(s) : w[i] = s[i]
        /\ \A i \in 1 .. Len(t) : w[Len(s) + i] = t[i]
    <3>1. Len(w) = 2 /\ Len(s) = 1 /\ Len(t) = 1 /\ w[1] = a /\ w[2] = b /\ s[1] = a /\ t[1] = b
      BY <1>2, <1>3, <2>1
    <3>2. \A i \in 1 .. 1 : i = 1
      OBVIOUS
    <3> QED
      BY <3>1, <3>2
  <2>4. s \o t = w
    BY <2>2, <2>3, Concat, Zenon
  <2> QED
    BY <2>1, <2>2, <2>4
<1>5. Reaches(p, s, Continue(q)) /\ Reaches(q, t, result)
  BY <1>2, <1>3, ReachesOne
<1>6. Reaches(p, s \o t, result)
  BY <1>4, <1>5, ReachesConcat, Zenon
<1> QED
  BY <1>4, <1>6

(* Three symbols.                                                          *)
LEMMA ReachesThree ==
    ASSUME NEW p, NEW q, NEW x, NEW a, NEW b, NEW d, NEW result,
           consume(p, a) = Continue(q), consume(q, b) = Continue(x), consume(x, d) = result
    PROVE  Reaches(p, <<a, b, d>>, result)
<1>1. PICK S : S = {a, b, d}
  BY Zenon
<1>2. PICK s : s = <<a, b>>
  BY Zenon
<1>3. PICK t : t = <<d>>
  BY Zenon
<1>4. s \in Seq(S) /\ t \in Seq(S) /\ s \o t = <<a, b, d>>
  <2>1. PICK w : w = <<a, b, d>>
    BY Zenon
  <2>2. s \in Seq(S) /\ t \in Seq(S) /\ w \in Seq(S)
    BY <1>1, <1>2, <1>3, <2>1
  <2>3. /\ Len(w) = Len(s) + Len(t)
        /\ \A i \in 1 .. Len(s) : w[i] = s[i]
        /\ \A i \in 1 .. Len(t) : w[Len(s) + i] = t[i]
    BY <1>2, <1>3, <2>1
  <2>4. s \o t = w
    BY <2>2, <2>3, Concat
  <2> QED
    BY <2>1, <2>2, <2>4
<1>5. Reaches(p, s, Continue(x)) /\ Reaches(x, t, result)
  BY <1>2, <1>3, ReachesOne, ReachesTwo
<1>6. Reaches(p, s \o t, result)
  BY <1>4, <1>5, ReachesConcat, Zenon
<1> QED
  BY <1>4, <1>6

(* Four symbols.                                                           *)
LEMMA ReachesFour ==
    ASSUME NEW p, NEW q, NEW x, NEW y, NEW a, NEW b, NEW d, NEW e, NEW result,
           consume(p, a) = Continue(q), consume(q, b) = Continue(x), consume(x, d) = Continue(y),
           consume(y, e) = result
    PROVE  Reaches(p, <<a, b, d, e>>, result)
<1>1. PICK S : S = {a, b, d, e}
  BY Zenon
<1>2. PICK s : s = <<a, b>>
  BY Zenon
<1>3. PICK t : t = <<d, e>>
  BY Zenon
<1>4. s \in Seq(S) /\ t \in Seq(S) /\ s \o t = <<a, b, d, e>>
  <2>1. PICK w : w = <<a, b, d, e>>
    BY Zenon
  <2>2. s \in Seq(S) /\ t \in Seq(S) /\ w \in Seq(S)
    BY <1>1, <1>2, <1>3, <2>1
  <2>3. /\ Len(w) = Len(s) + Len(t)
        /\ \A i \in 1 .. Len(s) : w[i] = s[i]
        /\ \A i \in 1 .. Len(t) : w[Len(s) + i] = t[i]
    BY <1>2, <1>3, <2>1
  <2>4. s \o t = w
    BY <2>2, <2>3, Concat, Zenon
  <2> QED
    BY <2>1, <2>2, <2>4
<1>5. Reaches(p, s, Continue(x)) /\ Reaches(x, t, result)
  BY <1>2, <1>3, ReachesTwo
<1>6. Reaches(p, s \o t, result)
  BY <1>4, <1>5, ReachesConcat, Zenon
<1> QED
  BY <1>4, <1>6

(* A request with a control character after its URI is refused.            *)
LEMMA MalformedRead ==
    ASSUME NEW u, u \notin Delimiters
    PROVE  Reaches(NewParser, <<"GET", "SP", u, "TAB">>,
                   Reject(At("uri", NoHeader, Plain, <<u>>, <<>>)))
<1>1. PICK e : e = <<>>
  OBVIOUS
<1>2. PICK l : l = Append(e, u)
  BY Zenon
<1>3. NewParser = At("method_start", NoHeader, Plain, e, e)
  BY <1>1 DEF NewParser, At, Plain
<1>4. /\ consume(At("method_start", NoHeader, Plain, e, e), "GET") = Continue(At("method", NoHeader, Plain, e, e))
      /\ consume(At("method", NoHeader, Plain, e, e), "SP") = Continue(At("uri", NoHeader, Plain, e, e))
      /\ consume(At("uri", NoHeader, Plain, l, e), "TAB") = Reject(At("uri", NoHeader, Plain, l, e))
  BY Accepts
<1>5. consume(At("uri", NoHeader, Plain, e, e), u) = Continue(At("uri", NoHeader, Plain, l, e))
  BY <1>2, AcceptsUri
<1>6. Reaches(NewParser, <<"GET", "SP", u, "TAB">>, Reject(At("uri", NoHeader, Plain, l, e)))
  BY <1>3, <1>4, <1>5, ReachesFour
<1>7. l = <<u>>
  BY <1>1, <1>2
<1> QED
  BY <1>1, <1>6, <1>7

(* The name of a header line, when the line before it has been noted.      *)
LEMMA LineOpens ==
    ASSUME NEW h, NEW c, NEW u, NEW n, NEW c2, NEW n2, NEW name \in {"Accept-Encoding", "Connection"},
           FinishHeader(At("header_line_start", h, c, u, n)) = At("header_line_start", h, c2, u, n2)
    PROVE  Reaches(At("header_line_start", h, c, u, n), <<name, "COLON", "SP">>,
                   Continue(At("header_value", [name |-> <<name>>, value |-> <<>>], c2, u, n2)))
<1>1. PICK k : k = [name |-> <<name>>, value |-> <<>>]
  BY Zenon
<1>2. consume(At("header_line_start", h, c, u, n), name) = Continue(At("header_name", k, c2, u, n2))
  BY <1>1, LineBegins
<1>3. /\ consume(At("header_name", k, c2, u, n2), "COLON") = Continue(At("header_value", k, c2, u, n2))
      /\ consume(At("header_value", k, c2, u, n2), "SP") = Continue(At("header_value", k, c2, u, n2))
  BY Accepts
<1>4. Reaches(At("header_line_start", h, c, u, n), <<name, "COLON", "SP">>,
              Continue(At("header_value", k, c2, u, n2)))
  BY <1>2, <1>3, ReachesThree
<1> QED
  BY <1>1, <1>4

(* The end of a header line.                                               *)
LEMMA LineCloses ==
    ASSUME NEW h, NEW c, NEW u, NEW n
    PROVE  Reaches(At("header_value", h, c, u, n), <<"CR", "LF">>,
                   Continue(At("header_line_start", h, c, u, n)))
<1>1. /\ consume(At("header_value", h, c, u, n), "CR") = Continue(At("expecting_newline_2", h, c, u, n))
      /\ consume(At("expecting_newline_2", h, c, u, n), "LF") = Continue(At("header_line_start", h, c, u, n))
  BY Accepts, AcceptsExpected
<1> QED
  BY <1>1, ReachesTwo

(* A whole header line: the next line begins with its header still to be   *)
(* noted.                                                                  *)
LEMMA LineRead ==
    ASSUME NEW h, NEW c, NEW u, NEW n, NEW c2, NEW n2, NEW name \in {"Accept-Encoding", "Connection"},
           FinishHeader(At("header_line_start", h, c, u, n)) = At("header_line_start", h, c2, u, n2),
           NEW S, {name, "COLON", "SP", "CR", "LF"} \subseteq S, NEW value \in Seq(S), NEW stored,
           Reaches(At("header_value", [name |-> <<name>>, value |-> <<>>], c2, u, n2), value,
                   Continue(At("header_value", [name |-> <<name>>, value |-> stored], c2, u, n2)))
    PROVE  /\ Reaches(At("header_line_start", h, c, u, n), HeaderLine(name, value),
                      Continue(At("header_line_start", [name |-> <<name>>, value |-> stored], c2, u, n2)))
           /\ HeaderLine(name, value) \in Seq(S)
<1>1. PICK k : k = [name |-> <<name>>, value |-> <<>>]
  BY Zenon
<1>2. PICK l : l = [name |-> <<name>>, value |-> stored]
  OBVIOUS
<1>3. PICK s : s = <<name, "COLON", "SP">>
  BY Zenon
<1>4. PICK t : t = <<"CR", "LF">>
  BY Zenon
<1>5. s \in Seq(S) /\ t \in Seq(S)
  BY <1>3, <1>4
<1>6. Reaches(At("header_line_start", h, c, u, n), s, Continue(At("header_value", k, c2, u, n2)))
  BY <1>1, <1>3, LineOpens, Zenon
<1>7. Reaches(At("header_value", k, c2, u, n2), value, Continue(At("header_value", l, c2, u, n2)))
  BY <1>1, <1>2
<1>8. Reaches(At("header_value", l, c2, u, n2), t, Continue(At("header_line_start", l, c2, u, n2)))
  BY <1>4, LineCloses
<1>9. s \o value \in Seq(S) /\ (s \o value) \o t \in Seq(S)
  BY <1>5, ConcatProperties
<1>10. Reaches(At("header_line_start", h, c, u, n), s \o value, Continue(At("header_value", l, c2, u, n2)))
  BY <1>5, <1>6, <1>7, ReachesConcat
<1>11. Reaches(At("header_line_start", h, c, u, n), (s \o value) \o t,
               Continue(At("header_line_start", l, c2, u, n2)))
  BY <1>5, <1>8, <1>9, <1>10, ReachesConcat, Zenon
<1>12. HeaderLine(name, value) = (s \o value) \o t
  BY <1>3, <1>4 DEF HeaderLine
<1> QED
  BY <1>2, <1>9, <1>11, <1>12, Zenon

(* A value of one word.                                                    *)
LEMMA WordRead ==
    ASSUME NEW name, NEW c, NEW u, NEW n, NEW v, v \notin Delimiters
    PROVE  Reaches(At("header_value", [name |-> name, value |-> <<>>], c, u, n), <<v>>,
                   Continue(At("header_value", [name |-> name, value |-> <<v>>], c, u, n)))
<1>1. PICK e : e = <<>>
  OBVIOUS
<1>2. PICK l : l = Append(e, v)
  BY Zenon
<1>3. consume(At("header_value", [name |-> name, value |-> e], c, u, n), v)
        = Continue(At("header_value", [name |-> name, value |-> l], c, u, n))
  BY <1>2, AcceptsValue
<1>4. l = <<v>>
  BY <1>1, <1>2
<1>5. Reaches(At("header_value", [name |-> name, value |-> e], c, u, n), <<v>>,
              Continue(At("header_value", [name |-> name, value |-> l], c, u, n)))
  BY <1>3, ReachesOne
<1> QED
  BY <1>1, <1>4, <1>5

(* How to recognise an appended sequence.                                  *)
LEMMA Appended ==
    ASSUME NEW S, NEW s \in Seq(S), NEW w \in Seq(S), NEW e \in S, Len(w) = Len(s) + 1,
           \A i \in 1 .. Len(s) : w[i] = s[i], w[Len(s) + 1] = e
    PROVE  Append(s, e) = w
<1>1. Append(s, e) \in Seq(S) /\ Len(Append(s, e)) = Len(s) + 1 /\ Len(s) \in Nat
  BY AppendProperties, LenProperties
<1>2. ASSUME NEW i \in 1 .. Len(w) PROVE Append(s, e)[i] = w[i]
  BY <1>1, AppendProperties
<1> QED
  BY <1>1, <1>2, SeqEqual

(* A list of two words; the space in it is dropped.                        *)
LEMMA ListRead ==
    ASSUME NEW name, NEW c, NEW u, NEW n
    PROVE  Reaches(At("header_value", [name |-> name, value |-> <<>>], c, u, n),
                   <<"gzip", "COMMA", "SP", "deflate">>,
                   Continue(At("header_value", [name |-> name, value |-> <<"gzip", "COMMA", "deflate">>],
                               c, u, n)))
<1>1. PICK e : e = <<>>
  OBVIOUS
<1>2. PICK l : l = Append(e, "gzip")
  BY Zenon
<1>3. PICK m : m = Append(l, "COMMA")
  BY Zenon
<1>4. PICK o : o = Append(m, "deflate")
  BY Zenon
<1> DEFINE V(value) == At("header_value", [name |-> name, value |-> value], c, u, n)
<1>5. "gzip" \notin Delimiters /\ "COMMA" \notin Delimiters /\ "deflate" \notin Delimiters
  BY DEF Delimiters
<1>6. consume(V(e), "gzip") = Continue(V(l))
  BY <1>2, <1>5, AcceptsValue
<1>7. consume(V(l), "COMMA") = Continue(V(m))
  BY <1>3, <1>5, AcceptsValue
<1>8. consume(V(m), "SP") = Continue(V(m))
  BY Accepts
<1>9. consume(V(m), "deflate") = Continue(V(o))
  BY <1>4, <1>5, AcceptsValue
<1>10. o = <<"gzip", "COMMA", "deflate">>
  <2>1. l = <<"gzip">>
    BY <1>1, <1>2
  <2>2. PICK S : S = {"gzip", "COMMA", "deflate"}
    BY Zenon
  <2>3. PICK w : w = <<"gzip", "COMMA">>
    BY Zenon
  <2>4. PICK x : x = <<"gzip", "COMMA", "deflate">>
    BY Zenon
  <2>5. /\ l \in Seq(S) /\ w \in Seq(S) /\ x \in Seq(S) /\ "COMMA" \in S /\ "deflate" \in S
        /\ Len(l) = 1 /\ Len(w) = Len(l) + 1 /\ Len(x) = Len(w) + 1
    BY <2>1, <2>2, <2>3, <2>4
  <2>6. w[1] = l[1] /\ w[2] = "COMMA" /\ x[1] = w[1] /\ x[2] = w[2] /\ x[3] = "deflate"
    BY <2>1, <2>3, <2>4
  <2>7. \A i \in 1 .. Len(l) : w[i] = l[i]
    <3>1. \A i \in 1 .. 1 : i = 1
      OBVIOUS
    <3> QED
      BY <2>5, <2>6, <3>1
  <2>8. \A i \in 1 .. Len(w) : x[i] = w[i]
    <3>1. \A i \in 1 .. 2 : i = 1 \/ i = 2
      OBVIOUS
    <3> QED
      BY <2>5, <2>6, <3>1
  <2>9. w[Len(l) + 1] = "COMMA" /\ x[Len(w) + 1] = "deflate"
    BY <2>5, <2>6
  <2>10. m = w
    BY <1>3, <2>5, <2>7, <2>9, Appended, SMTT(30)
  <2>11. Append(w, "deflate") = x
    <3>1. PICK d \in S : d = "deflate"
      BY <2>5
    <3>2. w \in Seq(S) /\ x \in Seq(S) /\ Len(x) = Len(w) + 1 /\ x[Len(w) + 1] = d
      BY <2>5, <2>9, <3>1
    <3>3. Append(w, d) = x
      BY <2>8, <3>2, Appended
    <3> QED
      BY <3>1, <3>3
  <2> QED
    BY <1>4, <2>4, <2>10, <2>11
<1> HIDE DEF V
<1>11. Reaches(V(e), <<"gzip", "COMMA", "SP", "deflate">>, Continue(V(o)))
  BY <1>6, <1>7, <1>8, <1>9, ReachesFour
<1> QED
  BY <1>1, <1>10, <1>11 DEF V

(* The compression a request calls for.                                    *)
Chosen(accepts) ==
    IF "gzip" \in accepts THEN "gzip" ELSE IF "deflate" \in accepts THEN "deflate" ELSE Plain

Noted(h, c, u, n, c2, n2) ==
    FinishHeader(At("header_line_start", h, c, u, n)) = At("header_line_start", h, c2, u, n2)

(* Before the first header there is nothing to note.                       *)
LEMMA NothingNoted ==
    ASSUME NEW c, NEW u, NEW n PROVE Noted(NoHeader, c, u, n, c, n)
<1>1. NoHeader.name # <<"Accept-Encoding">> /\ NoHeader.name # <<"Connection">>
  BY DEF NoHeader
<1>2. PICK p : p = At("header_line_start", NoHeader, c, u, n)
  OBVIOUS
<1>3. p.header = NoHeader
  BY <1>2 DEF At
<1>4. FinishHeader(p) = p
  BY <1>1, <1>3 DEF FinishHeader
<1> QED
  BY <1>2, <1>4 DEF Noted

(* What an Accept-Encoding header contributes.                             *)
LEMMA CompressionNoted ==
    ASSUME NEW v, NEW c, NEW u, NEW n, NEW c2,
           c2 = IF Contains(v, "gzip") THEN "gzip" ELSE IF Contains(v, "deflate") THEN "deflate" ELSE c
    PROVE  Noted([name |-> <<"Accept-Encoding">>, value |-> v], c, u, n, c2, n)
<1>1. PICK h : h = [name |-> <<"Accept-Encoding">>, value |-> v]
  BY Zenon
<1>2. PICK p : p = At("header_line_start", h, c, u, n)
  OBVIOUS
<1>3. h.name = <<"Accept-Encoding">> /\ h.value = v /\ <<"Accept-Encoding">> # <<"Connection">>
  BY <1>1
<1>4. p.header = h /\ p.compression = c
  BY <1>2 DEF At
<1>5. FinishHeader(p) = [p EXCEPT !.compression = c2]
  BY <1>3, <1>4 DEF FinishHeader
<1>6. [p EXCEPT !.compression = c2] = At("header_line_start", h, c2, u, n)
  BY <1>2 DEF At
<1> QED
  BY <1>1, <1>2, <1>5, <1>6 DEF Noted

(* What a Connection header contributes.                                   *)
LEMMA ConnectionNoted ==
    ASSUME NEW v, NEW c, NEW u, NEW n
    PROVE  Noted([name |-> <<"Connection">>, value |-> v], c, u, n, c, v)
<1>1. PICK h : h = [name |-> <<"Connection">>, value |-> v]
  BY Zenon
<1>2. PICK p : p = At("header_line_start", h, c, u, n)
  OBVIOUS
<1>3. h.name = <<"Connection">> /\ h.value = v /\ <<"Accept-Encoding">> # <<"Connection">>
  BY <1>1
<1>4. p.header = h
  BY <1>2 DEF At
<1>5. FinishHeader(p) = [p EXCEPT !.connection = v]
  BY <1>3, <1>4 DEF FinishHeader
<1>6. [p EXCEPT !.connection = v] = At("header_line_start", h, c, u, v)
  BY <1>2 DEF At
<1> QED
  BY <1>1, <1>2, <1>5, <1>6 DEF Noted

(* What the values of Accept-Encoding contain.                             *)
LEMMA Containing ==
    /\ Contains(<<"gzip">>, "gzip")
    /\ ~Contains(<<"deflate">>, "gzip") /\ Contains(<<"deflate">>, "deflate")
    /\ Contains(<<"gzip", "COMMA", "deflate">>, "gzip")
BY DEF Contains

(* The Accept-Encoding line, if any, ends with the right compression to    *)
(* note.                                                                   *)
LEMMA AcceptLineRead ==
    ASSUME NEW accepts \in SUBSET {"gzip", "deflate"}, NEW u, NEW n
    PROVE  /\ AcceptLine(accepts) \in Seq(Symbols)
           /\ \E h : /\ Reaches(At("header_line_start", NoHeader, Plain, u, n), AcceptLine(accepts),
                                Continue(At("header_line_start", h, Plain, u, n)))
                     /\ Noted(h, Plain, u, n, Chosen(accepts), n)
<1> DEFINE A(v) == [name |-> <<"Accept-Encoding">>, value |-> v]
           L(h) == At("header_line_start", h, Plain, u, n)
<1>1. ASSUME NEW v \in Seq(Symbols), NEW w,
             Reaches(At("header_value", A(<<>>), Plain, u, n), v,
                     Continue(At("header_value", A(w), Plain, u, n)))
      PROVE  /\ Reaches(L(NoHeader), HeaderLine("Accept-Encoding", v), Continue(L(A(w))))
             /\ HeaderLine("Accept-Encoding", v) \in Seq(Symbols)
  <2>1. {"Accept-Encoding", "COLON", "SP", "CR", "LF"} \subseteq Symbols
    BY DEF Symbols
  <2>2. FinishHeader(L(NoHeader)) = L(NoHeader)
    BY NothingNoted DEF Noted
  <2>3. PICK name \in {"Accept-Encoding", "Connection"} : name = "Accept-Encoding"
    OBVIOUS
  <2> QED
    BY <1>1, <2>1, <2>2, <2>3, LineRead
<1>2. CASE accepts = {}
  <2>1. AcceptLine(accepts) = <<>> /\ Chosen(accepts) = Plain
    BY <1>2 DEF AcceptLine, Chosen
  <2>2. Reaches(L(NoHeader), <<>>, Continue(L(NoHeader)))
    BY ReachesNothing
  <2>3. Noted(NoHeader, Plain, u, n, Plain, n)
    BY NothingNoted
  <2> QED
    BY <2>1, <2>2, <2>3
<1>3. CASE accepts = {"gzip"}
  <2>1. AcceptLine(accepts) = HeaderLine("Accept-Encoding", <<"gzip">>) /\ Chosen(accepts) = "gzip"
    BY <1>3 DEF AcceptLine, Chosen
  <2>2. "gzip" \notin Delimiters /\ <<"gzip">> \in Seq(Symbols)
    BY DEF Delimiters, Symbols
  <2>3. Reaches(At("header_value", A(<<>>), Plain, u, n), <<"gzip">>,
                Continue(At("header_value", A(<<"gzip">>), Plain, u, n)))
    BY <2>2, WordRead
  <2>4. Noted(A(<<"gzip">>), Plain, u, n, "gzip", n)
    BY CompressionNoted, Containing
  <2> QED
    BY <1>1, <2>1, <2>2, <2>3, <2>4, Zenon
<1>4. CASE accepts = {"deflate"}
  <2>1. /\ AcceptLine(accepts) = HeaderLine("Accept-Encoding", <<"deflate">>)
        /\ Chosen(accepts) = "deflate"
    BY <1>4 DEF AcceptLine, Chosen
  <2>2. "deflate" \notin Delimiters /\ <<"deflate">> \in Seq(Symbols)
    BY DEF Delimiters, Symbols
  <2>3. Reaches(At("header_value", A(<<>>), Plain, u, n), <<"deflate">>,
                Continue(At("header_value", A(<<"deflate">>), Plain, u, n)))
    BY <2>2, WordRead
  <2>4. Noted(A(<<"deflate">>), Plain, u, n, "deflate", n)
    BY CompressionNoted, Containing
  <2> QED
    BY <1>1, <2>1, <2>2, <2>3, <2>4, Zenon
<1>5. CASE accepts = {"gzip", "deflate"}
  <2> DEFINE all == <<"gzip", "COMMA", "SP", "deflate">>
             kept == <<"gzip", "COMMA", "deflate">>
  <2>1. AcceptLine(accepts) = HeaderLine("Accept-Encoding", all) /\ Chosen(accepts) = "gzip"
    <3>1. accepts # {} /\ accepts # {"gzip"} /\ accepts # {"deflate"} /\ "gzip" \in accepts
      BY <1>5
    <3> QED
      BY <3>1 DEF AcceptLine, Chosen
  <2>2. all \in Seq(Symbols)
    <3>1. "gzip" \in Symbols /\ "COMMA" \in Symbols /\ "SP" \in Symbols /\ "deflate" \in Symbols
      BY DEF Symbols
    <3> QED
      BY <3>1
  <2>3. Reaches(At("header_value", A(<<>>), Plain, u, n), all,
                Continue(At("header_value", A(kept), Plain, u, n)))
    BY ListRead
  <2>4. Noted(A(kept), Plain, u, n, "gzip", n)
    BY CompressionNoted, Containing
  <2> QED
    BY <1>1, <2>1, <2>2, <2>3, <2>4, Zenon
<1> QED
  BY <1>2, <1>3, <1>4, <1>5, Zenon

CloseLine(close) == IF close THEN HeaderLine("Connection", <<"close">>) ELSE <<>>

Closing(close) == IF close THEN <<"close">> ELSE <<>>

(* The Connection line, if any, comes after it.                            *)
LEMMA CloseLineRead ==
    ASSUME NEW close \in BOOLEAN, NEW h, NEW u, NEW c, NEW c2, Noted(h, c, u, <<>>, c2, <<>>)
    PROVE  /\ CloseLine(close) \in Seq(Symbols)
           /\ \E k, d : /\ Reaches(At("header_line_start", h, c, u, <<>>), CloseLine(close),
                                   Continue(At("header_line_start", k, d, u, <<>>)))
                        /\ Noted(k, d, u, <<>>, c2, Closing(close))
<1>1. CASE close = FALSE
  <2>1. CloseLine(close) = <<>> /\ Closing(close) = <<>>
    BY <1>1 DEF CloseLine, Closing
  <2>2. Reaches(At("header_line_start", h, c, u, <<>>), <<>>,
                Continue(At("header_line_start", h, c, u, <<>>)))
    BY ReachesNothing
  <2> QED
    BY <2>1, <2>2
<1>2. CASE close = TRUE
  <2>1. CloseLine(close) = HeaderLine("Connection", <<"close">>) /\ Closing(close) = <<"close">>
    BY <1>2 DEF CloseLine, Closing
  <2>2. "close" \notin Delimiters /\ <<"close">> \in Seq(Symbols)
    BY DEF Delimiters, Symbols
  <2>3. {"Connection", "COLON", "SP", "CR", "LF"} \subseteq Symbols
    BY DEF Symbols
  <2>4. PICK name \in {"Accept-Encoding", "Connection"} : name = "Connection"
    OBVIOUS
  <2>5. Reaches(At("header_value", [name |-> <<name>>, value |-> <<>>], c2, u, <<>>), <<"close">>,
                Continue(At("header_value", [name |-> <<name>>, value |-> <<"close">>], c2, u, <<>>)))
    BY <2>2, WordRead
  <2>6. FinishHeader(At("header_line_start", h, c, u, <<>>)) = At("header_line_start", h, c2, u, <<>>)
    BY DEF Noted
  <2>7. /\ Reaches(At("header_line_start", h, c, u, <<>>), HeaderLine(name, <<"close">>),
                   Continue(At("header_line_start", [name |-> <<name>>, value |-> <<"close">>],
                               c2, u, <<>>)))
        /\ HeaderLine(name, <<"close">>) \in Seq(Symbols)
    BY <2>2, <2>3, <2>4, <2>5, <2>6, LineRead, Zenon
  <2>8. Noted([name |-> <<name>>, value |-> <<"close">>], c2, u, <<>>, c2, <<"close">>)
    BY <2>4, ConnectionNoted
  <2> QED
    BY <2>1, <2>4, <2>7, <2>8
<1> QED
  BY <1>1, <1>2, Zenon

(* The empty line ends the request with the last header noted.             *)
LEMMA EndRead ==
    ASSUME NEW h, NEW c, NEW u, NEW n, NEW c2, NEW n2, Noted(h, c, u, n, c2, n2)
    PROVE  Reaches(At("header_line_start", h, c, u, n), <<"CR", "LF">>,
                   [parser |-> At("expecting_newline_3", h, c2, u, n2), status |-> "valid"])
<1>1. consume(At("header_line_start", h, c, u, n), "CR") = Continue(At("expecting_newline_3", h, c2, u, n2))
  BY LineBegins DEF Noted
<1>2. consume(At("expecting_newline_3", h, c2, u, n2), "LF")
        = [parser |-> At("expecting_newline_3", h, c2, u, n2), status |-> "valid"]
  BY Accepts
<1> QED
  BY <1>1, <1>2, ReachesTwo

(* The parser has understood the request.                                  *)
Understood(r, result) ==
    IF r.malformed THEN result.status = "invalid"
    ELSE /\ result.status = "valid"
         /\ result.parser.uri = <<r.uri>>
         /\ result.parser.compression = Chosen(r.accepts)
         /\ result.parser.connection = Closing(r.close)

(* The parser understands every request at its end and never earlier.      *)
LEMMA RequestRead ==
    ASSUME NEW r \in Requests
    PROVE  /\ Encode(r) \in Seq(Symbols)
           /\ \E result : Reaches(NewParser, Encode(r), result) /\ Understood(r, result)
<1>1. /\ r.uri \in Uris /\ r.uri \notin Delimiters /\ r.accepts \in SUBSET {"gzip", "deflate"}
      /\ r.close \in BOOLEAN /\ r.malformed \in BOOLEAN
  BY RequestsAssumption DEF Delimiters
<1>2. CASE r.malformed = TRUE
  <2>1. Encode(r) = <<"GET", "SP", r.uri, "TAB">>
    BY <1>2, Zenon DEF Encode
  <2>2. Encode(r) \in Seq(Symbols)
    <3>1. "GET" \in Symbols /\ "SP" \in Symbols /\ "TAB" \in Symbols /\ r.uri \in Symbols
      BY <1>1 DEF Symbols
    <3> QED
      BY <2>1, <3>1
  <2>3. Reaches(NewParser, Encode(r), Reject(At("uri", NoHeader, Plain, <<r.uri>>, <<>>)))
    BY <1>1, <2>1, MalformedRead
  <2>4. Understood(r, Reject(At("uri", NoHeader, Plain, <<r.uri>>, <<>>)))
    BY <1>2 DEF Understood, Reject
  <2> QED
    BY <2>2, <2>3, <2>4
<1>3. CASE r.malformed = FALSE
  <2>1. PICK u : u = <<r.uri>>
    BY Zenon
  <2>2. PICK a : a = RequestLine(r.uri)
    OBVIOUS
  <2>3. PICK b : b = AcceptLine(r.accepts)
    OBVIOUS
  <2>4. PICK c : c = CloseLine(r.close)
    OBVIOUS
  <2>5. PICK d : d = <<"CR", "LF">>
    BY Zenon
  <2>6. Encode(r) = ((a \o b) \o c) \o d
    BY <1>3, <2>2, <2>3, <2>4, <2>5, Zenon DEF Encode, RequestLine, CloseLine
  <2>7. Reaches(NewParser, a, Continue(At("header_line_start", NoHeader, Plain, u, <<>>)))
    BY <1>1, <2>1, <2>2, RequestLineRead
  <2>8. PICK h : /\ Reaches(At("header_line_start", NoHeader, Plain, u, <<>>), b,
                            Continue(At("header_line_start", h, Plain, u, <<>>)))
                 /\ Noted(h, Plain, u, <<>>, Chosen(r.accepts), <<>>)
    BY <1>1, <2>3, AcceptLineRead
  <2>9. PICK k, e : /\ Reaches(At("header_line_start", h, Plain, u, <<>>), c,
                               Continue(At("header_line_start", k, e, u, <<>>)))
                    /\ Noted(k, e, u, <<>>, Chosen(r.accepts), Closing(r.close))
    BY <1>1, <2>4, <2>8, CloseLineRead
  <2>10. PICK result : result = [parser |-> At("expecting_newline_3", k, Chosen(r.accepts), u, Closing(r.close)),
                                 status |-> "valid"]
    BY Zenon
  <2>11. Reaches(At("header_line_start", k, e, u, <<>>), d, result)
    BY <2>5, <2>9, <2>10, EndRead
  <2>12. a \in Seq(Symbols) /\ b \in Seq(Symbols) /\ c \in Seq(Symbols) /\ d \in Seq(Symbols)
    <3>1. a \in Seq(Symbols)
      <4>1. /\ "GET" \in Symbols /\ "SP" \in Symbols /\ r.uri \in Symbols /\ "H" \in Symbols
            /\ "T" \in Symbols /\ "P" \in Symbols /\ "SLASH" \in Symbols /\ "DIGIT" \in Symbols
            /\ "DOT" \in Symbols /\ "CR" \in Symbols /\ "LF" \in Symbols
        BY <1>1 DEF Symbols
      <4> QED
        BY <2>2, <4>1 DEF RequestLine
    <3>2. b \in Seq(Symbols)
      BY <1>1, <2>3, AcceptLineRead
    <3>3. c \in Seq(Symbols)
      BY <1>1, <2>4, <2>8, CloseLineRead
    <3>4. d \in Seq(Symbols)
      BY <2>5 DEF Symbols
    <3> QED
      BY <3>1, <3>2, <3>3, <3>4
  <2>13. a \o b \in Seq(Symbols) /\ (a \o b) \o c \in Seq(Symbols) /\ Encode(r) \in Seq(Symbols)
    BY <2>6, <2>12, ConcatProperties
  <2>14. Reaches(NewParser, a \o b, Continue(At("header_line_start", h, Plain, u, <<>>)))
    BY <2>7, <2>8, <2>12, ReachesConcat
  <2>15. Reaches(NewParser, (a \o b) \o c, Continue(At("header_line_start", k, e, u, <<>>)))
    BY <2>9, <2>12, <2>13, <2>14, ReachesConcat, Zenon
  <2>16. Reaches(NewParser, ((a \o b) \o c) \o d, result)
    BY <2>11, <2>12, <2>13, <2>15, ReachesConcat, Zenon
  <2>17. Understood(r, result)
    BY <1>3, <2>1, <2>10 DEF Understood, At
  <2> QED
    BY <2>6, <2>13, <2>16, <2>17
<1> QED
  BY <1>1, <1>2, <1>3, Zenon
=============================================================================
