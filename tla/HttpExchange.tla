---------------------------- MODULE HttpExchange ----------------------------
(***************************************************************************)
(* What a client of the HTTP server relies on: on one connection the       *)
(* replies come in the order of the requests, each one the reply its       *)
(* request calls for, until the server or the client ends the exchange;    *)
(* and a request sent in full is answered unless the exchange ends.        *)
(***************************************************************************)
EXTENDS Naturals, Sequences

CONSTANTS
    Requests,     \* what a client may ask
    ReplyTo(_),   \* the reply a request calls for
    NoReply       \* nothing received yet

VARIABLES
    pending,      \* requests sent in full and not answered yet, oldest first
    last,         \* the reply received last
    open          \* the exchange may still go on

exchangeVars == <<pending, last, open>>

Init == pending = <<>> /\ last = NoReply /\ open = TRUE

Ask ==
    /\ \E r \in Requests : pending' = Append(pending, r)
    /\ UNCHANGED <<last, open>>

Answer ==
    /\ open
    /\ pending # <<>>
    /\ last' = ReplyTo(Head(pending))
    /\ pending' = Tail(pending)
    /\ UNCHANGED open

End ==
    /\ open
    /\ open' = FALSE
    /\ UNCHANGED <<pending, last>>

Next == Ask \/ Answer \/ End

Spec == Init /\ [][Next]_exchangeVars /\ WF_exchangeVars(Answer)
=============================================================================
