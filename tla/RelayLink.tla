----------------------------- MODULE RelayLink ------------------------------
(***************************************************************************)
(* The WebSockets between a host client and the relay server.  Each end    *)
(* has a state of its own, and messages go first in, first out.  An end    *)
(* that closes still receives what was sent to it before the other end     *)
(* heard of it.  On a connection that has broken nothing arrives any more: *)
(* what is or will be in a queue is data its sender has no receipt for.    *)
(*                                                                         *)
(* A connection of the model is used again once both of its ends are       *)
(* closed.                                                                 *)
(***************************************************************************)
EXTENDS Naturals, Sequences

CONSTANTS
    Conns,    \* connections
    NoConn,
    Phones    \* the phones' sockets, and the channel each is given

VARIABLES
    near, far,   \* the state of the client's end and of the relay's end
    up, down,    \* messages to the relay, and to the client
    broken       \* connections the network has dropped

link == <<near, far, up, down, broken>>

EndState == {"closed", "connecting", "open", "closing"}

Message == [type : {"register", "open", "request", "response", "error", "close"},
            phone : Phones \cup {NoConn}, n : Nat]

LinkTypeOK ==
    /\ near \in [Conns -> EndState] /\ far \in [Conns -> EndState]
    /\ up \in [Conns -> Seq(Message)] /\ down \in [Conns -> Seq(Message)]
    /\ broken \subseteq Conns

LinkInit ==
    /\ near = [h \in Conns |-> "closed"] /\ far = [h \in Conns |-> "closed"]
    /\ up = [h \in Conns |-> <<>>] /\ down = [h \in Conns |-> <<>>]
    /\ broken = {}

\* send, behind the test of readyState that every caller makes.
Send(queue, end, h, m) ==
    IF end[h] = "open"
    THEN [queue EXCEPT ![h] = Append(@, m)] ELSE queue

\* Mutant of Msg: the ends disagree about the name of a message.
MsgMisnamed(type, p, n) ==
    [type |-> IF type = "close" THEN "closed" ELSE type, phone |-> p, n |-> n]

Msg(type, p, n) == [type |-> type, phone |-> p, n |-> n]

\* close(): nothing more is sent from this end.
Closing(end, h) == IF end[h] = "open" THEN [end EXCEPT ![h] = "closing"] ELSE end

\* The close frame of the other end is read after all its messages.
HearsClose(end, other, inbound, h) ==
    /\ h \notin broken
    /\ other[h] \in {"closing", "closed"} /\ inbound[h] = <<>>

\* When the "close" event of an end may come.
CloseDue(end, other, inbound, h) ==
    \/ end[h] \in {"open", "closing"} /\ h \in broken
    \/ end[h] = "closing" /\ HearsClose(end, other, inbound, h)

\* Whether the end of a broken connection finds out for certain: TCP gives up
\* sending data again, and close() arms a timer.  Neither program sends pings,
\* so an end that has nothing to say may stay open for good.
FindsOut(end, outbound, h) ==
    h \in broken /\ end[h] = "open" => outbound[h] # <<>>

Gone(n, f) == {h \in Conns : n[h] = "closed" /\ f[h] = "closed"}

\* The connection that is taken next; which one makes no difference.
Unused(h) == LET gone == Gone(near, far) IN gone # {} /\ h = CHOOSE g \in gone : TRUE

\* An end closes: nothing remains of a connection when both ends have.
Forgotten(n, f) ==
    LET gone == Gone(n, f) IN
    /\ up' = [h \in Conns |-> IF h \in gone THEN <<>> ELSE up[h]]
    /\ down' = [h \in Conns |-> IF h \in gone THEN <<>> ELSE down[h]]
    /\ broken' = broken \ gone

NearHears(h) ==
    /\ near[h] = "open" /\ HearsClose(near, far, down, h)
    /\ near' = [near EXCEPT ![h] = "closing"]
    /\ UNCHANGED <<far, up, down, broken>>

FarHears(h) ==
    /\ far[h] = "open" /\ HearsClose(far, near, up, h)
    /\ far' = [far EXCEPT ![h] = "closing"]
    /\ UNCHANGED <<near, up, down, broken>>

Break(h) ==
    /\ h \notin broken
    /\ near[h] \in {"open", "closing"} \/ far[h] \in {"open", "closing"}
    /\ broken' = broken \cup {h}
    /\ UNCHANGED <<near, far, up, down>>
=============================================================================
