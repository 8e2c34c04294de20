------------------------------ MODULE PhonePipe -------------------------------
(***************************************************************************)
(* What a phone may rely on when it speaks to its gateway through the      *)
(* relay, as if there were one pipe and no connections: the requests that  *)
(* reach the gateway are the first ones it sent; what it is told comes     *)
(* from its own gateway or is a refusal; a request that was refused is     *)
(* never carried out.  Any number of requests may be lost at the end.      *)
(***************************************************************************)
EXTENDS Naturals, Sequences

CONSTANT Phones

VARIABLES
    end,       \* the socket of a phone: "new", "open", "closing", "closed"
    sent,      \* the requests of a phone, numbered from 1
    arrived,   \* those that reached the gateway, in order
    replied,   \* those the gateway has answered
    heard,     \* those whose answer was sent to the phone
    refused    \* those of which the phone was told that the host is offline

pipe == <<end, sent, arrived, replied, heard, refused>>

Init ==
    /\ end = [p \in Phones |-> "new"]
    /\ sent = [p \in Phones |-> 0]
    /\ arrived = [p \in Phones |-> <<>>]
    /\ replied = [p \in Phones |-> {}]
    /\ heard = [p \in Phones |-> {}]
    /\ refused = [p \in Phones |-> {}]

EndOf(p) == end[p]
RequestsOf(p) == <<sent[p], refused[p]>>
WorkOf(p) == <<arrived[p], replied[p]>>
PipeOf(p) == <<EndOf(p), RequestsOf(p), WorkOf(p), heard[p]>>

\* A socket goes one way, and may skip stations.
Moves(p) ==
    /\ \/ end[p] = "new" /\ end'[p] \in {"open", "closed"}
       \/ end[p] = "open" /\ end'[p] \in {"closing", "closed"}
       \/ end[p] = "closing" /\ end'[p] = "closed"
    /\ UNCHANGED <<RequestsOf(p), WorkOf(p), heard[p]>>

\* A request is taken into the pipe, or lost.
Asks(p) ==
    /\ end[p] \in {"open", "closing"}
    /\ sent'[p] = sent[p] + 1
    /\ UNCHANGED <<EndOf(p), refused[p], WorkOf(p), heard[p]>>

\* A request is refused, and the phone told so.
Refuses(p) ==
    /\ end[p] = "open"
    /\ sent'[p] = sent[p] + 1
    /\ refused'[p] = refused[p] \cup {sent[p] + 1}
    /\ UNCHANGED <<EndOf(p), WorkOf(p), heard[p]>>

\* The next requests arrive; none of them, nor one before them, was refused.
Arrive(p) ==
    /\ \E k \in Len(arrived[p]) .. sent[p] :
          /\ \A n \in refused[p] : n > k
          /\ arrived'[p] = [i \in 1 .. k |-> i]
    /\ UNCHANGED <<EndOf(p), RequestsOf(p), replied[p], heard[p]>>

Replies(p) ==
    /\ \E n \in 1 .. Len(arrived[p]) : replied'[p] = replied[p] \cup {n}
    /\ UNCHANGED <<EndOf(p), RequestsOf(p), arrived[p], heard[p]>>

\* An answer reaches the phone that asked, while its socket is open.
Hears(p) ==
    /\ end[p] = "open"
    /\ \E n \in replied[p] : heard'[p] = heard[p] \cup {n}
    /\ UNCHANGED <<EndOf(p), RequestsOf(p), WorkOf(p)>>

\* The phones share nothing, but one event may concern several of them.
Next ==
    \A p \in Phones :
        \/ Moves(p) \/ Asks(p) \/ Refuses(p)
        \/ Arrive(p) \/ Replies(p) \/ Hears(p)
        \/ UNCHANGED PipeOf(p)

Spec == Init /\ [][Next]_pipe
===============================================================================
