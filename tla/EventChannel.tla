----------------------------- MODULE EventChannel -----------------------------
(***************************************************************************)
(* EventChannel: the queue through which the stream of the provider and    *)
(* the permission prompts reach the one consumer of a turn.  A channel is  *)
(* a record, a method an operator that returns the channel after it.  A    *)
(* value given to a waiting consumer is on its way until the consumer's    *)
(* continuation runs; values pushed meanwhile queue up behind it.          *)
(***************************************************************************)
EXTENDS Naturals, Sequences, SequencesExt

Opened == [queue |-> <<>>, onTheWay |-> <<>>, waiting |-> FALSE,
           closed |-> FALSE, failure |-> FALSE]

\* A push that forgets the consumer it has just resumed: the next push
\* resumes it again, with another value.
PushedTwice(c, event) ==
    IF c.closed THEN c
    ELSE IF c.waiting
    THEN [c EXCEPT !.onTheWay = Append(@, event)]
    ELSE [c EXCEPT !.queue = Append(@, event)]

Pushed(c, event) ==
    IF c.closed THEN c
    ELSE IF c.waiting
    THEN [c EXCEPT !.waiting = FALSE, !.onTheWay = <<event>>]
    ELSE [c EXCEPT !.queue = Append(@, event)]

\* Every one of the events is pushed: the first may resume the consumer, the
\* rest find nobody waiting.
PushedAll(c, events) ==
    IF c.closed \/ events = <<>> THEN c
    ELSE [Pushed(c, Head(events)) EXCEPT !.queue = @ \o Tail(events)]

\* A close that does not drain the waiters.
ClosedSilently(c, failure) ==
    IF c.closed THEN c ELSE [c EXCEPT !.closed = TRUE, !.failure = failure]

\* close, and fail with an error; drainWaiters resumes the consumer, which
\* finds the queue empty and the channel closed.
Closed(c, failure) ==
    IF c.closed THEN c
    ELSE [c EXCEPT !.closed = TRUE, !.failure = failure, !.waiting = FALSE]

\* The three things the iterator does when it runs: hand over a value, end,
\* or wait.
Contents(c) == c.onTheWay \o c.queue
HasEvent(c) == ~c.waiting /\ Contents(c) # <<>>
AtEnd(c) == ~c.waiting /\ Contents(c) = <<>> /\ c.closed
MustWait(c) == ~c.waiting /\ Contents(c) = <<>> /\ ~c.closed

\* The channel after the value at its head was handed over.
Taken(c) ==
    IF c.onTheWay # <<>>
    THEN [c EXCEPT !.onTheWay = Tail(@)]
    ELSE [c EXCEPT !.queue = Tail(@)]

Awaited(c) == [c EXCEPT !.waiting = TRUE]
===============================================================================
