------------------------------ MODULE TurnStream ------------------------------
(***************************************************************************)
(* What the gateway relies on in a ProviderAdapter: a call of startTurn or *)
(* startNewSession is a stream whose events are handed over one by one in  *)
(* the order they were produced.  The call returns when a complete stream  *)
(* has been handed over; it throws only when nothing produced is left.     *)
(***************************************************************************)
EXTENDS Naturals, Sequences, SequencesExt

VARIABLES
    produced,  \* the events of the call so far
    complete,  \* no further event will be produced
    taken,     \* the events handed to the gateway
    result     \* how the call ended, "open" while it runs

vars == <<produced, complete, taken, result>>

Init ==
    /\ produced = <<>>
    /\ complete \in BOOLEAN
    /\ taken = <<>>
    /\ result = "open"

\* The provider produces events, the gateway takes at most one of them.
Pass ==
    /\ result = "open"
    /\ IsPrefix(produced, produced')
    /\ complete => complete' /\ produced' = produced
    /\ complete' \in BOOLEAN
    /\ IsPrefix(taken, taken') /\ Len(taken') <= Len(taken) + 1
    /\ IsPrefix(taken', produced')
    /\ result' = "open"

Return ==
    /\ result = "open"
    /\ complete /\ taken = produced
    /\ result' = "done"
    /\ UNCHANGED <<produced, complete, taken>>

Throw ==
    /\ result = "open"
    /\ taken = produced
    /\ result' = "failed"
    /\ complete' \in BOOLEAN
    /\ UNCHANGED <<produced, taken>>

Next == Pass \/ Return \/ Throw

Spec == Init /\ [][Next]_vars
===============================================================================
