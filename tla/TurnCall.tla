------------------------------- MODULE TurnCall -------------------------------
(***************************************************************************)
(* One call of a provider adapter by the gateway, the state the two        *)
(* adapters have in common: what is called, and what the caller has seen.  *)
(***************************************************************************)
EXTENDS Naturals, Sequences, FiniteSets, SequencesExt

VARIABLES
    provider, \* the adapter, "claude" or "codex"
    kind,     \* "turn", "new", or "call" for a listing, a snapshot, the models
    allowed,  \* the setting allowTurns
    taken,    \* the events the caller has received
    result    \* "open", then "done" or "failed" (the generator threw)

callVars == <<provider, kind, allowed, taken, result>>

Turns == {"turn", "new"}

CallInit ==
    /\ provider \in {"claude", "codex"}
    /\ kind \in Turns \cup {"call"}
    /\ allowed \in BOOLEAN
    /\ taken = <<>>
    /\ result = "open"

\* "Sending messages ... is disabled in settings."
Refused == kind \in Turns /\ ~allowed

Return ==
    /\ result' = "done"
    /\ UNCHANGED <<provider, kind, allowed, taken>>

Throw ==
    /\ result' = "failed"
    /\ UNCHANGED <<provider, kind, allowed, taken>>

Receive(events) ==
    /\ taken' = taken \o events
    /\ UNCHANGED <<provider, kind, allowed, result>>

\* The event that tells the gateway, and the phone, of a new session.
Announcement == [type |-> "session.new"]
===============================================================================
