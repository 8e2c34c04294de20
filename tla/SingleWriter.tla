---------------------------- MODULE SingleWriter ----------------------------
(***************************************************************************)
(* What the gateway promises about writing to a provider session: a lock   *)
(* per session, held by one turn at a time.  The registry of the program   *)
(* knows only the name of the phone that writes; GatewayCore shows that    *)
(* this name is enough to keep the turns apart.                            *)
(***************************************************************************)
CONSTANTS
    Sessions,   \* provider sessions
    Turns,      \* the requests that may run a turn
    NoTurn      \* nobody writes

VARIABLE holder

HolderTypeOK == holder \in [Sessions -> Turns \cup {NoTurn}]

Init == holder = [s \in Sessions |-> NoTurn]

\* A turn becomes the writer of a session nobody writes, and of no other.
Acquire(t, s) ==
    /\ holder[s] = NoTurn
    /\ \A x \in Sessions : holder[x] # t
    /\ holder' = [holder EXCEPT ![s] = t]

\* The writer gives the session back.
Release(t, s) ==
    /\ holder[s] = t
    /\ holder' = [holder EXCEPT ![s] = NoTurn]

Next == \E t \in Turns, s \in Sessions : Acquire(t, s) \/ Release(t, s)

Spec == Init /\ [][Next]_holder
=============================================================================
