------------------------------ MODULE PhoneSockets ------------------------------
(***************************************************************************)
(* BridgeClient of the Android app: one current socket per paired machine  *)
(* and the callbacks of all that were ever opened.  A callback names the   *)
(* machine and not the socket it comes from, so a socket that was replaced *)
(* or forgotten reports like the current one until it has ended.  Each     *)
(* callback is one step of the main thread.  OkHttp is external: after the *)
(* app's close() it goes on reading, and it calls onClosed only when both  *)
(* sides have closed.  A peer that closes alone is one that says no more:  *)
(* the app has no onClosing, and a ping that stays unanswered is a failure.*)
(***************************************************************************)
EXTENDS Naturals, FiniteSets

CONSTANTS
    Hosts,     \* the machines
    Sockets,   \* the sockets the app may open, each once
    Machine,   \* the machine a socket is opened to
    Stored,    \* the machines paired when the app starts
    First,     \* the sockets it opens then
    MaxSockets,  \* bound: sockets the app opens
    None

ASSUME SocketAssumption ==
    /\ Machine \in [Sockets -> Hosts]
    /\ Stored \subseteq Hosts
    /\ First \in [Stored -> Sockets] /\ \A h \in Stored : Machine[First[h]] = h
    /\ MaxSockets \in Nat
    /\ None \notin Sockets

VARIABLES
    paired,      \* pairings
    connection,  \* connections: what the app shows of each machine
    sockets,     \* sockets: the current one of each machine, or None
    phase        \* of a socket: "new", "opening", "waiting" for auth.ready,
                 \* "open", "rejected" by the peer, "ended"

network == <<paired, connection, sockets, phase>>

States == {"disconnected", "connecting", "authenticating", "connected"}
Phases == {"new", "opening", "waiting", "open", "rejected", "ended"}

SocketsOK ==
    /\ paired \subseteq Hosts
    /\ connection \in [Hosts -> States]
    /\ sockets \in [Hosts -> Sockets \cup {None}]
    /\ phase \in [Sockets -> Phases]
    /\ \A h \in Hosts : sockets[h] # None => Machine[sockets[h]] = h

Current(c) == sockets[Machine[c]] = c
Live(c) == phase[c] \in {"opening", "waiting", "open", "rejected"}

Shows(h, state) == connection' = [connection EXCEPT ![h] = state]
Passes(c, to) == phase' = [phase EXCEPT ![c] = to]

\* connect for each of some machines: a new socket takes the place of the
\* current one, which is closed.
ConnectAll(hs) ==
    /\ Cardinality({c \in Sockets : phase[c] # "new"}) + Cardinality(hs) <= MaxSockets
    /\ \E new \in [hs -> {c \in Sockets : phase[c] = "new"}] :
        /\ \A h \in hs : Machine[new[h]] = h
        /\ sockets' = [h \in Hosts |-> IF h \in hs THEN new[h] ELSE sockets[h]]
        /\ phase' = [c \in Sockets |-> IF \E h \in hs : new[h] = c
                                       THEN "opening" ELSE phase[c]]
        /\ connection' = [h \in Hosts |-> IF h \in hs THEN "connecting"
                                          ELSE connection[h]]

\* initialize has connected every stored pairing.
SocketsInit ==
    /\ paired = Stored
    /\ connection = [h \in Hosts |-> IF h \in Stored THEN "connecting"
                                    ELSE "disconnected"]
    /\ sockets = [h \in Hosts |-> IF h \in Stored THEN First[h] ELSE None]
    /\ phase = [c \in Sockets |-> IF Current(c) THEN "opening" ELSE "new"]

-----------------------------------------------------------------------------
(* What the app does with its sockets.                                     *)

Down == {h \in paired : connection[h] # "connected"}

\* From the retry loop and when the screen wakes up.
ReconnectIfNeeded ==
    /\ Down # {}
    /\ ConnectAll(Down)
    /\ UNCHANGED paired

\* The button of the list of sessions, which is there while fewer machines are
\* shown as connected than are paired.
Reconnect ==
    /\ Cardinality({h \in Hosts : connection[h] = "connected"}) < Cardinality(paired)
    /\ ConnectAll(paired)
    /\ UNCHANGED paired

\* A machine may be paired again, as after a rotation of its token; one whose
\* address changed is connected when the search of the network has found it.
Pair(h) ==
    /\ ConnectAll({h})
    /\ paired' = paired \cup {h}

Forget(h) ==
    /\ h \in paired
    /\ paired' = paired \ {h}
    /\ sockets' = [sockets EXCEPT ![h] = None]
    /\ Shows(h, "disconnected")
    /\ UNCHANGED phase

-----------------------------------------------------------------------------
(* Callbacks.                                                              *)

\* onOpen sends the authentication; when the app has closed the socket before,
\* the peer does not get it and is silent.
Opened(c) ==
    /\ phase[c] = "opening"
    /\ Passes(c, "waiting")
    /\ Shows(Machine[c], "authenticating")
    /\ UNCHANGED <<paired, sockets>>

\* auth.ready.
Accepted(c) ==
    /\ phase[c] = "waiting"
    /\ Passes(c, "open")
    /\ Shows(Machine[c], "connected")
    /\ UNCHANGED <<paired, sockets>>

\* The peer closes after an authentication it does not accept.
Rejected(c) ==
    /\ phase[c] = "waiting"
    /\ Passes(c, "rejected")
    /\ UNCHANGED <<paired, connection, sockets>>

\* Mutant of Ended: the end of a socket that is not current is not shown.
EndedIfCurrent(c) ==
    /\ Live(c)
    /\ Passes(c, "ended")
    /\ IF Current(c) THEN Shows(Machine[c], "disconnected")
                     ELSE UNCHANGED connection
    /\ UNCHANGED <<paired, sockets>>

\* onFailure of any socket, onClosed of one the app has closed.
Ended(c) ==
    /\ Live(c)
    /\ Passes(c, "ended")
    /\ Shows(Machine[c], "disconnected")
    /\ UNCHANGED <<paired, sockets>>

-----------------------------------------------------------------------------
\* A machine that is shown as connected is left alone by the retry loop, so a
\* callback must be due that corrects it when it is not (BridgeClient.connect
\* and handle, BridgeRepository.reconnectIfNeeded).
NeverStranded ==
    \A h \in Hosts :
        connection[h] = "connected" => \E c \in Sockets : Machine[c] = h /\ Live(c)
===============================================================================
