-------------------------- MODULE BridgeController --------------------------
(***************************************************************************)
(* The VS Code windows of one machine, each with the extension's           *)
(* BridgeController.  One window serves the gateway on the machine's fixed *)
(* port and the others stand by to take over; commands, the health check   *)
(* and the takeover timer of a window call start, stop and disconnectAll,  *)
(* and the calls interleave at their awaits.  The windows share the port   *)
(* and the pairing token in the secret storage.                            *)
(*                                                                         *)
(* The relay client lives and dies in the same stretches as the server and *)
(* is part of it here.  The discovery responder, activePort (the port in   *)
(* the pairing payload), the pre-0.13 token and all that is only shown are *)
(* left out.  Workspaces are trusted and autoStart is on.                  *)
(***************************************************************************)
EXTENDS Naturals, FiniteSets

CONSTANTS
    Windows,
    Calls,      \* slots for the asynchronous calls under way
    WindowOf,   \* the window of a slot
    NoWindow,
    MaxEvents   \* bound: commands, turns, windows closed or opened, failures

ASSUME BridgeAssumption ==
    /\ WindowOf \in [Calls -> Windows]
    /\ NoWindow \notin Windows
    /\ MaxEvents \in Nat

VARIABLES
    \* one controller per window
    open,         \* the window, and its extension host, is running
    server,       \* this.server is set
    takeover,     \* the takeover timer is armed
    stoppedByUser,
    served,       \* the token the server accepts
    turn,         \* a turn of the serving GatewayCore is running
    oldTurn,      \* a turn of an earlier GatewayCore is still running
    \* the calls
    pc, rotating, \* rotating: the call is a disconnectAll
    tok,          \* the token a start has read
    \* shared by the windows
    bound,        \* the window whose socket listens on the port
    token,        \* the stored token, 0 when there is none yet
    minted,       \* how many tokens were made so far
    events

controllers == <<open, server, takeover, stoppedByUser,
                 served, turn, oldTurn>>
vars == <<open, server, takeover, stoppedByUser, served, turn,
          oldTurn, pc, rotating, tok, bound, token, minted, events>>

-----------------------------------------------------------------------------
Control == {"idle", "token", "mint", "build", "listening", "standby",
            "discovery", "rotate", "restart"}

TypeOK ==
    /\ open \in [Windows -> BOOLEAN]
    /\ server \in [Windows -> BOOLEAN]
    /\ takeover \in [Windows -> BOOLEAN]
    /\ stoppedByUser \in [Windows -> BOOLEAN]
    /\ turn \in [Windows -> BOOLEAN]
    /\ oldTurn \in [Windows -> BOOLEAN]
    /\ served \in [Windows -> 0 .. minted]
    /\ pc \in [Calls -> Control]
    /\ rotating \in [Calls -> BOOLEAN]
    /\ tok \in [Calls -> 0 .. minted]
    /\ bound \in Windows \cup {NoWindow}
    /\ minted \in Nat /\ token \in 0 .. minted
    /\ events \in 0 .. MaxEvents

Init ==
    /\ open = [w \in Windows |-> TRUE]
    /\ server = [w \in Windows |-> FALSE]
    /\ takeover = [w \in Windows |-> FALSE]
    /\ stoppedByUser = [w \in Windows |-> FALSE]
    /\ served = [w \in Windows |-> 0]
    /\ turn = [w \in Windows |-> FALSE]
    /\ oldTurn = [w \in Windows |-> FALSE]
    /\ pc = [c \in Calls |-> "idle"]
    /\ rotating = [c \in Calls |-> FALSE]
    /\ tok = [c \in Calls |-> 0]
    /\ bound = NoWindow
    /\ token = 0 /\ minted = 0
    /\ events = 0

-----------------------------------------------------------------------------
Goto(c, label) == pc' = [pc EXCEPT ![c] = label]

Put(f, w, x) == f' = [f EXCEPT ![w] = x]

\* A call returns and its locals are gone.
Done(c) == Goto(c, "idle") /\ Put(rotating, c, FALSE) /\ Put(tok, c, 0)

\* The slot the next call of its window takes.
IsFree(c) ==
    /\ pc[c] = "idle"
    /\ c = CHOOSE d \in Calls : WindowOf[d] = WindowOf[c] /\ pc[d] = "idle"

\* A command or a turn of the user, a window that closes or opens, a call that
\* fails: bounded.
Event == events < MaxEvents /\ events' = events + 1

-----------------------------------------------------------------------------
(* start.                                                                  *)

\* Up to the first await.  A controller with a server returns at once, which
\* changes nothing and is not a step.
EnterStart(c) ==
    LET w == WindowOf[c] IN
    /\ open[w] /\ IsFree(c) /\ ~server[w]
    /\ Put(stoppedByUser, w, FALSE)
    /\ Goto(c, "token")
    /\ UNCHANGED <<open, server, served, turn, oldTurn,
                   rotating, tok, bound, token, minted>>

\* The Start command, and pairing(), which starts the gateway first.
CommandStart(c) == EnterStart(c) /\ Event /\ UNCHANGED takeover

\* The interval of 15 seconds: start again, or notice that we serve.
TakeoverTick(c) ==
    /\ takeover[WindowOf[c]]
    /\ EnterStart(c)
    /\ UNCHANGED <<takeover, events>>

TakeoverCleared(w) ==
    /\ takeover[w] /\ server[w]
    /\ Put(takeover, w, FALSE)
    /\ UNCHANGED <<open, server, stoppedByUser, served, turn,
                   oldTurn, pc, rotating, tok, bound, token, minted, events>>

\* The interval of 30 seconds, and activation, which starts without asking.
HealthTick(c) ==
    LET w == WindowOf[c] IN
    /\ ~takeover[w] /\ ~stoppedByUser[w]
    /\ EnterStart(c)
    /\ UNCHANGED <<takeover, events>>

\* getOrCreateToken reads the secret storage, and makes a token if none is
\* there: another window may have made one meanwhile.
ReadToken(c) ==
    /\ pc[c] = "token"
    /\ IF token = 0
       THEN Goto(c, "mint") /\ UNCHANGED tok
       ELSE Goto(c, "build") /\ Put(tok, c, token)
    /\ UNCHANGED <<controllers, rotating, bound, token, minted, events>>

StoreFresh == minted' = minted + 1 /\ token' = minted + 1

\* Mutant of MintToken: the token is handed out before it is stored.
MintWithoutStoring(c) ==
    /\ pc[c] = "mint"
    /\ Put(tok, c, minted + 1)
    /\ Goto(c, "build")
    /\ UNCHANGED <<controllers, rotating, bound, token, minted, events>>

MintToken(c) ==
    /\ pc[c] = "mint"
    /\ StoreFresh
    /\ Put(tok, c, minted + 1)
    /\ Goto(c, "build")
    /\ UNCHANGED <<controllers, rotating, bound, events>>

\* Mutant of BuildAndBind: the socket shares the port instead of failing.
BuildAndShare(c) ==
    /\ pc[c] = "build"
    /\ bound' = WindowOf[c] /\ Goto(c, "listening")
    /\ UNCHANGED <<controllers, rotating, tok, token, minted, events>>

\* A new GatewayCore and a server for it, which tries to bind the port.
\* this.server is not looked at again.
BuildAndBind(c) ==
    /\ pc[c] = "build"
    /\ IF bound = NoWindow
       THEN bound' = WindowOf[c] /\ Goto(c, "listening")
       ELSE UNCHANGED bound /\ Goto(c, "standby")
    /\ UNCHANGED <<controllers, rotating, tok, token, minted, events>>

\* Whatever happened to the controller since, the server is its server now.
\* The turns of the GatewayCore before this one run on.
Listening(c) ==
    LET w == WindowOf[c] IN
    /\ pc[c] = "listening"
    /\ Put(server, w, TRUE)
    /\ Put(served, w, tok[c])
    /\ Put(oldTurn, w, oldTurn[w] \/ turn[w]) /\ Put(turn, w, FALSE)
    /\ Goto(c, "discovery")
    /\ UNCHANGED <<open, takeover, stoppedByUser, rotating, tok,
                   bound, token, minted, events>>

\* startDiscovery awaits the UDP socket; its failure is logged, no more.
DiscoveryReady(c) ==
    /\ pc[c] = "discovery"
    /\ Done(c)
    /\ UNCHANGED <<open, server, takeover, stoppedByUser, served, turn,
                   oldTurn, bound, token, minted, events>>

\* EADDRINUSE: the catch stops the server that never listened; after its await
\* the window stands by, unless it serves by now.
StandBy(c) ==
    LET w == WindowOf[c] IN
    /\ pc[c] = "standby"
    /\ Put(takeover, w, takeover[w] \/ ~server[w])
    /\ Done(c)
    /\ UNCHANGED <<open, server, stoppedByUser, served, turn,
                   oldTurn, bound, token, minted, events>>

\* Any other failure to bind: the status bar says so.  The timers stay as they
\* are, and stoppedByUser too.
BindFails(c) ==
    /\ pc[c] = "build" /\ Event
    /\ Done(c)
    /\ UNCHANGED <<controllers, bound, token, minted>>

\* The awaits of the secret storage, outside of start's try.
SecretCalls == {"token", "mint", "rotate"}

\* The secret storage rejects: so does the call, where it stands.
SecretsReject(c) ==
    /\ pc[c] \in SecretCalls /\ Event
    /\ Done(c)
    /\ UNCHANGED <<controllers, bound, token, minted>>

-----------------------------------------------------------------------------
(* stop and disconnectAll.                                                 *)

\* Mutant of StopNow: the controller forgets its server and leaves it open.
StopForgets(w) ==
    /\ Put(takeover, w, FALSE)
    /\ Put(server, w, FALSE) /\ Put(served, w, 0)
    /\ UNCHANGED <<open, turn, oldTurn, tok, bound>>

\* The first stretch of stop; after its await only the status bar changes.
\* The sockets of the phones close, the turns they started do not.
StopNow(w) ==
    /\ Put(takeover, w, FALSE)
    /\ Put(server, w, FALSE) /\ Put(served, w, 0)
    /\ bound' = IF server[w] THEN NoWindow ELSE bound
    /\ UNCHANGED <<open, turn, oldTurn, tok>>

CommandStop(w) ==
    /\ open[w] /\ Event
    /\ StopNow(w)
    /\ Put(stoppedByUser, w, TRUE)
    /\ UNCHANGED <<pc, rotating, token, minted>>

CommandDisconnectAll(c) ==
    /\ open[WindowOf[c]] /\ IsFree(c) /\ Event
    /\ StopNow(WindowOf[c])
    /\ Goto(c, "rotate") /\ Put(rotating, c, TRUE)
    /\ UNCHANGED <<stoppedByUser, token, minted>>

RotateToken(c) ==
    /\ pc[c] = "rotate"
    /\ StoreFresh
    /\ Goto(c, "restart")
    /\ UNCHANGED <<controllers, rotating, tok, bound, events>>

Restart(c) ==
    LET w == WindowOf[c] IN
    /\ pc[c] = "restart"
    /\ IF server[w]
       THEN Done(c) /\ UNCHANGED stoppedByUser
       ELSE /\ Goto(c, "token") /\ Put(stoppedByUser, w, FALSE)
            /\ UNCHANGED <<rotating, tok>>
    /\ UNCHANGED <<open, server, takeover, served, turn,
                   oldTurn, bound, token, minted, events>>

-----------------------------------------------------------------------------
(* Windows and turns.                                                      *)

\* The extension host exits: its sockets, timers, calls and turns with it.
WindowCloses(w) ==
    /\ open[w] /\ Event
    /\ Put(open, w, FALSE)
    /\ Put(server, w, FALSE)
    /\ Put(takeover, w, FALSE)
    /\ Put(stoppedByUser, w, FALSE) /\ Put(served, w, 0)
    /\ Put(turn, w, FALSE) /\ Put(oldTurn, w, FALSE)
    /\ pc' = [c \in Calls |-> IF WindowOf[c] = w THEN "idle" ELSE pc[c]]
    /\ rotating' = [c \in Calls |-> WindowOf[c] # w /\ rotating[c]]
    /\ tok' = [c \in Calls |-> IF WindowOf[c] = w THEN 0 ELSE tok[c]]
    /\ bound' = IF bound = w THEN NoWindow ELSE bound
    /\ UNCHANGED <<token, minted>>

\* A window opens, or reloads after an update of the extension.
WindowOpens(w) ==
    /\ ~open[w] /\ Event
    /\ Put(open, w, TRUE)
    /\ UNCHANGED <<server, takeover, stoppedByUser, served,
                   turn, oldTurn, pc, rotating, tok, bound, token, minted>>

\* A turn on the session of interest: the registry of the serving core
\* admits one, whatever turns an earlier core has.
TurnBegins(w) ==
    /\ server[w] /\ ~turn[w] /\ Event
    /\ Put(turn, w, TRUE)
    /\ UNCHANGED <<open, server, takeover, stoppedByUser,
                   served, oldTurn, pc, rotating, tok, bound, token, minted>>

TurnFinishes(w) ==
    /\ \/ turn[w] /\ Put(turn, w, FALSE) /\ UNCHANGED oldTurn
       \/ oldTurn[w] /\ Put(oldTurn, w, FALSE) /\ UNCHANGED turn
    /\ UNCHANGED <<open, server, takeover, stoppedByUser,
                   served, pc, rotating, tok, bound, token, minted, events>>

CallStep(c) ==
    \/ ReadToken(c) \/ MintToken(c) \/ BuildAndBind(c) \/ Listening(c)
    \/ DiscoveryReady(c) \/ StandBy(c)
    \/ RotateToken(c) \/ Restart(c)

Timers(w) ==
    \/ TakeoverCleared(w)
    \/ \E c \in Calls : WindowOf[c] = w /\ (TakeoverTick(c) \/ HealthTick(c))

Next ==
    \/ \E c \in Calls : \/ CallStep(c) \/ BindFails(c) \/ SecretsReject(c)
                      \/ CommandStart(c) \/ CommandDisconnectAll(c)
    \/ \E w \in Windows :
         \/ Timers(w) \/ CommandStop(w) \/ WindowCloses(w) \/ WindowOpens(w)
         \/ TurnBegins(w) \/ TurnFinishes(w)

Spec == Init /\ [][Next]_vars

\* Awaited calls of VS Code and of node end, and intervals keep firing.
FairSpec ==
    /\ Spec
    /\ \A c \in Calls : WF_vars(CallStep(c))
    /\ \A w \in Windows : WF_vars(Timers(w))

-----------------------------------------------------------------------------
(* Properties.                                                             *)

\* A window that says it runs the gateway owns the machine's port, so one
\* window serves and the others stand by, in every interleaving of starts,
\* stops and takeovers.
ServingOwnsPort == \A w \in Windows : server[w] => bound = w

\* No listening socket is out of its controller's reach: stop closes it, or a
\* start under way will put it where stop finds it.
PortHasOwner ==
    \A w \in Windows :
      bound = w => /\ open[w]
                   /\ \/ server[w]
                      \/ \E c \in Calls : WindowOf[c] = w /\ pc[c] = "listening"


\* An explicit stop is not undone: the window serves again only after the
\* user, or disconnectAll, has started it.
StopHolds == \A w \in Windows : stoppedByUser[w] => ~server[w]

\* When disconnectAll reports that the token was rotated (it does not when the
\* secret storage rejects), whoever serves this machine accepts the new token
\* and no other.
RotationReachesServer ==
    [][\A c \in Calls :
         rotating[c] /\ ~rotating'[c] /\ open'[WindowOf[c]] /\ pc[c] \notin SecretCalls
           => \A w \in Windows : server'[w] => served'[w] = token']_vars

\* One turn at a time on a session, across restarts of the gateway too.
OneTurnAcrossCores ==
    Cardinality({w \in Windows : turn[w]}) + Cardinality({w \in Windows : oldTurn[w]}) <= 1
=============================================================================
