------------------------------ MODULE PhoneClient ------------------------------
(***************************************************************************)
(* BridgeRepository of the Android app over its sockets: one open chat,    *)
(* one flag that a message is under way, the prompts of all machines.  The *)
(* machines are external: each answers what the phone asked it, on the     *)
(* socket it was asked on.  The screen is described by what it shows:      *)
(* items are "local", the user's own, or the session they are of; a prompt *)
(* is on the screen as long as it can be answered there.  A machine has    *)
(* one provider, so that newChatProvider always fits a new session, and    *)
(* the list of sessions is a set.                                          *)
(***************************************************************************)
EXTENDS PhoneSockets, Sequences, SequencesExt

CONSTANTS
    Sessions, HostOf,   \* the sessions, and the machine of each
    Prompts, AskedIn,   \* the prompts, each raised once, and their sessions
    MaxWire,            \* bound: messages on their way on a socket
    MaxLocal            \* bound: messages the user sends

ASSUME ChatAssumption ==
    /\ HostOf \in [Sessions -> Hosts]
    /\ AskedIn \in [Prompts -> Sessions]
    /\ None \notin Sessions \cup Hosts
    /\ {"local", "new", "list"} \cap Sessions = {}
    /\ MaxWire \in Nat /\ MaxLocal \in Nat

VARIABLES
    listed,      \* sessions: those in the list
    selected,    \* selectedSession, or None
    newChat,     \* newChatHostId, or None
    timeline,    \* the items of the open chat
    approvals,   \* the prompts the open chat offers
    pending,     \* the prompts of all machines, for the notifications
    sending,
    wire,        \* what the machine has said on a socket and the app not read
    asked,       \* what it was asked there: snapshots, or "list"
    turns,       \* the turns whose end the app has not read on that socket:
                 \* sessions, or "new"
    existing,    \* the sessions there are
    raisedOn,    \* the socket a prompt was raised on, or None
    waiting,     \* the prompts that wait for an answer
    sent         \* messages sent so far

chat == <<listed, selected, newChat, timeline, approvals, pending, sending>>
machines == <<asked, turns, existing, raisedOn, waiting>>
vars == <<network, chat, wire, machines, sent>>

Event(type, about) == [type |-> type, about |-> about]
Error == Event("error", None)
SessionsOf(h) == {s \in Sessions : HostOf[s] = h}
PromptsOf(h) == {p \in Prompts : HostOf[AskedIn[p]] = h}

\* What a machine says is about its own.
MessagesOf(h) ==
    [type : {"sessions"}, about : SUBSET SessionsOf(h)]
        \cup [type : {"session.snapshot", "session.new", "item"}, about : SessionsOf(h)]
        \cup [type : {"approval.request", "approval.resolved"}, about : PromptsOf(h)]
        \cup [type : {"turn.end"}, about : SessionsOf(h) \cup {"new"}]
        \cup {Error}

TypeOK ==
    /\ SocketsOK
    /\ listed \subseteq Sessions /\ existing \subseteq Sessions
    /\ selected \in Sessions \cup {None} /\ newChat \in Hosts \cup {None}
    /\ selected = None \/ newChat = None
    /\ timeline \subseteq Sessions \cup {"local"}
    /\ approvals \subseteq Prompts /\ pending \subseteq Prompts
    /\ sending \in BOOLEAN /\ sent \in Nat
    /\ wire \in [Sockets -> Seq(UNION {MessagesOf(h) : h \in Hosts})]
    /\ asked \in [Sockets -> SUBSET (Sessions \cup {"list"})]
    /\ turns \in [Sockets -> SUBSET (Sessions \cup {"new"})]
    /\ \A c \in Sockets :
        /\ wire[c] \in Seq(MessagesOf(Machine[c]))
        /\ asked[c] \subseteq SessionsOf(Machine[c]) \cup {"list"}
        /\ turns[c] \subseteq SessionsOf(Machine[c]) \cup {"new"}
    /\ raisedOn \in [Prompts -> Sockets \cup {None}] /\ waiting \subseteq Prompts
    /\ \A p \in Prompts : raisedOn[p] # None => p \in PromptsOf(Machine[raisedOn[p]])
    /\ \A p \in waiting : raisedOn[p] # None

Init ==
    /\ SocketsInit
    /\ listed = {} /\ selected = None /\ newChat = None /\ timeline = {}
    /\ approvals = {} /\ pending = {} /\ sending = FALSE
    /\ wire = [c \in Sockets |-> <<>>] /\ asked = [c \in Sockets |-> {}]
    /\ turns = [c \in Sockets |-> {}] /\ existing \in SUBSET Sessions
    /\ raisedOn = [p \in Prompts |-> None] /\ waiting = {} /\ sent = 0

\* The machine of the open chat, from which hostId is compared.
OpenHost == IF selected # None THEN HostOf[selected] ELSE newChat

-----------------------------------------------------------------------------
(* Requests: send of the client, on the current socket of a machine.  What *)
(* is said before the authentication is refused, and what a socket takes   *)
(* that will not carry it is lost; the app learns of neither.              *)

Reaches(h) == sockets[h] # None /\ phase[sockets[h]] \in {"opening", "waiting", "open"}
Early(h) == sockets[h] # None /\ phase[sockets[h]] \in {"opening", "waiting"}
Loses(h) == ~Reaches(h)

\* w: what is on the wires when the request is made.
Refused(h, w) ==
    /\ Early(h) /\ Len(w[sockets[h]]) < MaxWire
    /\ wire' = [w EXCEPT ![sockets[h]] = Append(@, Error)]

Asks(h, what, w) ==
    \/ /\ Reaches(h)
       /\ asked' = [asked EXCEPT ![sockets[h]] = @ \cup {what}] /\ wire' = w
    \/ Refused(h, w) /\ UNCHANGED asked
    \/ Loses(h) /\ wire' = w /\ UNCHANGED asked

RequestSnapshot(s, w) == Asks(HostOf[s], s, w)

-----------------------------------------------------------------------------
(* Sockets.                                                                *)

Connects ==
    /\ ReconnectIfNeeded \/ Reconnect \/ \E h \in Hosts : Pair(h)
    /\ UNCHANGED <<chat, wire, machines, sent>>

\* forgetHost, on the pairing screen, which covers every other one but is not
\* reached with a new chat open.
ForgetHost(h) ==
    /\ Forget(h) /\ newChat = None
    /\ listed' = listed \ SessionsOf(h)
    /\ pending' = pending \ PromptsOf(h)
    /\ IF OpenHost = h THEN selected' = None /\ timeline' = {}
                       ELSE UNCHANGED <<selected, timeline>>
    /\ UNCHANGED <<newChat, approvals, sending, wire, machines, sent>>

OnOpen(c) == Opened(c) /\ UNCHANGED <<chat, wire, machines, sent>>

\* The answers to what came before the authentication came before this one.
\* The list is requested on the same socket, if it is not closed.
OnReady(c) ==
    /\ Accepted(c) /\ wire[c] = <<>>
    /\ \/ asked' = [asked EXCEPT ![c] = @ \cup {"list"}]
       \/ ~Current(c) /\ UNCHANGED asked
    /\ UNCHANGED <<chat, wire, turns, existing, raisedOn, waiting, sent>>

\* A peer that rejects the authentication, or has no host, says so first.
PeerRejects(c) ==
    /\ Rejected(c) /\ Len(wire[c]) < MaxWire
    /\ wire' = [wire EXCEPT ![c] = Append(@, Error)]
    /\ UNCHANGED <<chat, machines, sent>>

\* With a socket goes what it carried.
Drops(c) ==
    /\ wire' = [wire EXCEPT ![c] = <<>>]
    /\ asked' = [asked EXCEPT ![c] = {}]
    /\ turns' = [turns EXCEPT ![c] = {}]
    /\ UNCHANGED <<existing, raisedOn, waiting, sent>>

\* A failure is also reported as an error.
OnFailure(c) ==
    /\ Ended(c) /\ Drops(c)
    /\ sending' = FALSE
    /\ UNCHANGED <<listed, selected, newChat, timeline, approvals, pending>>

OnClosed(c) ==
    /\ ~Current(c) /\ wire[c] = <<>>
    /\ Ended(c) /\ Drops(c)
    /\ UNCHANGED chat

-----------------------------------------------------------------------------
(* The user.                                                               *)

\* Mutant of Select: a new chat that was begun stays open behind the session.
SelectKeepsNewChat(s) ==
    /\ s \in listed
    /\ selected' = s
    /\ timeline' = {} /\ approvals' = {}
    /\ RequestSnapshot(s, wire)
    /\ UNCHANGED <<network, listed, newChat, pending, sending, turns, existing,
                   raisedOn, waiting, sent>>

\* From the list, or by a notification whose session is listed.
Select(s) ==
    /\ s \in listed
    /\ selected' = s /\ newChat' = None
    /\ timeline' = {} /\ approvals' = {}
    /\ RequestSnapshot(s, wire)
    /\ UNCHANGED <<network, listed, pending, sending, turns, existing, raisedOn,
                   waiting, sent>>

StartNewChat(h) ==
    /\ h \in paired /\ connection[h] = "connected" /\ OpenHost = None
    /\ selected' = None /\ newChat' = h
    /\ timeline' = {} /\ approvals' = {} /\ sending' = FALSE
    /\ UNCHANGED <<network, listed, pending, wire, machines, sent>>

CloseTimeline ==
    /\ OpenHost # None
    /\ selected' = None /\ newChat' = None /\ timeline' = {}
    /\ UNCHANGED <<network, listed, approvals, pending, sending, wire, machines,
                   sent>>

\* The poller of the open chat, every five seconds.
RefreshTimeline ==
    /\ selected # None
    /\ connection[HostOf[selected]] = "connected"
    /\ RequestSnapshot(selected, wire)
    /\ UNCHANGED <<network, chat, turns, existing, raisedOn, waiting, sent>>

\* The list asks every machine again; one request at a time.
Refresh(h) ==
    /\ sockets[h] # None
    /\ Asks(h, "list", wire)
    /\ UNCHANGED <<network, chat, turns, existing, raisedOn, waiting, sent>>

SendMessage ==
    /\ OpenHost # None /\ ~sending /\ sent < MaxLocal
    /\ sent' = sent + 1
    /\ sending' = TRUE /\ timeline' = timeline \cup {"local"}
    /\ LET h == OpenHost
           about == IF selected # None THEN selected ELSE "new"
       IN  \/ /\ Reaches(h)
              /\ turns' = [turns EXCEPT ![sockets[h]] = @ \cup {about}]
              /\ UNCHANGED wire
           \/ Refused(h, wire) /\ UNCHANGED turns
           \/ Loses(h) /\ UNCHANGED <<wire, turns>>
    /\ UNCHANGED <<network, listed, selected, newChat, approvals, pending, asked,
                   existing, raisedOn, waiting>>

\* The answer goes to the machine of the open chat; that the prompt is settled
\* there is MachineSettles.
RespondToApproval(p) ==
    /\ p \in approvals /\ OpenHost # None
    /\ approvals' = approvals \ {p} /\ pending' = pending \ {p}
    /\ UNCHANGED <<network, listed, selected, newChat, timeline, sending, wire,
                   machines, sent>>

-----------------------------------------------------------------------------
(* The machines.                                                           *)

Says(c, event) ==
    /\ phase[c] = "open" /\ Len(wire[c]) < MaxWire
    /\ wire' = [wire EXCEPT ![c] = Append(@, event)]
    /\ UNCHANGED <<network, chat, turns, sent>>

\* The app has not read the end of the turn, but it may be on its way.
Runs(c, about) ==
    /\ about \in turns[c]
    /\ Event("turn.end", about) \notin ToSet(wire[c])

MachineLists(c) ==
    /\ "list" \in asked[c]
    /\ Says(c, Event("sessions", existing \cap SessionsOf(Machine[c])))
    /\ asked' = [asked EXCEPT ![c] = @ \ {"list"}]
    /\ UNCHANGED <<existing, raisedOn, waiting>>

MachineReads(c, s) ==
    /\ s \in asked[c]
    /\ Says(c, Event("session.snapshot", s)) \/ Says(c, Error)
    /\ asked' = [asked EXCEPT ![c] = @ \ {s}]
    /\ UNCHANGED <<existing, raisedOn, waiting>>

MachineCreates(c, s) ==
    /\ Runs(c, "new") /\ s \in SessionsOf(Machine[c]) \ existing
    /\ \A i \in DOMAIN wire[c] : wire[c][i].type # "session.new"
    /\ Says(c, Event("session.new", s))
    /\ existing' = existing \cup {s}
    /\ UNCHANGED <<asked, raisedOn, waiting>>

MachineItem(c, s) ==
    /\ Runs(c, s)
    /\ Says(c, Event("item", s))
    /\ UNCHANGED <<asked, existing, raisedOn, waiting>>

\* A conflict or a failure comes before the end of the turn.
MachineFails(c, about) ==
    /\ Runs(c, about)
    /\ Says(c, Error)
    /\ UNCHANGED <<asked, existing, raisedOn, waiting>>

\* A turn outlives its prompts.
MachineEnds(c, about) ==
    /\ Runs(c, about)
    /\ \A p \in waiting : raisedOn[p] = c => AskedIn[p] # about
    /\ \A i \in DOMAIN wire[c] : wire[c][i].type # "session.new"
    /\ Says(c, Event("turn.end", about))
    /\ UNCHANGED <<asked, existing, raisedOn, waiting>>

MachineAsks(c, p) ==
    /\ Runs(c, AskedIn[p]) /\ raisedOn[p] = None
    /\ Says(c, Event("approval.request", p))
    /\ raisedOn' = [raisedOn EXCEPT ![p] = c]
    /\ waiting' = waiting \cup {p}
    /\ UNCHANGED <<asked, existing>>

\* A prompt was answered, timed out or aborted: the phone is told on the socket
\* of its turn, if there still is one.
MachineSettles(p) ==
    /\ p \in waiting
    /\ waiting' = waiting \ {p}
    /\ LET c == raisedOn[p]
       IN  IF phase[c] = "open" THEN Says(c, Event("approval.resolved", p))
           ELSE UNCHANGED <<network, chat, turns, wire, sent>>
    /\ UNCHANGED <<asked, existing, raisedOn>>

-----------------------------------------------------------------------------
(* onMessage: handle of the client, and the listener of the repository.    *)

Hears(c, type) ==
    /\ phase[c] \in {"waiting", "open", "rejected"}
    /\ wire[c] # <<>> /\ Head(wire[c]).type = type
About(c) == Head(wire[c]).about
Rest(c) == [wire EXCEPT ![c] = Tail(@)]
Read(c) == wire' = Rest(c) /\ UNCHANGED <<network, existing, raisedOn, waiting, sent>>

OnSessions(c) ==
    /\ Hears(c, "sessions") /\ Read(c)
    /\ listed' = (listed \ SessionsOf(Machine[c])) \cup About(c)
    /\ UNCHANGED <<selected, newChat, timeline, approvals, pending, sending, asked,
                   turns>>

\* "While our own turn is in flight, keep the optimistic timeline."
OnSnapshot(c) ==
    /\ Hears(c, "session.snapshot") /\ Read(c)
    /\ timeline' = IF selected = About(c) /\ ~sending THEN {About(c)} ELSE timeline
    /\ UNCHANGED <<listed, selected, newChat, approvals, pending, sending, asked,
                   turns>>

OnSessionCreated(c) ==
    /\ Hears(c, "session.new") /\ Read(c)
    /\ IF newChat = Machine[c]
       THEN /\ selected' = About(c) /\ newChat' = None
            /\ listed' = listed \cup {About(c)}
       ELSE UNCHANGED <<selected, newChat, listed>>
    /\ turns' = [turns EXCEPT ![c] = (@ \ {"new"}) \cup {About(c)}]
    /\ UNCHANGED <<timeline, approvals, pending, sending, asked>>

\* Prompts are told apart by machine, not by session.
OnApproval(c) ==
    /\ Hears(c, "approval.request") /\ Read(c)
    /\ pending' = pending \cup {About(c)}
    /\ approvals' = IF OpenHost = Machine[c] THEN approvals \cup {About(c)}
                                             ELSE approvals
    /\ UNCHANGED <<listed, selected, newChat, timeline, sending, asked, turns>>

\* Mutant of OnResolved: the prompt stays in the open chat.
OnResolvedOffScreen(c) ==
    /\ Hears(c, "approval.resolved") /\ Read(c)
    /\ pending' = pending \ {About(c)}
    /\ UNCHANGED <<listed, selected, newChat, timeline, approvals, sending, asked,
                   turns>>

OnResolved(c) ==
    /\ Hears(c, "approval.resolved") /\ Read(c)
    /\ pending' = pending \ {About(c)}
    /\ approvals' = IF OpenHost = Machine[c] THEN approvals \ {About(c)}
                                             ELSE approvals
    /\ UNCHANGED <<listed, selected, newChat, timeline, sending, asked, turns>>

\* Mutant of OnTurnItem: an item is shown whichever machine it is of.
OnTurnItemAnywhere(c) ==
    /\ Hears(c, "item") /\ Read(c)
    /\ timeline' = IF OpenHost # None THEN timeline \cup {About(c)} ELSE timeline
    /\ UNCHANGED <<listed, selected, newChat, approvals, pending, sending, asked,
                   turns>>

OnTurnItem(c) ==
    /\ Hears(c, "item") /\ Read(c)
    /\ timeline' = IF OpenHost = Machine[c] THEN timeline \cup {About(c)}
                                            ELSE timeline
    /\ UNCHANGED <<listed, selected, newChat, approvals, pending, sending, asked,
                   turns>>

\* Whatever chat the turn belonged to; the open one is read again.
OnTurnEnd(c) ==
    /\ Hears(c, "turn.end")
    /\ sending' = FALSE
    /\ turns' = [turns EXCEPT ![c] = @ \ {About(c)}]
    /\ IF selected # None /\ HostOf[selected] = Machine[c]
       THEN RequestSnapshot(selected, Rest(c))
       ELSE wire' = Rest(c) /\ UNCHANGED asked
    /\ UNCHANGED <<network, listed, selected, newChat, timeline, approvals, pending,
                   existing, raisedOn, waiting, sent>>

\* Any error ends the wait for the answer.
OnError(c) ==
    /\ Hears(c, "error") /\ Read(c)
    /\ sending' = FALSE
    /\ UNCHANGED <<listed, selected, newChat, timeline, approvals, pending, asked,
                   turns>>

Callback(c) ==
    \/ OnOpen(c) \/ OnReady(c) \/ OnFailure(c) \/ OnClosed(c)
    \/ OnSessions(c) \/ OnSnapshot(c) \/ OnSessionCreated(c) \/ OnApproval(c)
    \/ OnResolved(c) \/ OnTurnItem(c) \/ OnTurnEnd(c) \/ OnError(c)

User ==
    \/ Connects
    \/ \E h \in Hosts : ForgetHost(h) \/ StartNewChat(h) \/ Refresh(h)
    \/ \E s \in Sessions : Select(s)
    \/ CloseTimeline \/ RefreshTimeline \/ SendMessage
    \/ \E p \in Prompts : RespondToApproval(p)

Peer ==
    \/ \E c \in Sockets :
        \/ PeerRejects(c) \/ MachineLists(c)
        \/ \E s \in Sessions :
            MachineReads(c, s) \/ MachineCreates(c, s) \/ MachineItem(c, s)
        \/ \E about \in Sessions \cup {"new"} :
            MachineFails(c, about) \/ MachineEnds(c, about)
        \/ \E p \in Prompts : MachineAsks(c, p)
    \/ \E p \in Prompts : MachineSettles(p)

Next == (\E c \in Sockets : Callback(c)) \/ User \/ Peer

Spec == Init /\ [][Next]_vars

-----------------------------------------------------------------------------
PromptsOfOpenHost == OpenHost # None => approvals \subseteq PromptsOf(OpenHost)

ItemsOfOpenHost ==
    /\ OpenHost # None => timeline \subseteq SessionsOf(OpenHost) \cup {"local"}
    /\ OpenHost = None => timeline = {}

\* What the open chat shows and offers is of its machine, however late it comes
\* and on whichever socket; the answer to a prompt, which goes to the machine of
\* the open chat, finds the prompt there (onApproval, onTurnItem,
\* respondToApproval).
ChatOfOneHost == PromptsOfOpenHost /\ ItemsOfOpenHost

\* What the open chat offers is notified as well: a prompt that was answered,
\* settled or forgotten in one place is gone in the other.
OfferedIsPending == OpenHost # None => approvals \subseteq pending
===============================================================================
