--------------------------- MODULE PhoneClientProofs ---------------------------
(***************************************************************************)
(* Proofs about the phone, for any machines, sockets, sessions and         *)
(* prompts, however the callbacks of current, replaced and forgotten       *)
(* sockets interleave.  The invariants of the runs are inductive together, *)
(* because TypeOK says of every message on its way that it is about the    *)
(* machine of its socket.                                                  *)
(***************************************************************************)
EXTENDS PhoneClient, TLAPS

IInv ==
    /\ TypeOK /\ NeverStranded
    /\ PromptsOfOpenHost /\ ItemsOfOpenHost /\ OfferedIsPending

-----------------------------------------------------------------------------
(* The sockets.                                                            *)

SocketInv == SocketsOK /\ NeverStranded

LEMMA ConnectStep ==
    ASSUME SocketAssumption, SocketInv, NEW hs \in SUBSET Hosts, ConnectAll(hs),
           paired' \subseteq Hosts
    PROVE  SocketInv'
<1>1. PICK new \in [hs -> {c \in Sockets : phase[c] = "new"}] :
        /\ \A h \in hs : Machine[new[h]] = h
        /\ sockets' = [h \in Hosts |-> IF h \in hs THEN new[h] ELSE sockets[h]]
        /\ phase' = [c \in Sockets |-> IF \E h \in hs : new[h] = c
                                       THEN "opening" ELSE phase[c]]
        /\ connection' = [h \in Hosts |-> IF h \in hs THEN "connecting"
                                          ELSE connection[h]]
  BY DEF ConnectAll
<1>2. \A h \in hs : new[h] \in Sockets /\ phase[new[h]] = "new"
  OBVIOUS
<1>3. sockets' \in [Hosts -> Sockets \cup {None}]
  BY <1>1, <1>2 DEF SocketInv, SocketsOK
<1>4. phase' \in [Sockets -> Phases]
  BY <1>1 DEF SocketInv, SocketsOK, Phases
<1>5. connection' \in [Hosts -> States]
  BY <1>1 DEF SocketInv, SocketsOK, States
<1>6. ASSUME NEW h \in Hosts, sockets'[h] # None
      PROVE  Machine[sockets'[h]] = h
  BY <1>1, <1>6 DEF SocketInv, SocketsOK
<1>7. ASSUME NEW h \in Hosts, connection'[h] = "connected"
      PROVE  \E c \in Sockets : Machine[c] = h /\ Live(c)'
  <2>1. h \notin hs /\ connection[h] = "connected"
    BY <1>1, <1>7
  <2>2. PICK c \in Sockets : Machine[c] = h /\ Live(c)
    BY <2>1 DEF SocketInv, NeverStranded
  <2>3. phase'[c] = phase[c]
    BY <1>1, <1>2, <2>2 DEF Live
  <2> QED BY <2>2, <2>3 DEF Live
<1> QED BY <1>3, <1>4, <1>5, <1>6, <1>7 DEF SocketInv, SocketsOK, NeverStranded

LEMMA ForgetStep ==
    ASSUME SocketAssumption, SocketInv, NEW h \in Hosts, Forget(h)
    PROVE  SocketInv'
<1>1. SocketsOK'
  BY DEF Forget, Shows, SocketInv, SocketsOK, States
<1>2. NeverStranded'
  BY DEF Forget, Shows, SocketInv, SocketsOK, NeverStranded, Live
<1> QED BY <1>1, <1>2 DEF SocketInv

\* A callback or a rejection by the peer moves one socket, whose machine is shown as
\* connected only when the socket is live.
LEMMA CallbackStep ==
    ASSUME SocketAssumption, SocketInv, NEW c \in Sockets,
           Opened(c) \/ Accepted(c) \/ Rejected(c) \/ Ended(c)
    PROVE  SocketInv'
<1>0. Machine[c] \in Hosts
  BY DEF SocketAssumption
<1>1. SocketsOK'
  BY <1>0 DEF SocketInv, SocketsOK, Opened, Accepted, Rejected, Ended, Shows, Passes,
     States, Phases
<1>2. \A d \in Sockets : d # c => (Live(d)' <=> Live(d))
  BY DEF SocketInv, SocketsOK, Opened, Accepted, Rejected, Ended, Passes, Live
<1>3. Ended(c) \/ Live(c)'
  BY DEF SocketInv, SocketsOK, Opened, Accepted, Rejected, Ended, Passes, Live
<1>4. \A h \in Hosts : h # Machine[c] => connection'[h] = connection[h]
  BY <1>0 DEF SocketInv, SocketsOK, Opened, Accepted, Rejected, Ended, Shows
<1>5. Ended(c) => connection'[Machine[c]] = "disconnected"
  BY <1>0 DEF SocketInv, SocketsOK, Ended, Shows
<1>6. NeverStranded'
  <2> SUFFICES ASSUME NEW h \in Hosts, connection'[h] = "connected"
               PROVE  \E d \in Sockets : Machine[d] = h /\ Live(d)'
    BY DEF NeverStranded
  <2>1. CASE h = Machine[c]
    BY <2>1, <1>3, <1>5
  <2>2. CASE h # Machine[c]
    BY <2>2, <1>2, <1>4 DEF SocketInv, NeverStranded
  <2> QED BY <2>1, <2>2
<1> QED BY <1>1, <1>6 DEF SocketInv

-----------------------------------------------------------------------------
(* The messages.                                                           *)

AllMessages == UNION {MessagesOf(h) : h \in Hosts}

\* w is what machines may have said on their sockets.
Own(w) ==
    /\ w \in [Sockets -> Seq(AllMessages)]
    /\ \A c \in Sockets : w[c] \in Seq(MessagesOf(Machine[c]))

LEMMA Said ==
    ASSUME SocketAssumption, ChatAssumption, NEW c \in Sockets
    PROVE  /\ Error \in MessagesOf(Machine[c])
           /\ \A S \in SUBSET SessionsOf(Machine[c]) :
                Event("sessions", S) \in MessagesOf(Machine[c])
           /\ \A s \in SessionsOf(Machine[c]) :
                /\ Event("session.snapshot", s) \in MessagesOf(Machine[c])
                /\ Event("session.new", s) \in MessagesOf(Machine[c])
                /\ Event("item", s) \in MessagesOf(Machine[c])
           /\ \A p \in PromptsOf(Machine[c]) :
                /\ Event("approval.request", p) \in MessagesOf(Machine[c])
                /\ Event("approval.resolved", p) \in MessagesOf(Machine[c])
           /\ \A s \in SessionsOf(Machine[c]) \cup {"new"} :
                Event("turn.end", s) \in MessagesOf(Machine[c])
BY DEF MessagesOf, Event

LEMMA Understood ==
    ASSUME NEW h, NEW e \in MessagesOf(h)
    PROVE  /\ e.type = "sessions" => e.about \subseteq SessionsOf(h)
           /\ e.type \in {"session.snapshot", "session.new", "item"}
                => e.about \in SessionsOf(h)
           /\ e.type \in {"approval.request", "approval.resolved"}
                => e.about \in PromptsOf(h)
BY DEF MessagesOf, Error, Event

LEMMA Longer ==
    ASSUME SocketAssumption, NEW w, Own(w), NEW c \in Sockets,
           NEW e \in MessagesOf(Machine[c])
    PROVE  Own([w EXCEPT ![c] = Append(@, e)])
<1>1. e \in AllMessages
  BY DEF AllMessages, SocketAssumption
<1>2. Append(w[c], e) \in Seq(AllMessages)
  BY <1>1 DEF Own
<1>3. Append(w[c], e) \in Seq(MessagesOf(Machine[c]))
  BY DEF Own
<1> QED BY <1>2, <1>3 DEF Own

LEMMA Shorter ==
    ASSUME NEW w, Own(w), NEW c \in Sockets, w[c] # <<>>
    PROVE  /\ Own([w EXCEPT ![c] = Tail(@)])
           /\ Head(w[c]) \in MessagesOf(Machine[c])
<1>1. Tail(w[c]) \in Seq(AllMessages)
  BY DEF Own
<1>2. Tail(w[c]) \in Seq(MessagesOf(Machine[c])) /\ Head(w[c]) \in MessagesOf(Machine[c])
  BY DEF Own
<1> QED BY <1>1, <1>2 DEF Own

-----------------------------------------------------------------------------
(* The parts of the type invariant.                                        *)

ScreenOK ==
    /\ listed \subseteq Sessions /\ existing \subseteq Sessions
    /\ selected \in Sessions \cup {None} /\ newChat \in Hosts \cup {None}
    /\ selected = None \/ newChat = None
    /\ timeline \subseteq Sessions \cup {"local"}
    /\ approvals \subseteq Prompts /\ pending \subseteq Prompts
    /\ sending \in BOOLEAN /\ sent \in Nat

AskedOK ==
    /\ asked \in [Sockets -> SUBSET (Sessions \cup {"list"})]
    /\ \A c \in Sockets : asked[c] \subseteq SessionsOf(Machine[c]) \cup {"list"}

TurnsOK ==
    /\ turns \in [Sockets -> SUBSET (Sessions \cup {"new"})]
    /\ \A c \in Sockets : turns[c] \subseteq SessionsOf(Machine[c]) \cup {"new"}

RaisedOK ==
    /\ raisedOn \in [Prompts -> Sockets \cup {None}] /\ waiting \subseteq Prompts
    /\ \A p \in Prompts : raisedOn[p] # None => p \in PromptsOf(Machine[raisedOn[p]])
    /\ \A p \in waiting : raisedOn[p] # None

LEMMA TypeParts ==
    TypeOK <=> SocketsOK /\ ScreenOK /\ Own(wire) /\ AskedOK /\ TurnsOK /\ RaisedOK
BY DEF TypeOK, ScreenOK, Own, AllMessages, AskedOK, TurnsOK, RaisedOK

LEMMA TypePartsNext ==
    TypeOK' <=> SocketsOK' /\ ScreenOK' /\ Own(wire)' /\ AskedOK' /\ TurnsOK' /\ RaisedOK'
BY TypeParts, PTL

-----------------------------------------------------------------------------
(* Each part is kept by every step.                                        *)

LEMMA SocketStep ==
    ASSUME SocketAssumption, SocketInv, [Next]_vars
    PROVE  SocketInv'
<1>1. CASE UNCHANGED network
  BY <1>1 DEF SocketInv, SocketsOK, NeverStranded, Live, network
<1>2. CASE Connects
  <2>1. SUFFICES ASSUME ReconnectIfNeeded \/ Reconnect \/ \E h \in Hosts : Pair(h)
                 PROVE  SocketInv'
    BY <1>2 DEF Connects
  <2>2. CASE ReconnectIfNeeded
    BY <2>2, ConnectStep DEF ReconnectIfNeeded, Down, SocketInv, SocketsOK
  <2>3. CASE Reconnect
    BY <2>3, ConnectStep DEF Reconnect, SocketInv, SocketsOK
  <2>4. CASE \E h \in Hosts : Pair(h)
    BY <2>4, ConnectStep DEF Pair, SocketInv, SocketsOK
  <2> QED BY <2>1, <2>2, <2>3, <2>4
<1>3. ASSUME NEW h \in Hosts, ForgetHost(h) PROVE SocketInv'
  BY <1>3, ForgetStep DEF ForgetHost
<1>4. ASSUME NEW c \in Sockets, Callback(c) PROVE SocketInv'
  <2>1. Opened(c) \/ Accepted(c) \/ Ended(c) \/ UNCHANGED network
    BY <1>4 DEF Callback, OnOpen, OnReady, OnFailure, OnClosed, OnSessions, OnSnapshot,
       OnSessionCreated, OnApproval, OnResolved, OnTurnItem, OnTurnEnd, OnError, Read
  <2> QED BY <1>1, <2>1, CallbackStep
<1>5. CASE User
  <2>1. Connects \/ (\E h \in Hosts : ForgetHost(h)) \/ UNCHANGED network
    BY <1>5 DEF User, StartNewChat, Refresh, Select, CloseTimeline, RefreshTimeline,
       SendMessage, RespondToApproval
  <2> QED BY <1>1, <1>2, <1>3, <2>1
<1>6. CASE Peer
  <2>1. (\E c \in Sockets : Rejected(c)) \/ UNCHANGED network
    BY <1>6 DEF Peer, PeerRejects, MachineLists, MachineReads, MachineCreates, MachineItem,
       MachineFails, MachineEnds, MachineAsks, MachineSettles, Says
  <2> QED BY <1>1, <2>1, CallbackStep
<1>7. CASE UNCHANGED vars
  BY <1>1, <1>7 DEF vars
<1> QED BY <1>4, <1>5, <1>6, <1>7 DEF Next

\* A request is made on the current socket of the machine it is about, and so is
\* the refusal of one that came too early.
LEMMA AsksStep ==
    ASSUME SocketAssumption, ChatAssumption, SocketsOK, AskedOK, NEW w, Own(w),
           NEW h \in Hosts, NEW what \in SessionsOf(h) \cup {"list"}, Asks(h, what, w)
    PROVE  AskedOK' /\ Own(wire')
<1>1. CASE Reaches(h) /\ asked' = [asked EXCEPT ![sockets[h]] = @ \cup {what}] /\ wire' = w
  <2>1. sockets[h] \in Sockets /\ Machine[sockets[h]] = h
    BY <1>1 DEF Reaches, SocketsOK
  <2> QED BY <1>1, <2>1 DEF AskedOK, SessionsOf
<1>2. CASE Refused(h, w) /\ UNCHANGED asked
  <2>1. sockets[h] \in Sockets
    BY <1>2 DEF Refused, Early, SocketsOK
  <2>2. Own(wire')
    BY <1>2, <2>1, Said, Longer DEF Refused
  <2> QED BY <1>2, <2>2 DEF AskedOK
<1>3. CASE Loses(h) /\ wire' = w /\ UNCHANGED asked
  BY <1>3 DEF AskedOK
<1> QED BY <1>1, <1>2, <1>3 DEF Asks

LEMMA SnapshotStep ==
    ASSUME SocketAssumption, ChatAssumption, SocketsOK, AskedOK, NEW w, Own(w),
           NEW s \in Sessions, RequestSnapshot(s, w)
    PROVE  AskedOK' /\ Own(wire')
BY AsksStep DEF RequestSnapshot, ChatAssumption, SessionsOf

\* What a machine says is about its own: the sessions it was asked for, the turns
\* it runs and the prompts of these.
LEMMA SaysStep ==
    ASSUME SocketAssumption, Own(wire), NEW c \in Sockets,
           NEW e \in MessagesOf(Machine[c]), Says(c, e)
    PROVE  Own(wire')
BY Longer DEF Says

LEMMA ReadStep ==
    ASSUME Own(wire), NEW c \in Sockets, wire[c] # <<>>
    PROVE  Own(Rest(c)) /\ Head(wire[c]) \in MessagesOf(Machine[c])
BY Shorter DEF Rest

LEMMA WireStep ==
    ASSUME SocketAssumption, ChatAssumption, TypeOK, [Next]_vars
    PROVE  AskedOK' /\ Own(wire')
<1>0. SocketsOK /\ ScreenOK /\ Own(wire) /\ AskedOK /\ TurnsOK /\ RaisedOK
  BY TypeParts
<1>1. CASE UNCHANGED <<wire, asked>>
  BY <1>0, <1>1 DEF AskedOK
<1>2. ASSUME NEW c \in Sockets, Callback(c) PROVE AskedOK' /\ Own(wire')
  <2>1. CASE OnOpen(c)
    BY <2>1, <1>1 DEF OnOpen, machines
  <2>2. CASE OnReady(c)
    BY <2>2, <1>0 DEF OnReady, AskedOK
  <2>3. CASE OnFailure(c) \/ OnClosed(c)
    <3>1. wire' = [wire EXCEPT ![c] = <<>>]
      BY <2>3 DEF OnFailure, OnClosed, Drops
    <3>3. Own([wire EXCEPT ![c] = <<>>])
      BY <1>0 DEF Own
    <3>2. AskedOK'
      BY <2>3, <1>0 DEF OnFailure, OnClosed, Drops, AskedOK
    <3> QED BY <3>1, <3>2, <3>3
  <2>4. CASE OnTurnEnd(c)
    <3>1. Own(Rest(c))
      BY <2>4, <1>0, ReadStep DEF OnTurnEnd, Hears
    <3>2. CASE selected # None /\ HostOf[selected] = Machine[c]
      <4>1. selected \in Sessions /\ RequestSnapshot(selected, Rest(c))
        BY <2>4, <3>2, <1>0 DEF OnTurnEnd, ScreenOK
      <4> QED BY <4>1, <3>1, <1>0, SnapshotStep
    <3>3. CASE ~(selected # None /\ HostOf[selected] = Machine[c])
      BY <2>4, <3>1, <3>3, <1>0 DEF OnTurnEnd, AskedOK
    <3> QED BY <3>2, <3>3
  <2>5. CASE \/ OnSessions(c) \/ OnSnapshot(c) \/ OnSessionCreated(c) \/ OnApproval(c)
             \/ OnResolved(c) \/ OnTurnItem(c) \/ OnError(c)
    <3>1. wire[c] # <<>> /\ wire' = Rest(c) /\ UNCHANGED asked
      BY <2>5 DEF OnSessions, OnSnapshot, OnSessionCreated, OnApproval, OnResolved,
         OnTurnItem, OnError, Hears, Read
    <3> QED BY <3>1, <1>0, ReadStep DEF AskedOK
  <2> QED BY <1>2, <2>1, <2>2, <2>3, <2>4, <2>5 DEF Callback
<1>3. CASE User
  <2>1. ASSUME NEW s \in Sessions, Select(s) PROVE AskedOK' /\ Own(wire')
    BY <2>1, <1>0, SnapshotStep DEF Select
  <2>2. CASE RefreshTimeline
    BY <2>2, <1>0, SnapshotStep DEF RefreshTimeline, ScreenOK
  <2>3. ASSUME NEW h \in Hosts, Refresh(h) PROVE AskedOK' /\ Own(wire')
    BY <2>3, <1>0, AsksStep DEF Refresh
  <2>4. CASE SendMessage
    <3>1. OpenHost \in Hosts
      BY <2>4, <1>0 DEF SendMessage, OpenHost, ScreenOK, ChatAssumption
    <3>2. UNCHANGED asked /\ (UNCHANGED wire \/ Refused(OpenHost, wire))
      BY <2>4 DEF SendMessage
    <3>3. CASE Refused(OpenHost, wire)
      <4>1. Asks(OpenHost, "list", wire)
        BY <3>2, <3>3 DEF Asks
      <4> QED BY <4>1, <3>1, <1>0, AsksStep
    <3> QED BY <1>1, <3>2, <3>3
  <2>5. \/ UNCHANGED <<wire, asked>> \/ (\E s \in Sessions : Select(s))
        \/ RefreshTimeline \/ SendMessage \/ \E h \in Hosts : Refresh(h)
    BY <1>3 DEF User, Connects, ForgetHost, StartNewChat, CloseTimeline,
       RespondToApproval, machines
  <2> QED BY <1>1, <2>1, <2>2, <2>3, <2>4, <2>5
<1>4. ASSUME NEW c \in Sockets,
             \/ PeerRejects(c) \/ MachineLists(c)
             \/ \E s \in Sessions :
                  MachineReads(c, s) \/ MachineCreates(c, s) \/ MachineItem(c, s)
             \/ \E about \in Sessions \cup {"new"} :
                  MachineFails(c, about) \/ MachineEnds(c, about)
             \/ \E p \in Prompts : MachineAsks(c, p)
      PROVE  AskedOK' /\ Own(wire')
  <2>0. /\ Error \in MessagesOf(Machine[c])
        /\ asked[c] \subseteq SessionsOf(Machine[c]) \cup {"list"}
        /\ turns[c] \subseteq SessionsOf(Machine[c]) \cup {"new"}
    BY <1>0, Said DEF AskedOK, TurnsOK
  <2>1. CASE PeerRejects(c)
    <3>1. UNCHANGED asked /\ wire' = [wire EXCEPT ![c] = Append(@, Error)]
      BY <2>1 DEF PeerRejects, machines
    <3> QED BY <3>1, <1>0, <2>0, Longer DEF AskedOK
  <2>2. CASE MachineLists(c)
    <3>1. Own(wire')
      BY <2>2, <1>0, Said, SaysStep DEF MachineLists
    <3>2. AskedOK'
      BY <2>2, <1>0 DEF MachineLists, AskedOK
    <3> QED BY <3>1, <3>2
  <2>3. ASSUME NEW s \in Sessions, MachineReads(c, s) PROVE AskedOK' /\ Own(wire')
    <3>1. s \in SessionsOf(Machine[c])
      BY <2>3, <2>0 DEF MachineReads, ChatAssumption
    <3>2. Own(wire')
      BY <2>3, <3>1, <1>0, Said, SaysStep DEF MachineReads
    <3>3. AskedOK'
      BY <2>3, <1>0 DEF MachineReads, AskedOK
    <3> QED BY <3>2, <3>3
  <2>4. ASSUME NEW s \in Sessions, MachineCreates(c, s) \/ MachineItem(c, s)
        PROVE  AskedOK' /\ Own(wire')
    <3>1. s \in SessionsOf(Machine[c])
      BY <2>4, <2>0 DEF MachineCreates, MachineItem, Runs, ChatAssumption
    <3>2. Own(wire')
      BY <2>4, <3>1, <1>0, Said, SaysStep DEF MachineCreates, MachineItem
    <3> QED BY <2>4, <3>2, <1>0 DEF MachineCreates, MachineItem, AskedOK
  <2>5. ASSUME NEW about \in Sessions \cup {"new"},
               MachineFails(c, about) \/ MachineEnds(c, about)
        PROVE  AskedOK' /\ Own(wire')
    <3>1. about \in SessionsOf(Machine[c]) \cup {"new"}
      BY <2>5, <2>0 DEF MachineFails, MachineEnds, Runs
    <3>2. Own(wire')
      BY <2>5, <3>1, <1>0, Said, SaysStep DEF MachineFails, MachineEnds
    <3> QED BY <2>5, <3>2, <1>0 DEF MachineFails, MachineEnds, AskedOK
  <2>6. ASSUME NEW p \in Prompts, MachineAsks(c, p) PROVE AskedOK' /\ Own(wire')
    <3>1. p \in PromptsOf(Machine[c])
      BY <2>6, <2>0 DEF MachineAsks, Runs, ChatAssumption, SessionsOf, PromptsOf
    <3>2. Own(wire')
      BY <2>6, <3>1, <1>0, Said, SaysStep DEF MachineAsks
    <3> QED BY <2>6, <3>2, <1>0 DEF MachineAsks, AskedOK
  <2> QED BY <1>4, <2>1, <2>2, <2>3, <2>4, <2>5, <2>6
<1>5. ASSUME NEW p \in Prompts, MachineSettles(p) PROVE AskedOK' /\ Own(wire')
  <2>1. raisedOn[p] \in Sockets /\ p \in PromptsOf(Machine[raisedOn[p]])
    BY <1>5, <1>0 DEF MachineSettles, RaisedOK
  <2>2. UNCHANGED asked
    BY <1>5 DEF MachineSettles
  <2>3. CASE UNCHANGED wire
    BY <1>1, <2>2, <2>3
  <2>4. CASE Says(raisedOn[p], Event("approval.resolved", p))
    BY <2>1, <2>2, <2>4, <1>0, Said, SaysStep DEF AskedOK
  <2> QED BY <1>5, <2>3, <2>4 DEF MachineSettles
<1>6. CASE UNCHANGED vars
  BY <1>1, <1>6 DEF vars, machines
<1> QED BY <1>2, <1>3, <1>4, <1>5, <1>6 DEF Next, Peer

LEMMA TurnsStep ==
    ASSUME SocketAssumption, ChatAssumption, TypeOK, [Next]_vars
    PROVE  TurnsOK'
<1>0. SocketsOK /\ ScreenOK /\ Own(wire) /\ AskedOK /\ TurnsOK /\ RaisedOK
  BY TypeParts
<1>1. CASE UNCHANGED turns
  BY <1>0, <1>1 DEF TurnsOK
<1>2. ASSUME NEW c \in Sockets, Callback(c) PROVE TurnsOK'
  <2>1. CASE OnFailure(c) \/ OnClosed(c)
    BY <2>1, <1>0 DEF OnFailure, OnClosed, Drops, TurnsOK
  <2>2. CASE OnSessionCreated(c)
    <3>1. About(c) \in SessionsOf(Machine[c])
      BY <2>2, <1>0, ReadStep, Understood DEF OnSessionCreated, Hears, About
    <3>2. turns' = [turns EXCEPT ![c] = (@ \ {"new"}) \cup {About(c)}]
      BY <2>2 DEF OnSessionCreated
    <3> QED BY <3>1, <3>2, <1>0 DEF TurnsOK, SessionsOf
  <2>3. CASE OnTurnEnd(c)
    BY <2>3, <1>0 DEF OnTurnEnd, TurnsOK
  <2>4. \/ OnFailure(c) \/ OnClosed(c) \/ OnSessionCreated(c) \/ OnTurnEnd(c)
        \/ UNCHANGED turns
    BY <1>2 DEF Callback, OnOpen, OnReady, OnSessions, OnSnapshot, OnApproval, OnResolved,
       OnTurnItem, OnError, machines
  <2> QED BY <1>1, <2>1, <2>2, <2>3, <2>4
<1>3. CASE User
  <2>1. CASE SendMessage
    <3>1. OpenHost \in Hosts /\ (selected # None => selected \in SessionsOf(OpenHost))
      BY <2>1, <1>0 DEF SendMessage, OpenHost, ScreenOK, ChatAssumption, SessionsOf
    <3>2. PICK about \in SessionsOf(OpenHost) \cup {"new"} :
            \/ /\ Reaches(OpenHost)
               /\ turns' = [turns EXCEPT ![sockets[OpenHost]] = @ \cup {about}]
            \/ UNCHANGED turns
      BY <2>1, <3>1 DEF SendMessage
    <3>3. CASE /\ Reaches(OpenHost)
               /\ turns' = [turns EXCEPT ![sockets[OpenHost]] = @ \cup {about}]
      <4>1. sockets[OpenHost] \in Sockets /\ Machine[sockets[OpenHost]] = OpenHost
        BY <3>1, <3>3, <1>0 DEF Reaches, SocketsOK
      <4> QED BY <3>3, <4>1, <1>0 DEF TurnsOK, SessionsOf
    <3> QED BY <1>1, <3>2, <3>3
  <2>2. SendMessage \/ UNCHANGED turns
    BY <1>3 DEF User, Connects, ForgetHost, StartNewChat, Refresh, Select, CloseTimeline,
       RefreshTimeline, RespondToApproval, machines
  <2> QED BY <1>1, <2>1, <2>2
<1>4. CASE Peer
  <2>1. UNCHANGED turns
    BY <1>4 DEF Peer, PeerRejects, MachineLists, MachineReads, MachineCreates, MachineItem,
       MachineFails, MachineEnds, MachineAsks, MachineSettles, Says, machines
  <2> QED BY <1>1, <2>1
<1>5. CASE UNCHANGED vars
  BY <1>1, <1>5 DEF vars, machines
<1> QED BY <1>2, <1>3, <1>4, <1>5 DEF Next

LEMMA RaisedStep ==
    ASSUME SocketAssumption, ChatAssumption, TypeOK, [Next]_vars
    PROVE  RaisedOK'
<1>0. TurnsOK /\ RaisedOK
  BY TypeParts
<1>1. CASE UNCHANGED <<raisedOn, waiting>>
  BY <1>0, <1>1 DEF RaisedOK
<1>2. ASSUME NEW c \in Sockets, NEW p \in Prompts, MachineAsks(c, p) PROVE RaisedOK'
  <2>1. p \in PromptsOf(Machine[c])
    BY <1>2, <1>0 DEF MachineAsks, Runs, TurnsOK, ChatAssumption, SessionsOf, PromptsOf
  <2>2. raisedOn' = [raisedOn EXCEPT ![p] = c] /\ waiting' = waiting \cup {p}
    BY <1>2 DEF MachineAsks
  <2>3. c # None
    BY DEF SocketAssumption
  <2> QED BY <2>1, <2>2, <2>3, <1>0 DEF RaisedOK
<1>3. ASSUME NEW p \in Prompts, MachineSettles(p) PROVE RaisedOK'
  BY <1>3, <1>0 DEF MachineSettles, RaisedOK
<1>4. \/ UNCHANGED <<raisedOn, waiting>>
      \/ \E c \in Sockets, p \in Prompts : MachineAsks(c, p)
      \/ \E p \in Prompts : MachineSettles(p)
  <2>1. ASSUME NEW c \in Sockets, Callback(c) PROVE UNCHANGED <<raisedOn, waiting>>
    BY <2>1 DEF Callback, OnOpen, OnReady, OnFailure, OnClosed, OnSessions, OnSnapshot,
       OnSessionCreated, OnApproval, OnResolved, OnTurnItem, OnTurnEnd, OnError, Read,
       Drops, machines
  <2>2. ASSUME User PROVE UNCHANGED <<raisedOn, waiting>>
    BY <2>2 DEF User, Connects, ForgetHost, StartNewChat, Refresh, Select, CloseTimeline,
       RefreshTimeline, SendMessage, RespondToApproval, machines
  <2>3. ASSUME Peer
        PROVE  \/ UNCHANGED <<raisedOn, waiting>>
               \/ \E c \in Sockets, p \in Prompts : MachineAsks(c, p)
               \/ \E p \in Prompts : MachineSettles(p)
    BY <2>3 DEF Peer, PeerRejects, MachineLists, MachineReads, MachineCreates, MachineItem,
       MachineFails, MachineEnds, machines
  <2>4. CASE UNCHANGED vars
    BY <2>4 DEF vars, machines
  <2> QED BY <2>1, <2>2, <2>3, <2>4 DEF Next
<1> QED BY <1>1, <1>2, <1>3, <1>4

-----------------------------------------------------------------------------
(* The screen.                                                             *)

ScreenInv == PromptsOfOpenHost /\ ItemsOfOpenHost /\ OfferedIsPending

shown == <<selected, newChat, timeline, approvals, pending>>

LEMMA ShownKept ==
    ASSUME ScreenInv, UNCHANGED shown
    PROVE  ScreenInv'
BY DEF ScreenInv, PromptsOfOpenHost, ItemsOfOpenHost, OfferedIsPending, OpenHost, shown

\* A callback applies what it tells to the chat of its machine.
LEMMA ScreenCallback ==
    ASSUME SocketAssumption, ChatAssumption, TypeOK, ScreenInv, NEW c \in Sockets,
           Callback(c)
    PROVE  ScreenOK' /\ ScreenInv'
<1>0. ScreenOK /\ Own(wire)
  BY TypeParts
<1>1. Machine[c] \in Hosts /\ Machine[c] # None
  BY DEF SocketAssumption, ChatAssumption
<1>2. CASE OnSessions(c)
  <2>1. About(c) \subseteq SessionsOf(Machine[c])
    BY <1>0, <1>2, ReadStep, Understood DEF OnSessions, Hears, About
  <2>2. ScreenOK'
    BY <1>0, <1>2, <2>1 DEF OnSessions, Read, ScreenOK, SessionsOf
  <2> QED BY <1>2, <2>2, ShownKept DEF OnSessions, shown
<1>3. CASE OnSnapshot(c)
  <2>1. About(c) \in SessionsOf(Machine[c])
    BY <1>0, <1>3, ReadStep, Understood DEF OnSnapshot, Hears, About
  <2>2. ScreenOK'
    BY <1>0, <1>3, <2>1 DEF OnSnapshot, Read, ScreenOK, SessionsOf
  <2>3. OpenHost' = OpenHost
    BY <1>3 DEF OnSnapshot, OpenHost
  <2>4. timeline' = timeline \/ (timeline' = {About(c)} /\ OpenHost = Machine[c])
    BY <1>3, <2>1 DEF OnSnapshot, OpenHost, SessionsOf, ChatAssumption
  <2>5. ItemsOfOpenHost'
    BY <2>1, <2>3, <2>4, <1>1 DEF ScreenInv, ItemsOfOpenHost
  <2>6. PromptsOfOpenHost' /\ OfferedIsPending'
    BY <1>3, <2>3 DEF OnSnapshot, ScreenInv, PromptsOfOpenHost, OfferedIsPending
  <2> QED BY <2>2, <2>5, <2>6 DEF ScreenInv
<1>4. CASE OnSessionCreated(c)
  <2>1. About(c) \in SessionsOf(Machine[c])
    BY <1>0, <1>4, ReadStep, Understood DEF OnSessionCreated, Hears, About
  <2>2. ScreenOK'
    BY <1>0, <1>4, <2>1 DEF OnSessionCreated, Read, ScreenOK, SessionsOf
  <2>3. OpenHost' = OpenHost
    BY <1>0, <1>1, <1>4, <2>1 DEF OnSessionCreated, OpenHost, ScreenOK, SessionsOf,
       ChatAssumption
  <2>4. UNCHANGED <<timeline, approvals, pending>>
    BY <1>4 DEF OnSessionCreated
  <2> QED BY <2>2, <2>3, <2>4 DEF ScreenInv, PromptsOfOpenHost, ItemsOfOpenHost, OfferedIsPending
<1>5. CASE OnApproval(c) \/ OnResolved(c)
  <2>1. About(c) \in PromptsOf(Machine[c])
    BY <1>0, <1>5, ReadStep, Understood DEF OnApproval, OnResolved, Hears, About
  <2>2. ScreenOK'
    BY <1>0, <1>5, <2>1 DEF OnApproval, OnResolved, Read, ScreenOK, PromptsOf
  <2>3. OpenHost' = OpenHost /\ timeline' = timeline
    BY <1>5 DEF OnApproval, OnResolved, OpenHost
  <2>4. ItemsOfOpenHost'
    BY <2>3 DEF ScreenInv, ItemsOfOpenHost
  <2>5. PromptsOfOpenHost'
    BY <1>5, <2>1, <2>3 DEF OnApproval, OnResolved, ScreenInv, PromptsOfOpenHost
  <2>6. OfferedIsPending'
    <3>1. CASE OnApproval(c)
      BY <2>3, <3>1 DEF OnApproval, ScreenInv, OfferedIsPending
    <3>2. CASE OnResolved(c)
      <4>1. OpenHost # None => About(c) \notin approvals \/ OpenHost = Machine[c]
        BY <2>1, <1>1 DEF ScreenInv, PromptsOfOpenHost, PromptsOf
      <4> QED BY <2>3, <3>2, <4>1 DEF OnResolved, ScreenInv, OfferedIsPending
    <3> QED BY <1>5, <3>1, <3>2
  <2> QED BY <2>2, <2>4, <2>5, <2>6 DEF ScreenInv
<1>6. CASE OnTurnItem(c)
  <2>1. About(c) \in SessionsOf(Machine[c])
    BY <1>0, <1>6, ReadStep, Understood DEF OnTurnItem, Hears, About
  <2>2. ScreenOK'
    BY <1>0, <1>6, <2>1 DEF OnTurnItem, Read, ScreenOK, SessionsOf
  <2>3. OpenHost' = OpenHost
    BY <1>6 DEF OnTurnItem, OpenHost
  <2>4. ItemsOfOpenHost'
    BY <1>1, <1>6, <2>1, <2>3 DEF OnTurnItem, ScreenInv, ItemsOfOpenHost
  <2>5. PromptsOfOpenHost' /\ OfferedIsPending'
    BY <1>6, <2>3 DEF OnTurnItem, ScreenInv, PromptsOfOpenHost, OfferedIsPending
  <2> QED BY <2>2, <2>4, <2>5 DEF ScreenInv
<1>7. CASE \/ OnOpen(c) \/ OnReady(c) \/ OnFailure(c) \/ OnClosed(c) \/ OnTurnEnd(c)
           \/ OnError(c)
  <2>1. UNCHANGED <<listed, existing, shown, sent>> /\ sending' \in BOOLEAN
    BY <1>0, <1>7 DEF OnOpen, OnReady, OnFailure, OnClosed, OnTurnEnd, OnError, Read, Drops,
       chat, machines, shown, ScreenOK
  <2>2. ScreenOK'
    BY <1>0, <2>1 DEF ScreenOK, shown
  <2> QED BY <2>1, <2>2, ShownKept
<1> QED BY <1>2, <1>3, <1>4, <1>5, <1>6, <1>7 DEF Callback

LEMMA ScreenUser ==
    ASSUME SocketAssumption, ChatAssumption, TypeOK, ScreenInv, User
    PROVE  ScreenOK' /\ ScreenInv'
<1>0. SocketsOK /\ ScreenOK
  BY TypeParts
<1>1. ASSUME NEW h \in Hosts, ForgetHost(h) PROVE ScreenOK' /\ ScreenInv'
  <2>1. ScreenOK'
    BY <1>0, <1>1 DEF ForgetHost, machines, ScreenOK
  <2>2. h # None /\ newChat = None
    BY <1>1 DEF ForgetHost, ChatAssumption
  <2>3. CASE OpenHost = h
    <3>1. OpenHost' = None /\ timeline' = {}
      BY <1>1, <2>3 DEF ForgetHost, OpenHost
    <3> QED BY <2>1, <3>1 DEF ScreenInv, PromptsOfOpenHost, ItemsOfOpenHost, OfferedIsPending
  <2>4. CASE OpenHost # h
    <3>1. UNCHANGED <<selected, newChat, timeline, approvals>> /\ OpenHost' = OpenHost
      BY <1>1, <2>4 DEF ForgetHost, OpenHost
    <3>2. OpenHost # None => approvals \cap PromptsOf(h) = {}
      BY <2>4 DEF ScreenInv, PromptsOfOpenHost, PromptsOf
    <3>3. PromptsOfOpenHost' /\ ItemsOfOpenHost'
      BY <3>1 DEF ScreenInv, PromptsOfOpenHost, ItemsOfOpenHost
    <3>4. OfferedIsPending'
      BY <1>1, <3>1, <3>2 DEF ForgetHost, ScreenInv, OfferedIsPending
    <3> QED BY <2>1, <3>3, <3>4 DEF ScreenInv
  <2> QED BY <2>3, <2>4
<1>2. ASSUME NEW s \in Sessions, Select(s) PROVE ScreenOK' /\ ScreenInv'
  BY <1>0, <1>2 DEF Select, ScreenOK, ScreenInv, PromptsOfOpenHost, ItemsOfOpenHost,
     OfferedIsPending
<1>3. ASSUME NEW h \in Hosts, StartNewChat(h) PROVE ScreenOK' /\ ScreenInv'
  BY <1>0, <1>3 DEF StartNewChat, machines, ScreenOK, ScreenInv, PromptsOfOpenHost,
     ItemsOfOpenHost, OfferedIsPending
<1>4. CASE CloseTimeline
  BY <1>0, <1>4 DEF CloseTimeline, machines, ScreenOK, ScreenInv, PromptsOfOpenHost,
     ItemsOfOpenHost, OfferedIsPending, OpenHost
<1>5. CASE SendMessage
  <2>1. ScreenOK'
    BY <1>0, <1>5 DEF SendMessage, ScreenOK
  <2>2. OpenHost' = OpenHost /\ OpenHost # None /\ timeline' = timeline \cup {"local"}
    BY <1>5 DEF SendMessage, OpenHost
  <2>3. UNCHANGED <<approvals, pending>>
    BY <1>5 DEF SendMessage
  <2> QED BY <2>1, <2>2, <2>3 DEF ScreenInv, PromptsOfOpenHost, ItemsOfOpenHost, OfferedIsPending
<1>6. ASSUME NEW p \in Prompts, RespondToApproval(p) PROVE ScreenOK' /\ ScreenInv'
  <2>1. ScreenOK'
    BY <1>0, <1>6 DEF RespondToApproval, machines, ScreenOK
  <2>2. OpenHost' = OpenHost /\ timeline' = timeline
    BY <1>6 DEF RespondToApproval, OpenHost
  <2>3. approvals' = approvals \ {p} /\ pending' = pending \ {p}
    BY <1>6 DEF RespondToApproval
  <2> QED BY <2>1, <2>2, <2>3 DEF ScreenInv, PromptsOfOpenHost, ItemsOfOpenHost, OfferedIsPending
<1>7. CASE Connects \/ RefreshTimeline \/ \E h \in Hosts : Refresh(h)
  <2>1. UNCHANGED <<chat, existing, sent>>
    BY <1>7 DEF Connects, RefreshTimeline, Refresh, machines
  <2>2. ScreenOK'
    BY <1>0, <2>1 DEF ScreenOK, chat
  <2> QED BY <2>1, <2>2, ShownKept DEF chat, shown
<1> QED BY <1>1, <1>2, <1>3, <1>4, <1>5, <1>6, <1>7 DEF User

LEMMA ScreenPeer ==
    ASSUME TypeOK, ScreenInv, Peer
    PROVE  ScreenOK' /\ ScreenInv'
<1>0. ScreenOK
  BY TypeParts
<1>1. UNCHANGED <<chat, sent>> /\ existing' \subseteq Sessions
  <2>1. UNCHANGED <<chat, sent>>
    BY DEF Peer, PeerRejects, MachineLists, MachineReads, MachineCreates, MachineItem,
       MachineFails, MachineEnds, MachineAsks, MachineSettles, Says, machines
  <2>2. existing' \subseteq Sessions
    BY <1>0 DEF Peer, PeerRejects, MachineLists, MachineReads, MachineCreates, MachineItem,
       MachineFails, MachineEnds, MachineAsks, MachineSettles, machines, ScreenOK, SessionsOf
  <2> QED BY <2>1, <2>2
<1>2. ScreenOK'
  BY <1>0, <1>1 DEF ScreenOK, chat
<1> QED BY <1>1, <1>2, ShownKept DEF chat, shown

-----------------------------------------------------------------------------
(* The invariant.                                                          *)

LEMMA InitStep ==
    ASSUME SocketAssumption, ChatAssumption, Init
    PROVE  IInv
<1>1. SocketInv
  BY DEF Init, SocketsInit, SocketAssumption, SocketInv, SocketsOK, NeverStranded, States,
     Phases, Current
<1>2. ScreenOK /\ AskedOK /\ TurnsOK /\ RaisedOK
  BY DEF Init, ScreenOK, AskedOK, TurnsOK, RaisedOK
<1>3. Own(wire)
  BY DEF Init, Own
<1>4. ScreenInv
  BY DEF Init, ScreenInv, PromptsOfOpenHost, ItemsOfOpenHost, OfferedIsPending, OpenHost
<1> QED BY <1>1, <1>2, <1>3, <1>4, TypeParts DEF IInv, SocketInv, ScreenInv

\* The invariants of the runs are inductive together.
THEOREM Inductive == Spec => []IInv
<1> USE SocketAssumption, ChatAssumption
<1>1. Init => IInv
  BY InitStep
<1>2. IInv /\ [Next]_vars => IInv'
  <2> SUFFICES ASSUME IInv, [Next]_vars PROVE IInv'
    OBVIOUS
  <2>1. TypeOK /\ SocketInv /\ ScreenInv
    BY TypeParts DEF IInv, SocketInv, ScreenInv
  <2>2. SocketInv'
    BY <2>1, SocketStep
  <2>3. ScreenOK' /\ ScreenInv'
    <3>1. CASE UNCHANGED vars
      <4>1. UNCHANGED <<chat, existing, sent>>
        BY <3>1 DEF vars, machines
      <4>2. ScreenOK'
        BY <4>1, <2>1, TypeParts DEF ScreenOK, chat
      <4> QED BY <4>1, <4>2, <2>1, ShownKept DEF chat, shown
    <3> QED BY <3>1, <2>1, ScreenCallback, ScreenUser, ScreenPeer DEF Next
  <2>4. AskedOK' /\ Own(wire')
    BY <2>1, WireStep
  <2>5. TurnsOK' /\ RaisedOK'
    BY <2>1, TurnsStep, RaisedStep
  <2>6. TypeOK'
    BY <2>2, <2>3, <2>4, <2>5, TypePartsNext DEF SocketInv
  <2> QED BY <2>2, <2>3, <2>6 DEF IInv, SocketInv, ScreenInv
<1> QED BY <1>1, <1>2, PTL DEF Spec

\* What is on the way on a socket is about the machine it was opened to, and every
\* variable of the app keeps its type.
THEOREM TypeCorrect == Spec => []TypeOK
BY Inductive, PTL DEF IInv

\* A machine shown as connected has a socket whose end will correct it.
THEOREM NobodyIsStranded == Spec => []NeverStranded
BY Inductive, PTL DEF IInv

\* What the open chat shows and offers is of its machine, to which answers go,
\* from whichever socket it comes.
THEOREM AnswersFindTheirChat == Spec => []ChatOfOneHost
BY Inductive, PTL DEF IInv, ChatOfOneHost

\* A prompt is gone from the open chat when it is gone from the notifications.
THEOREM OfferedIsNotified == Spec => []OfferedIsPending
BY Inductive, PTL DEF IInv
===============================================================================
