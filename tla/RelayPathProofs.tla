--------------------------- MODULE RelayPathProofs ---------------------------
(***************************************************************************)
(* Proofs about RelayPath, for any number of connections, of phones, of    *)
(* requests and of faults.                                                 *)
(*                                                                         *)
(* The registrations of the relay form one invariant (Registered).  The    *)
(* order of the requests needs more: that everything about a phone is on   *)
(* one connection, that its channel is opened once and before anything     *)
(* else, and what exactly is on the way while the channel lives (Ordered). *)
(* That all this is a PhonePipe needs in addition where the answers come   *)
(* from, and that a refused request is on no way (Answers).                *)
(***************************************************************************)
EXTENDS RelayPath, TLAPS

-----------------------------------------------------------------------------
(* The registrations.                                                      *)

\* What the relay sends to a host names a phone.
DownNames ==
    \A h \in Conns : \A i \in 1 .. Len(down[h]) :
        /\ down[h][i].phone \in Phones
        /\ down[h][i].type \in {"open", "request", "close"}

\* The relay's end is never half open: it is there when the client's is.
FarState == \A h \in Conns : /\ far[h] # "connecting"
                             /\ near[h] = "connecting" => far[h] = "closed"

\* A host that can be found is registered, and who is registered is there.
HostIsKnown ==
    /\ host # NoConn => host \in known
    /\ \A h \in known : far[h] # "closed"

Registered == FarState /\ HostIsKnown /\ OpenHostIsFound /\ NoOrphanPhone

-----------------------------------------------------------------------------
(* A queue of messages to the client, seen from one phone.                 *)

\* The first message about the phone opens its channel, and none after it.
OpensFirst(q, p, opened) ==
    \A i \in 1 .. Len(q) : q[i].phone = p =>
        /\ opened \/ \E j \in 1 .. i : q[j].phone = p /\ q[j].type = "open"
        /\ q[i].type = "open" => ~opened /\ \A j \in 1 .. i - 1 : q[j].phone # p

\* The requests of the phone come in order, the first is the one after base,
\* and none is missing between two of them.
InOrder(q, p, base) ==
    \A i \in 1 .. Len(q) : q[i].phone = p /\ q[i].type = "request" =>
        /\ q[i].n > base
        /\ \A j \in 1 .. i - 1 :
              q[j].phone = p /\ q[j].type = "request" => q[j].n < q[i].n
        /\ \A k \in Nat : k > base /\ k < q[i].n =>
              \E j \in 1 .. i - 1 : q[j] = Msg("request", p, k)

\* All requests of the phone after base up to the last are there.
AllThere(q, p, base, last) ==
    \A k \in Nat : k > base /\ k <= last =>
        \E j \in 1 .. Len(q) : q[j] = Msg("request", p, k)

Silent(q, p) == \A i \in 1 .. Len(q) : q[i].phone # p

-----------------------------------------------------------------------------
(* The channels.                                                           *)

\* The host of a phone is there, and all about the phone goes to it.
OneHost ==
    \A p \in Phones :
        /\ hostOf[p] # NoConn => far[hostOf[p]] # "closed"
        /\ \A h, g \in Conns : Silent(down[h], p) \/ Silent(down[g], p) \/ h = g
        /\ \A h \in Conns : hostOf[p] # NoConn /\ hostOf[p] # h => Silent(down[h], p)

\* Of a phone that has not been heard nothing is known.
NewIsSilent ==
    \A p \in Phones : phone[p] = "new" =>
        /\ hostOf[p] = NoConn /\ sent[p] = 0 /\ local[p] = "none"
        /\ \A h \in Conns : Silent(down[h], p)

\* The local socket of a channel.
LocalState ==
    \A p \in Phones :
        /\ local[p] = "none" => p \notin mapped /\ arrived[p] = <<>> /\ pending[p] = <<>>
        /\ local[p] \in {"connecting", "ready"} => p \in mapped
        /\ local[p] = "ready" => pending[p] = <<>>

\* What the client has taken of the requests of a phone.
Base(p) == Len(arrived[p]) + Len(pending[p])
Live(p) == local[p] \in {"none", "connecting", "ready"}

\* Nothing is lost on the way to the host of a phone.
Intact(p, h) == hostOf[p] = h /\ far[h] = "open"

\* One queue, for a phone whose channel was opened or not, of whose requests
\* base are taken and last are sent, whose channel lives or not, and whose
\* connection loses nothing or may.
WellQueued(q, p, opened, base, last, live, intact) ==
    /\ OpensFirst(q, p, opened)
    /\ \A i \in 1 .. Len(q) : q[i].phone = p => q[i].n <= last
    /\ live => InOrder(q, p, base)
    /\ live /\ intact => AllThere(q, p, base, last)
    /\ ~opened /\ intact =>
          \E i \in 1 .. Len(q) : q[i].phone = p /\ q[i].type = "open"

\* What was taken of the requests of a phone.
Taken(p) ==
    /\ Base(p) <= sent[p]
    /\ \A i \in 1 .. Len(arrived[p]) : arrived[p][i] = i
    /\ Live(p) => \A i \in 1 .. Len(pending[p]) : pending[p][i] = Len(arrived[p]) + i

Queued(p, h) == WellQueued(down[h], p, local[p] # "none", Base(p), sent[p],
                           Live(p), Intact(p, h))

Ordered == \A p \in Phones : Taken(p) /\ \A h \in Conns : Queued(p, h)

Channels == OneHost /\ NewIsSilent /\ LocalState /\ Ordered

IInv == TypeOK /\ DownNames /\ Registered /\ Channels

USE RelayAssumption

-----------------------------------------------------------------------------
(* Queues.                                                                 *)

\* Taking the first message shifts the others.
LEMMA TailMessage ==
    ASSUME NEW q \in Seq(Message), q # <<>>
    PROVE  /\ Tail(q) \in Seq(Message) /\ Len(Tail(q)) = Len(q) - 1
           /\ \A i \in 1 .. Len(Tail(q)) : Tail(q)[i] = q[i + 1]
           /\ Head(q) = q[1] /\ Head(q) \in Message /\ Len(q) > 0
OBVIOUS

\* Adding one leaves the others where they are.
LEMMA AppendMessage ==
    ASSUME NEW q \in Seq(Message), NEW m \in Message
    PROVE  /\ Append(q, m) \in Seq(Message) /\ Len(Append(q, m)) = Len(q) + 1
           /\ \A i \in 1 .. Len(q) : Append(q, m)[i] = q[i]
           /\ Append(q, m)[Len(q) + 1] = m
OBVIOUS

\* send leaves a queue alone, or adds the message to it.
LEMMA SendType ==
    ASSUME NEW queue \in [Conns -> Seq(Message)], NEW end, NEW h \in Conns,
           NEW m \in Message
    PROVE  /\ Send(queue, end, h, m) \in [Conns -> Seq(Message)]
           /\ \A g \in Conns : g # h => Send(queue, end, h, m)[g] = queue[g]
           /\ Send(queue, end, h, m)[h] =
                 IF end[h] = "open" THEN Append(queue[h], m) ELSE queue[h]
BY DEF Send

\* What is forgotten is the queue of a connection with both ends closed.
LEMMA Forgets ==
    ASSUME NEW n, NEW f, Forgotten(n, f), NEW h \in Conns
    PROVE  /\ up'[h] = up[h] \/ up'[h] = <<>>
           /\ down'[h] = down[h] \/ (down'[h] = <<>> /\ f[h] = "closed")
BY DEF Forgotten, Gone

\* Queues stay well-formed when some are forgotten.
LEMMA ForgetsType ==
    ASSUME TypeOK, NEW n, NEW f, Forgotten(n, f)
    PROVE  /\ up' \in [Conns -> Seq(Message)] /\ down' \in [Conns -> Seq(Message)]
           /\ broken' \subseteq Conns
<1>1. <<>> \in Seq(Message)
      OBVIOUS
<1> QED BY <1>1 DEF Forgotten, TypeOK, LinkTypeOK

\* A message has the fields it was made with.
LEMMA MsgType ==
    ASSUME NEW type \in {"register", "open", "request", "response", "error", "close"},
           NEW p \in Phones \cup {NoConn}, NEW n \in Nat
    PROVE  /\ Msg(type, p, n) \in Message
           /\ Msg(type, p, n).type = type /\ Msg(type, p, n).phone = p
           /\ Msg(type, p, n).n = n
BY DEF Msg, Message

-----------------------------------------------------------------------------
(* Types.                                                                  *)

\* The program starts in a state that satisfies the invariant.
LEMMA InitInv == Init => IInv
<1> SUFFICES ASSUME Init PROVE IInv
    OBVIOUS
<1> USE DEF Init, LinkInit, ServerInit, ClientInit
<1>1. TypeOK
  <2>1. <<>> \in Seq(Message) /\ <<>> \in Seq(Nat)
        OBVIOUS
  <2>2. LinkTypeOK
        BY <2>1 DEF LinkTypeOK, EndState
  <2>3. ServerTypeOK
        BY DEF ServerTypeOK
  <2>4. ClientTypeOK
        BY <2>1 DEF ClientTypeOK
  <2> QED BY <2>2, <2>3, <2>4 DEF TypeOK
<1>2. DownNames /\ Registered
      BY DEF DownNames, Registered, FarState, HostIsKnown, OpenHostIsFound,
         NoOrphanPhone
<1>3. OneHost /\ NewIsSilent /\ LocalState
      BY DEF OneHost, NewIsSilent, LocalState, Silent
<1>4. \A h \in Conns : Len(down[h]) = 0
      OBVIOUS
<1>5. \A p \in Phones : Base(p) = 0 /\ Len(pending[p]) = 0
      BY DEF Base
<1>6. Ordered
      BY <1>4, <1>5 DEF Ordered, Taken, Queued, WellQueued, OpensFirst, InOrder,
         AllThere, Intact
<1> QED BY <1>1, <1>2, <1>3, <1>6 DEF IInv, Channels

\* sendRelay keeps the queue to the relay well-formed.
LEMMA SendRelayType ==
    ASSUME TypeOK, NEW m \in Message
    PROVE  SendRelay(m) \in [Conns -> Seq(Message)]
<1>1. CASE relay = NoConn
      BY <1>1 DEF SendRelay, TypeOK, LinkTypeOK
<1>2. CASE relay # NoConn
  <2>1. relay \in Conns /\ up \in [Conns -> Seq(Message)]
        BY <1>2 DEF TypeOK, ClientTypeOK, LinkTypeOK
  <2> QED BY <1>2, <2>1, SendType DEF SendRelay
<1> QED BY <1>1, <1>2

\* Closing channels keeps their tables well-formed.
LEMMA CloseChannelsType ==
    ASSUME TypeOK, NEW channels, CloseChannels(channels)
    PROVE  /\ mapped' \subseteq mapped
           /\ local' \in [Phones -> {"none", "connecting", "ready", "closing", "closed"}]
           /\ pending' \in [Phones -> Seq(Nat)]
<1>1. /\ local \in [Phones -> {"none", "connecting", "ready", "closing", "closed"}]
      /\ pending \in [Phones -> Seq(Nat)] /\ <<>> \in Seq(Nat)
      BY DEF TypeOK, ClientTypeOK
<1>2. LocalClosed(mapped \cap channels)
        \in [Phones -> {"none", "connecting", "ready", "closing", "closed"}]
      BY <1>1 DEF LocalClosed
<1> QED BY <1>1, <1>2 DEF CloseChannels

\* An end that is asked to close keeps a state.
LEMMA ClosingType ==
    /\ TypeOK => \A h \in Conns : /\ Closing(near, h) \in [Conns -> EndState]
                                  /\ Closing(far, h) \in [Conns -> EndState]
    /\ TypeOK => \A p \in Phones :
          Closing(phone, p) \in [Phones -> {"new", "open", "closing", "closed"}]
BY DEF Closing, TypeOK, LinkTypeOK, ServerTypeOK, EndState

\* The client's steps on a close event.
LEMMA OnCloseType ==
    ASSUME TypeOK, NEW h \in Conns, OnClose(h)
    PROVE  LinkTypeOK' /\ ClientTypeOK'
<1>1. LinkTypeOK'
      BY ForgetsType DEF OnClose, TypeOK, LinkTypeOK, EndState
<1>2. CloseChannels(mapped)
      BY DEF OnClose
<1>3. ClientTypeOK'
      BY <1>2, CloseChannelsType DEF OnClose, TypeOK, ClientTypeOK, gateway,
         ScheduleReconnect
<1> QED BY <1>1, <1>3

\* Every step keeps the types.
LEMMA TypeStep ==
    ASSUME TypeOK, DownNames, [Next]_vars
    PROVE  TypeOK'
<1> USE DEF link, server, client, gateway
<1>1. ASSUME NEW h \in Conns, RegisterHost(h), UNCHANGED <<client, faults>>
      PROVE  TypeOK'
  <2>1. up[h] \in Seq(Message) /\ up[h] # <<>>
        BY <1>1 DEF RegisterHost, Takes, TypeOK, LinkTypeOK
  <2>2. LinkTypeOK'
        BY <1>1, <2>1, TailMessage, ClosingType
        DEF RegisterHost, Takes, TypeOK, LinkTypeOK, ServerTypeOK
  <2>3. ServerTypeOK'
        BY <1>1 DEF RegisterHost, Takes, TypeOK, ServerTypeOK
  <2> QED BY <1>1, <2>2, <2>3 DEF TypeOK, ClientTypeOK
<1>2. ASSUME NEW h \in Conns, ForwardResponse(h), UNCHANGED <<client, faults>>
      PROVE  TypeOK'
  <2>1. up[h] \in Seq(Message) /\ up[h] # <<>>
        BY <1>2 DEF ForwardResponse, Takes, TypeOK, LinkTypeOK
  <2>2. LinkTypeOK'
        BY <1>2, <2>1, TailMessage DEF ForwardResponse, Takes, TypeOK, LinkTypeOK
  <2>3. Head(up[h]).n \in Nat
        BY <2>1, TailMessage DEF Message
  <2>4. ServerTypeOK'
        BY <1>2, <2>3 DEF ForwardResponse, Takes, TypeOK, ServerTypeOK
  <2> QED BY <1>2, <2>2, <2>4 DEF TypeOK, ClientTypeOK
<1>3. ASSUME NEW h \in Conns, FailPhone(h), UNCHANGED <<client, faults>>
      PROVE  TypeOK'
  <2>1. up[h] \in Seq(Message) /\ up[h] # <<>>
        BY <1>3 DEF FailPhone, Takes, TypeOK, LinkTypeOK
  <2>2. LinkTypeOK'
        BY <1>3, <2>1, TailMessage DEF FailPhone, Takes, TypeOK, LinkTypeOK
  <2>3. phone' \in [Phones -> {"new", "open", "closing", "closed"}]
        BY <1>3, ClosingType DEF FailPhone, TypeOK, ServerTypeOK
  <2>4. ServerTypeOK'
        BY <1>3, <2>3 DEF FailPhone, Takes, TypeOK, ServerTypeOK
  <2> QED BY <1>3, <2>2, <2>4 DEF TypeOK, ClientTypeOK
<1>4. ASSUME NEW h \in Conns, FarCloses(h), UNCHANGED <<client, faults>>
      PROVE  TypeOK'
  <2>1. LinkTypeOK'
        BY <1>4, ForgetsType DEF FarCloses, TypeOK, LinkTypeOK, EndState
  <2>2. Orphaned(h) \in [Phones -> {"new", "open", "closing", "closed"}]
        BY DEF Orphaned, TypeOK, ServerTypeOK
  <2>3. ServerTypeOK'
        BY <1>4, <2>2 DEF FarCloses, TypeOK, ServerTypeOK, Unregistered
  <2> QED BY <1>4, <2>1, <2>3 DEF TypeOK, ClientTypeOK
<1>5. ASSUME NEW h \in Conns, FarHears(h) \/ NearHears(h),
             UNCHANGED <<server, client, faults>>
      PROVE  TypeOK'
  <2>1. LinkTypeOK'
        BY <1>5 DEF FarHears, NearHears, TypeOK, LinkTypeOK, EndState
  <2> QED BY <1>5, <2>1 DEF TypeOK, ServerTypeOK, ClientTypeOK
<1>6. ASSUME NEW h \in Conns, Connect(h), UNCHANGED <<server, faults>>
      PROVE  TypeOK'
  <2>1. LinkTypeOK' /\ ClientTypeOK'
        BY <1>6 DEF Connect, TypeOK, LinkTypeOK, ClientTypeOK, EndState
  <2> QED BY <1>6, <2>1 DEF TypeOK, ServerTypeOK
<1>7. ASSUME NEW h \in Conns, Opens(h), UNCHANGED <<server, faults>>
      PROVE  TypeOK'
  <2>1. <<Msg("register", NoConn, 0)>> \in Seq(Message)
        BY DEF Msg, Message
  <2>2. LinkTypeOK' /\ ClientTypeOK'
        BY <1>7, <2>1 DEF Opens, TypeOK, LinkTypeOK, ClientTypeOK, EndState
  <2> QED BY <1>7, <2>2 DEF TypeOK, ServerTypeOK
<1>8. ASSUME NEW h \in Conns, OnClose(h), UNCHANGED server, faults' \in 0 .. MaxFaults
      PROVE  TypeOK'
      BY <1>8, OnCloseType DEF TypeOK, ServerTypeOK
<1>9. ASSUME NEW h \in Conns, ClientReads(h), UNCHANGED <<server, faults>>
      PROVE  TypeOK'
  <2> DEFINE m == Head(down[h])
  <2>1. down[h] \in Seq(Message) /\ down[h] # <<>>
        BY <1>9 DEF ClientReads, OpenChannel, ForwardRequest, CloseChannel, Reads,
           TypeOK, LinkTypeOK
  <2>2. m \in Message /\ m.phone \in Phones /\ m.n \in Nat
    <3>1. m = down[h][1] /\ 1 \in 1 .. Len(down[h]) /\ m \in Message
          BY <2>1, TailMessage
    <3>2. m.phone \in Phones
          BY <3>1 DEF DownNames
    <3> QED BY <3>1, <3>2 DEF Message
  <2>3. [down EXCEPT ![h] = Tail(@)] \in [Conns -> Seq(Message)]
        BY <2>1, TailMessage DEF TypeOK, LinkTypeOK
  <2>4. SendRelay(Msg("error", m.phone, 0)) \in [Conns -> Seq(Message)]
        BY <2>2, SendRelayType, MsgType
  <2>5. ASSUME OpenChannel(h) PROVE LinkTypeOK' /\ ClientTypeOK'
    <3>1. LinkTypeOK'
          BY <2>3, <2>5 DEF OpenChannel, Reads, TypeOK, LinkTypeOK
    <3>2. ClientTypeOK'
          BY <2>2, <2>5 DEF OpenChannel, Reads, TypeOK, ClientTypeOK
    <3> QED BY <3>1, <3>2
  <2>6. ASSUME ForwardRequest(h) PROVE LinkTypeOK' /\ ClientTypeOK'
    <3>1. LinkTypeOK'
          BY <2>3, <2>4, <2>6 DEF ForwardRequest, Reads, TypeOK, LinkTypeOK
    <3>2. /\ Append(arrived[m.phone], m.n) \in Seq(Nat)
          /\ Append(pending[m.phone], m.n) \in Seq(Nat)
          BY <2>2 DEF TypeOK, ClientTypeOK
    <3>3. ClientTypeOK'
          BY <2>2, <2>6, <3>2 DEF ForwardRequest, Reads, TypeOK, ClientTypeOK
    <3> QED BY <3>1, <3>3
  <2>7. ASSUME CloseChannel(h) PROVE LinkTypeOK' /\ ClientTypeOK'
    <3>1. LinkTypeOK'
          BY <2>3, <2>7 DEF CloseChannel, Reads, TypeOK, LinkTypeOK
    <3>2. CloseChannels({m.phone})
          BY <2>7 DEF CloseChannel
    <3>3. ClientTypeOK'
          BY <2>7, <3>2, CloseChannelsType DEF CloseChannel, Reads, TypeOK, ClientTypeOK
    <3> QED BY <3>1, <3>3
  <2> QED BY <1>9, <2>5, <2>6, <2>7 DEF ClientReads, TypeOK, ServerTypeOK
<1>10. ASSUME NEW p \in Phones, LocalReady(p) \/ LocalDrops(p), UNCHANGED <<server, faults>>
      PROVE  TypeOK'
  <2>1. arrived[p] \o Flushed(p) \in Seq(Nat)
        BY DEF Flushed, TypeOK, ClientTypeOK
  <2>2. <<>> \in Seq(Nat)
        OBVIOUS
  <2>3. LinkTypeOK'
        BY <1>10 DEF LocalReady, LocalDrops, TypeOK, LinkTypeOK
  <2>4. LocalReady(p) => ClientTypeOK'
        BY <2>1, <2>2 DEF LocalReady, TypeOK, ClientTypeOK
  <2>5. LocalDrops(p) => ClientTypeOK'
        BY DEF LocalDrops, TypeOK, ClientTypeOK
  <2> QED BY <1>10, <2>3, <2>4, <2>5 DEF TypeOK, ServerTypeOK
<1>11. ASSUME NEW p \in Phones, LocalCloses(p), UNCHANGED <<server, faults>>
      PROVE  TypeOK'
  <2>1. SendRelay(Msg("error", p, 0)) \in [Conns -> Seq(Message)]
        BY SendRelayType, MsgType
  <2>2. LinkTypeOK'
        BY <1>11, <2>1 DEF LocalCloses, TypeOK, LinkTypeOK
  <2>3. ClientTypeOK'
        BY <1>11 DEF LocalCloses, TypeOK, ClientTypeOK
  <2> QED BY <1>11, <2>2, <2>3 DEF TypeOK, ServerTypeOK
<1>12. ASSUME NEW p \in Phones, NEW n \in Nat, GatewayAnswers(p, n),
              UNCHANGED <<server, faults>>
      PROVE  TypeOK'
  <2>1. SendRelay(Msg("response", p, n)) \in [Conns -> Seq(Message)]
        BY SendRelayType, MsgType
  <2>2. LinkTypeOK'
        BY <1>12, <2>1 DEF GatewayAnswers, TypeOK, LinkTypeOK
  <2>3. ClientTypeOK'
        BY <1>12 DEF GatewayAnswers, TypeOK, ClientTypeOK
  <2> QED BY <1>12, <2>2, <2>3 DEF TypeOK, ServerTypeOK
<1>13. ASSUME NEW p \in Phones, PhoneAuth(p), UNCHANGED <<client, faults>>
      PROVE  TypeOK'
  <2>1. host # NoConn => host \in Conns
        BY DEF TypeOK, ServerTypeOK
  <2>2. host # NoConn =>
          Send(down, far, host, Msg("open", p, 0)) \in [Conns -> Seq(Message)]
        BY <2>1, SendType, MsgType DEF TypeOK, LinkTypeOK
  <2>3. LinkTypeOK'
        BY <1>13, <2>2 DEF PhoneAuth, TypeOK, LinkTypeOK
  <2>4. ServerTypeOK'
        BY <1>13, <2>1 DEF PhoneAuth, TypeOK, ServerTypeOK
  <2> QED BY <1>13, <2>3, <2>4 DEF TypeOK, ClientTypeOK
<1>14. ASSUME NEW p \in Phones, PhoneRequests(p), UNCHANGED <<client, faults>>
      PROVE  TypeOK'
  <2>1. HostOpen(p) => hostOf[p] \in Conns
        BY DEF HostOpen, TypeOK, ServerTypeOK
  <2>2. sent[p] + 1 \in Nat
        BY DEF TypeOK, ServerTypeOK
  <2>3. HostOpen(p) =>
          Send(down, far, hostOf[p], Msg("request", p, sent[p] + 1))
            \in [Conns -> Seq(Message)]
        BY <2>1, <2>2, SendType, MsgType DEF TypeOK, LinkTypeOK
  <2>4. LinkTypeOK'
        BY <1>14, <2>3 DEF PhoneRequests, TypeOK, LinkTypeOK
  <2>5. ServerTypeOK'
        BY <1>14, <2>2 DEF PhoneRequests, TypeOK, ServerTypeOK
  <2> QED BY <1>14, <2>4, <2>5 DEF TypeOK, ClientTypeOK
<1>15. ASSUME NEW p \in Phones, PhoneCloses(p), UNCHANGED <<client, faults>>
      PROVE  TypeOK'
  <2>1. HostOpen(p) => hostOf[p] \in Conns
        BY DEF HostOpen, TypeOK, ServerTypeOK
  <2>2. HostOpen(p) =>
          Send(down, far, hostOf[p], Msg("close", p, 0)) \in [Conns -> Seq(Message)]
        BY <2>1, SendType, MsgType DEF TypeOK, LinkTypeOK
  <2>3. LinkTypeOK'
        BY <1>15, <2>2 DEF PhoneCloses, TypeOK, LinkTypeOK
  <2>4. ServerTypeOK'
        BY <1>15 DEF PhoneCloses, TypeOK, ServerTypeOK
  <2> QED BY <1>15, <2>3, <2>4 DEF TypeOK, ClientTypeOK
<1>16. ASSUME Stops PROVE TypeOK'
  <2>1. LinkTypeOK'
        BY <1>16, ClosingType DEF Stops, Stop, TypeOK, LinkTypeOK, ClientTypeOK, EndState
  <2>2. CloseChannels(mapped)
        BY <1>16 DEF Stops, Stop
  <2>3. ClientTypeOK'
        BY <1>16, <2>2, CloseChannelsType DEF Stops, Stop, TypeOK, ClientTypeOK
  <2> QED BY <1>16, <2>1, <2>3 DEF Stops, TypeOK, ServerTypeOK
<1>17. ASSUME NEW h \in Conns, Break(h), UNCHANGED <<server, client>>,
              faults' \in 0 .. MaxFaults
      PROVE  TypeOK'
  <2>1. LinkTypeOK'
        BY <1>17 DEF Break, TypeOK, LinkTypeOK
  <2> QED BY <1>17, <2>1 DEF TypeOK, ServerTypeOK, ClientTypeOK
<1>18. ASSUME RelayRestarts, UNCHANGED client, faults' \in 0 .. MaxFaults
      PROVE  TypeOK'
  <2>1. LinkTypeOK'
        BY <1>18, ForgetsType DEF RelayRestarts, TypeOK, LinkTypeOK, EndState
  <2>2. ServerTypeOK'
        BY <1>18 DEF RelayRestarts, TypeOK, ServerTypeOK
  <2> QED BY <1>18, <2>1, <2>2 DEF TypeOK, ClientTypeOK
<1>19. ASSUME UNCHANGED vars PROVE TypeOK'
      BY <1>19 DEF vars, TypeOK, LinkTypeOK, ServerTypeOK, ClientTypeOK
<1>20. Fault => faults' \in 0 .. MaxFaults
      BY DEF Fault, TypeOK
<1>21. UNCHANGED faults => faults' \in 0 .. MaxFaults
      BY DEF TypeOK
<1>22. \A p \in Phones : 1 .. Sends[p] \subseteq Nat
      OBVIOUS
<1> HIDE DEF link, server, client, gateway
<1> QED
    BY <1>1, <1>2, <1>3, <1>4, <1>5, <1>6, <1>7, <1>8, <1>9, <1>10, <1>11, <1>12,
       <1>13, <1>14, <1>15, <1>16, <1>17, <1>18, <1>19, <1>20, <1>21, <1>22
    DEF Next, ServerStep, ServerReads, ClientStep, NearCloses, LocalStep, AnswerStep,
        PhoneStep, Faults, ConnectFails

-----------------------------------------------------------------------------
(* The registrations stay sound.                                           *)

\* An end that is asked to close is not opened by it, and none disappears.
LEMMA ClosingState ==
    ASSUME NEW S, NEW end \in [S -> EndState], NEW g \in S, NEW h \in S
    PROVE  /\ Closing(end, g)[h] = "open" <=> end[h] = "open" /\ h # g
           /\ Closing(end, g)[h] = "closed" <=> end[h] = "closed"
           /\ Closing(end, g)[h] = "connecting" <=> end[h] = "connecting"
BY DEF Closing, EndState

\* A connection that is not in use has no ends.
LEMMA UnusedEnds ==
    ASSUME NEW h \in Conns, Unused(h)
    PROVE  h \in Conns /\ near[h] = "closed" /\ far[h] = "closed"
BY DEF Unused, Gone

\* Every step keeps the registrations sound.
LEMMA RegisteredStep ==
    ASSUME TypeOK, TypeOK', Registered, [Next]_vars
    PROVE  Registered'
<1> USE DEF link, server, client, gateway
<1> DEFINE Same == UNCHANGED <<host, known, mobiles, phone, hostOf>>
<1>0. /\ near \in [Conns -> EndState] /\ far \in [Conns -> EndState]
      /\ host \in Conns \cup {NoConn} /\ known \subseteq Conns
      /\ phone \in [Phones -> {"new", "open", "closing", "closed"}]
      /\ mobiles \in [Conns -> SUBSET Phones]
      /\ hostOf \in [Phones -> Conns \cup {NoConn}]
      BY DEF TypeOK, LinkTypeOK, ServerTypeOK
<1>1. ASSUME NEW h \in Conns, RegisterHost(h) PROVE Registered'
  <2>1. /\ far[h] \in {"open", "closing"} /\ near' = near /\ host' = h
        /\ known' = known \cup {h} /\ UNCHANGED <<mobiles, phone, hostOf>>
        BY <1>1 DEF RegisterHost, Takes
  <2>2. CASE host = NoConn
        BY <1>0, <1>1, <2>1, <2>2 DEF RegisterHost, Registered, FarState,
           HostIsKnown, OpenHostIsFound, NoOrphanPhone
  <2>3. CASE host # NoConn
    <3>1. host \in Conns /\ far' = Closing(far, host)
          BY <1>0, <1>1, <2>3 DEF RegisterHost
    <3>2. FarState' /\ HostIsKnown' /\ OpenHostIsFound'
          BY <1>0, <2>1, <2>3, <3>1, ClosingState DEF Registered, FarState,
             HostIsKnown, OpenHostIsFound
    <3>3. NoOrphanPhone'
          BY <2>1 DEF Registered, NoOrphanPhone
    <3> QED BY <3>2, <3>3 DEF Registered
  <2> QED BY <2>2, <2>3
<1>2. ASSUME NEW h \in Conns, ForwardResponse(h) PROVE Registered'
      BY <1>2 DEF ForwardResponse, Takes, Registered, FarState, HostIsKnown,
         OpenHostIsFound, NoOrphanPhone
<1>3. ASSUME NEW h \in Conns, FailPhone(h) PROVE Registered'
  <2>1. \A p \in Phones : phone'[p] = "open" => phone[p] = "open"
        BY <1>0, <1>3 DEF FailPhone, Closing
  <2> QED BY <1>3, <2>1 DEF FailPhone, Takes, Registered, FarState, HostIsKnown,
         OpenHostIsFound, NoOrphanPhone
<1>4. ASSUME NEW h \in Conns, FarCloses(h) PROVE Registered'
  <2>1. /\ far' = [far EXCEPT ![h] = "closed"] /\ near' = near
        /\ known' = known \ {h}
        /\ hostOf' = [p \in Phones |-> IF hostOf[p] = h THEN NoConn ELSE hostOf[p]]
        BY <1>4 DEF FarCloses
  <2>2. CASE h \in known
    <3>1. /\ host' = Unregistered(h) /\ phone' = Orphaned(h)
          /\ mobiles' = [mobiles EXCEPT ![h] = {}]
          BY <1>4, <2>2 DEF FarCloses
    <3>2. FarState' /\ HostIsKnown' /\ OpenHostIsFound'
          BY <1>0, <2>1, <3>1 DEF Unregistered, Registered, FarState, HostIsKnown,
             OpenHostIsFound
    <3>3. ASSUME NEW p \in Phones, phone'[p] = "open"
          PROVE  hostOf'[p] \in known' /\ p \in mobiles'[hostOf'[p]]
      <4>1. phone[p] = "open" /\ p \notin mobiles[h]
            BY <3>1, <3>3 DEF Orphaned
      <4>2. hostOf[p] \in known /\ p \in mobiles[hostOf[p]] /\ hostOf[p] # h
            BY <4>1 DEF Registered, NoOrphanPhone
      <4> QED BY <1>0, <2>1, <3>1, <4>2
    <3> QED BY <3>2, <3>3 DEF Registered, NoOrphanPhone
  <2>3. CASE h \notin known
        BY <1>0, <1>4, <2>1, <2>3 DEF FarCloses, Registered, FarState, HostIsKnown,
           OpenHostIsFound, NoOrphanPhone
  <2> QED BY <2>2, <2>3
<1>5. ASSUME NEW h \in Conns, FarHears(h) \/ NearHears(h), Same PROVE Registered'
      BY <1>0, <1>5 DEF FarHears, NearHears, Registered, FarState, HostIsKnown,
         OpenHostIsFound, NoOrphanPhone
<1>6. ASSUME NEW h \in Conns, Connect(h), Same PROVE Registered'
  <2>1. far[h] = "closed" /\ near' = [near EXCEPT ![h] = "connecting"] /\ far' = far
        BY <1>6, UnusedEnds DEF Connect
  <2> QED BY <1>0, <1>6, <2>1 DEF Registered, FarState, HostIsKnown, OpenHostIsFound,
         NoOrphanPhone
<1>7. ASSUME NEW h \in Conns, Opens(h), Same PROVE Registered'
      BY <1>0, <1>7 DEF Opens, Registered, FarState, HostIsKnown,
         OpenHostIsFound, NoOrphanPhone
<1>8. ASSUME NEW h \in Conns, OnClose(h), Same PROVE Registered'
      BY <1>0, <1>8 DEF OnClose, Registered, FarState, HostIsKnown,
         OpenHostIsFound, NoOrphanPhone
<1>9. ASSUME UNCHANGED <<near, far>>, Same PROVE Registered'
      BY <1>9 DEF Registered, FarState, HostIsKnown, OpenHostIsFound, NoOrphanPhone
<1>10. ASSUME NEW h \in Conns, ClientReads(h) PROVE UNCHANGED <<near, far>>
      BY <1>10 DEF ClientReads, OpenChannel, ForwardRequest, CloseChannel, Reads
<1>11. ASSUME NEW p \in Phones, LocalReady(p) \/ LocalDrops(p) \/ LocalCloses(p)
      PROVE UNCHANGED <<near, far>>
      BY <1>11 DEF LocalReady, LocalDrops, LocalCloses
<1>12. ASSUME NEW p \in Phones, NEW n, GatewayAnswers(p, n)
      PROVE UNCHANGED <<near, far>>
      BY <1>12 DEF GatewayAnswers
<1>13. ASSUME NEW p \in Phones, PhoneAuth(p) PROVE Registered'
  <2>1. UNCHANGED <<near, far, host, known>>
        BY <1>13 DEF PhoneAuth
  <2>2. CASE host # NoConn /\ far[host] = "open"
    <3>1. /\ phone' = [phone EXCEPT ![p] = "open"]
          /\ hostOf' = [hostOf EXCEPT ![p] = host]
          /\ mobiles' = [mobiles EXCEPT ![host] = @ \cup {p}]
          BY <1>13, <2>2 DEF PhoneAuth
    <3>2. host \in known /\ host \in Conns
          BY <1>0, <2>2 DEF Registered, HostIsKnown
    <3>3. NoOrphanPhone'
          BY <1>0, <2>1, <3>1, <3>2 DEF Registered, NoOrphanPhone
    <3> QED BY <2>1, <3>3 DEF Registered, FarState, HostIsKnown, OpenHostIsFound
  <2>3. CASE ~(host # NoConn /\ far[host] = "open")
        BY <1>0, <1>13, <2>1, <2>3 DEF PhoneAuth, Registered, FarState, HostIsKnown,
           OpenHostIsFound, NoOrphanPhone
  <2> QED BY <2>2, <2>3
<1>14. ASSUME NEW p \in Phones, PhoneRequests(p) PROVE Registered'
      BY <1>9, <1>14 DEF PhoneRequests
<1>15. ASSUME NEW p \in Phones, PhoneCloses(p) PROVE Registered'
      BY <1>0, <1>15 DEF PhoneCloses, Registered, FarState, HostIsKnown,
         OpenHostIsFound, NoOrphanPhone
<1>16. ASSUME Stops PROVE Registered'
  <2>1. far' = far /\ Same
        BY <1>16 DEF Stops, Stop
  <2>2. relay # NoConn => relay \in Conns
        BY DEF TypeOK, ClientTypeOK
  <2>3. \A h \in Conns : near'[h] = "connecting" => near[h] = "connecting"
        BY <1>0, <1>16, <2>2, ClosingState DEF Stops, Stop
  <2> QED BY <2>1, <2>3 DEF Registered, FarState, HostIsKnown, OpenHostIsFound,
         NoOrphanPhone
<1>17. ASSUME NEW h \in Conns, Break(h), Same PROVE Registered'
      BY <1>9, <1>17 DEF Break
<1>18. ASSUME RelayRestarts PROVE Registered'
      BY <1>18 DEF RelayRestarts, Registered, FarState, HostIsKnown,
         OpenHostIsFound, NoOrphanPhone
<1>19. ASSUME UNCHANGED vars PROVE Registered'
      BY <1>9, <1>19 DEF vars
<1> HIDE DEF link, client, gateway
<1> QED
    BY <1>1, <1>2, <1>3, <1>4, <1>5, <1>6, <1>7, <1>8, <1>9, <1>10, <1>11, <1>12,
       <1>13, <1>14, <1>15, <1>16, <1>17, <1>18, <1>19
    DEF Next, ServerStep, ServerReads, ClientStep, NearCloses, LocalStep, AnswerStep,
        PhoneStep, Faults, ConnectFails

-----------------------------------------------------------------------------
(* What becomes of a queue.                                                *)

\* Less is asked of a queue when its channel ends or its connection may lose.
LEMMA WeakerQueue ==
    ASSUME NEW q \in Seq(Message), NEW p, NEW opened \in BOOLEAN, NEW base,
           NEW last \in Nat, NEW live \in BOOLEAN, NEW intact \in BOOLEAN,
           WellQueued(q, p, opened, base, last, live, intact),
           NEW base2, NEW last2 \in Nat, NEW live2 \in BOOLEAN,
           NEW intact2 \in BOOLEAN,
           live2 => live /\ base2 = base, intact2 => intact /\ last2 = last,
           last <= last2
    PROVE  WellQueued(q, p, opened, base2, last2, live2, intact2)
<1>1. \A i \in 1 .. Len(q) : q[i].phone = p => q[i].n <= last2
  <2>1. \A i \in 1 .. Len(q) : q[i] \in Message
        OBVIOUS
  <2>2. \A i \in 1 .. Len(q) : q[i].n \in Nat /\ (q[i].phone = p => q[i].n <= last)
        BY <2>1 DEF Message, WellQueued
  <2> QED BY <2>2
<1> QED BY <1>1 DEF WellQueued

\* A request that may be lost.
LEMMA LastGrows ==
    ASSUME NEW q \in Seq(Message), NEW p, NEW opened, NEW base, NEW last \in Nat,
           NEW live, WellQueued(q, p, opened, base, last, live, FALSE)
    PROVE  WellQueued(q, p, opened, base, last + 1, live, FALSE)
<1>1. \A i \in 1 .. Len(q) : q[i].phone = p => q[i].n <= last + 1
  <2>1. \A i \in 1 .. Len(q) : q[i] \in Message
        OBVIOUS
  <2>2. \A i \in 1 .. Len(q) : q[i].n \in Nat /\ (q[i].phone = p => q[i].n <= last)
        BY <2>1 DEF Message, WellQueued
  <2> QED BY <2>2
<1> QED BY <1>1 DEF WellQueued

\* A connection that may lose, with nothing about the phone in its queue.
LEMMA SilentQueue ==
    ASSUME NEW q, NEW p, Silent(q, p), NEW opened, NEW base, NEW last, NEW live
    PROVE  WellQueued(q, p, opened, base, last, live, FALSE)
BY DEF Silent, WellQueued, OpensFirst, InOrder

\* A message about another phone changes nothing, nor does the end of a channel.
LEMMA AppendOther ==
    ASSUME NEW q \in Seq(Message), NEW p, NEW opened \in BOOLEAN, NEW base \in Nat,
           NEW last \in Nat, NEW live \in BOOLEAN, NEW intact \in BOOLEAN,
           WellQueued(q, p, opened, base, last, live, intact),
           NEW m \in Message,
           m.phone = p => m.type \notin {"open", "request"} /\ m.n <= last /\ intact
    PROVE  WellQueued(Append(q, m), p, opened, base, last, live, intact)
<1> DEFINE r == Append(q, m)
           N == Len(q) + 1
<1>1. Len(r) = N /\ r[N] = m /\ \A i \in 1 .. Len(q) : r[i] = q[i]
      BY AppendMessage
<1>2. Len(q) \in Nat
      OBVIOUS
<1> HIDE DEF r
<1>3. \A i \in 1 .. Len(r) : \A j \in 1 .. i - 1 : j \in 1 .. Len(q) /\ r[j] = q[j]
      BY <1>1, <1>2
<1>4. OpensFirst(r, p, opened)
  <2>1. OpensFirst(q, p, opened)
        BY DEF WellQueued
  <2>2. ASSUME NEW i \in 1 .. Len(r), r[i].phone = p
        PROVE  /\ opened \/ \E j \in 1 .. i : r[j].phone = p /\ r[j].type = "open"
               /\ r[i].type = "open" => ~opened /\ \A j \in 1 .. i - 1 : r[j].phone # p
    <3>1. CASE i = N
      <4>1. opened \/ \E j \in 1 .. Len(q) : q[j].phone = p /\ q[j].type = "open"
            BY <1>1, <2>2, <3>1 DEF WellQueued
      <4>2. 1 .. Len(q) \subseteq 1 .. i
            BY <1>2, <3>1
      <4> QED BY <1>1, <2>2, <3>1, <4>1, <4>2
    <3>2. CASE i # N
      <4>1. i \in 1 .. Len(q) /\ \A j \in 1 .. i : j \in 1 .. Len(q) /\ r[j] = q[j]
            BY <1>1, <1>2, <3>2
      <4> QED BY <2>1, <2>2, <4>1 DEF OpensFirst
    <3> QED BY <3>1, <3>2
  <2> QED BY <2>2 DEF OpensFirst
<1>5. ASSUME live PROVE InOrder(r, p, base)
  <2>1. InOrder(q, p, base)
        BY <1>5 DEF WellQueued
  <2>2. ASSUME NEW i \in 1 .. Len(r), r[i].phone = p, r[i].type = "request"
        PROVE  /\ r[i].n > base
               /\ \A j \in 1 .. i - 1 :
                     r[j].phone = p /\ r[j].type = "request" => r[j].n < r[i].n
               /\ \A k \in Nat : k > base /\ k < r[i].n =>
                     \E j \in 1 .. i - 1 : r[j] = Msg("request", p, k)
    <3>1. i \in 1 .. Len(q) /\ r[i] = q[i]
          BY <1>1, <1>2, <2>2
    <3>2. \A j \in 1 .. i - 1 : j \in 1 .. Len(q) /\ r[j] = q[j]
          BY <1>3
    <3>3. /\ q[i].n > base
          /\ \A j \in 1 .. i - 1 :
                q[j].phone = p /\ q[j].type = "request" => q[j].n < q[i].n
          /\ \A k \in Nat : k > base /\ k < q[i].n =>
                \E j \in 1 .. i - 1 : q[j] = Msg("request", p, k)
          BY <2>1, <2>2, <3>1 DEF InOrder
    <3> QED BY <3>1, <3>2, <3>3
  <2> QED BY <2>2 DEF InOrder
<1>6. ASSUME live, intact PROVE AllThere(r, p, base, last)
  <2>1. AllThere(q, p, base, last)
        BY <1>6 DEF WellQueued
  <2>2. \A j \in 1 .. Len(q) : j \in 1 .. Len(r) /\ r[j] = q[j]
        BY <1>1, <1>2
  <2> QED BY <2>1, <2>2 DEF AllThere
<1>7. \A i \in 1 .. Len(r) : r[i].phone = p => r[i].n <= last
  <2>1. \A i \in 1 .. Len(q) : q[i].phone = p => q[i].n <= last
        BY DEF WellQueued
  <2> QED BY <1>1, <1>2, <2>1
<1>8. ~opened /\ intact => \E i \in 1 .. Len(r) : r[i].phone = p /\ r[i].type = "open"
      BY <1>1, <1>2 DEF WellQueued
<1> QED BY <1>4, <1>5, <1>6, <1>7, <1>8 DEF WellQueued, r

\* The first message about a phone opens its channel.
LEMMA AppendOpen ==
    ASSUME NEW q \in Seq(Message), NEW p \in Phones, Silent(q, p), NEW live, NEW intact
    PROVE  WellQueued(Append(q, Msg("open", p, 0)), p, FALSE, 0, 0, live, intact)
<1> DEFINE r == Append(q, Msg("open", p, 0))
<1>1. /\ Len(r) = Len(q) + 1 /\ r[Len(q) + 1] = Msg("open", p, 0)
      /\ \A i \in 1 .. Len(q) : r[i] = q[i]
      BY AppendMessage, MsgType
<1>2. Len(q) \in Nat /\ \A i \in 1 .. Len(q) : r[i].phone # p
      BY <1>1 DEF Silent
<1>3. /\ r[Len(q) + 1].phone = p /\ r[Len(q) + 1].type = "open"
      /\ r[Len(q) + 1].n = 0
      BY <1>1 DEF Msg
<1> HIDE DEF r
<1>4. \A i \in 1 .. Len(r) : r[i].phone = p => i = Len(q) + 1
      BY <1>1, <1>2
<1>5. OpensFirst(r, p, FALSE)
      BY <1>1, <1>2, <1>3, <1>4 DEF OpensFirst
<1>6. InOrder(r, p, 0)
      BY <1>3, <1>4 DEF InOrder
<1>7. AllThere(r, p, 0, 0)
      BY DEF AllThere
<1>8. /\ \A i \in 1 .. Len(r) : r[i].phone = p => r[i].n <= 0
      /\ \E i \in 1 .. Len(r) : r[i].phone = p /\ r[i].type = "open"
      BY <1>1, <1>2, <1>3, <1>4
<1> QED BY <1>5, <1>6, <1>7, <1>8 DEF WellQueued, r

\* A request joins those before it, none of which is lost.
LEMMA AppendRequest ==
    ASSUME NEW q \in Seq(Message), NEW p \in Phones, NEW opened,
           NEW base \in Nat, NEW last \in Nat, NEW live, base <= last,
           WellQueued(q, p, opened, base, last, live, TRUE)
    PROVE  WellQueued(Append(q, Msg("request", p, last + 1)), p, opened, base,
                      last + 1, live, TRUE)
<1> DEFINE m == Msg("request", p, last + 1)
           r == Append(q, m)
           N == Len(q) + 1
<1>1. m \in Message /\ m.phone = p /\ m.type = "request" /\ m.n = last + 1
      BY MsgType
<1>2. /\ Len(r) = N /\ r[N] = m /\ \A i \in 1 .. Len(q) : r[i] = q[i]
      BY <1>1, AppendMessage
<1>3. Len(q) \in Nat /\ \A i \in 1 .. Len(q) : q[i].n \in Nat
  <2>1. \A i \in 1 .. Len(q) : q[i] \in Message
        OBVIOUS
  <2> QED BY <2>1 DEF Message
<1> HIDE DEF r, m
<1>4. \A i \in 1 .. Len(r) : \A j \in 1 .. i - 1 : j \in 1 .. Len(q) /\ r[j] = q[j]
      BY <1>2, <1>3
<1>5. OpensFirst(r, p, opened)
  <2>1. OpensFirst(q, p, opened)
        BY DEF WellQueued
  <2>2. ASSUME NEW i \in 1 .. Len(r), r[i].phone = p
        PROVE  /\ opened \/ \E j \in 1 .. i : r[j].phone = p /\ r[j].type = "open"
               /\ r[i].type = "open" => ~opened /\ \A j \in 1 .. i - 1 : r[j].phone # p
    <3>1. CASE i = N
      <4>1. opened \/ \E j \in 1 .. Len(q) : q[j].phone = p /\ q[j].type = "open"
            BY DEF WellQueued
      <4>2. 1 .. Len(q) \subseteq 1 .. i
            BY <1>3, <3>1
      <4> QED BY <1>1, <1>2, <3>1, <4>1, <4>2
    <3>2. CASE i # N
      <4>1. i \in 1 .. Len(q) /\ \A j \in 1 .. i : j \in 1 .. Len(q) /\ r[j] = q[j]
            BY <1>2, <1>3, <3>2
      <4> QED BY <2>1, <2>2, <4>1 DEF OpensFirst
    <3> QED BY <3>1, <3>2
  <2> QED BY <2>2 DEF OpensFirst
<1>6. \A i \in 1 .. Len(r) : r[i].phone = p => r[i].n <= last + 1
  <2>1. \A i \in 1 .. Len(q) : q[i].phone = p => q[i].n <= last
        BY DEF WellQueued
  <2> QED BY <1>1, <1>2, <1>3, <2>1
<1>7. ASSUME live PROVE AllThere(r, p, base, last + 1)
  <2>1. AllThere(q, p, base, last)
        BY <1>7 DEF WellQueued
  <2>2. ASSUME NEW k \in Nat, k > base, k <= last + 1
        PROVE  \E j \in 1 .. Len(r) : r[j] = Msg("request", p, k)
    <3>1. CASE k <= last
          BY <1>2, <1>3, <2>1, <2>2, <3>1 DEF AllThere
    <3>2. CASE k = last + 1
          BY <1>2, <1>3, <3>2 DEF m
    <3> QED BY <2>2, <3>1, <3>2
  <2> QED BY <2>2 DEF AllThere
<1>8. ASSUME live PROVE InOrder(r, p, base)
  <2>1. InOrder(q, p, base) /\ AllThere(q, p, base, last)
        /\ \A i \in 1 .. Len(q) : q[i].phone = p => q[i].n <= last
        BY <1>8 DEF WellQueued
  <2>2. ASSUME NEW i \in 1 .. Len(r), r[i].phone = p, r[i].type = "request"
        PROVE  /\ r[i].n > base
               /\ \A j \in 1 .. i - 1 :
                     r[j].phone = p /\ r[j].type = "request" => r[j].n < r[i].n
               /\ \A k \in Nat : k > base /\ k < r[i].n =>
                     \E j \in 1 .. i - 1 : r[j] = Msg("request", p, k)
    <3>1. CASE i = N
      <4>1. r[i].n = last + 1 /\ i - 1 = Len(q)
            BY <1>1, <1>2, <1>3, <3>1
      <4>2. \A j \in 1 .. i - 1 : r[j].phone = p => r[j].n < r[i].n
            BY <1>3, <1>4, <2>1, <4>1
      <4>3. \A k \in Nat : k > base /\ k < r[i].n =>
                \E j \in 1 .. i - 1 : r[j] = Msg("request", p, k)
            BY <1>2, <2>1, <4>1 DEF AllThere
      <4> QED BY <4>1, <4>2, <4>3
    <3>2. CASE i # N
      <4>1. i \in 1 .. Len(q) /\ r[i] = q[i]
            BY <1>2, <1>3, <3>2
      <4>2. /\ q[i].n > base
            /\ \A j \in 1 .. i - 1 :
                  q[j].phone = p /\ q[j].type = "request" => q[j].n < q[i].n
            /\ \A k \in Nat : k > base /\ k < q[i].n =>
                  \E j \in 1 .. i - 1 : q[j] = Msg("request", p, k)
            BY <2>1, <2>2, <4>1 DEF InOrder
      <4> QED BY <1>4, <4>1, <4>2
    <3> QED BY <3>1, <3>2
  <2> QED BY <2>2 DEF InOrder
<1>9. ~opened => \E i \in 1 .. Len(r) : r[i].phone = p /\ r[i].type = "open"
      BY <1>2, <1>3 DEF WellQueued
<1> QED BY <1>5, <1>6, <1>7, <1>8, <1>9 DEF WellQueued, r, m

\* Taking a message about another phone changes nothing.
LEMMA TailOther ==
    ASSUME NEW q \in Seq(Message), q # <<>>, NEW p \in Phones, NEW opened \in BOOLEAN,
           NEW base \in Nat, NEW last \in Nat, NEW live \in BOOLEAN,
           NEW intact \in BOOLEAN,
           WellQueued(q, p, opened, base, last, live, intact), q[1].phone # p
    PROVE  WellQueued(Tail(q), p, opened, base, last, live, intact)
<1> DEFINE r == Tail(q)
<1>1. /\ Len(r) = Len(q) - 1 /\ Len(q) \in Nat /\ Len(q) > 0
      /\ \A i \in 1 .. Len(r) : r[i] = q[i + 1]
      BY TailMessage
<1> HIDE DEF r
<1>2. \A i \in 1 .. Len(r) : i + 1 \in 1 .. Len(q)
      BY <1>1
<1>3. \A i \in 1 .. Len(q) : i # 1 => i - 1 \in 1 .. Len(r) /\ r[i - 1] = q[i]
      BY <1>1
<1>4. \A k \in Nat : Msg("request", p, k).phone = p
      BY DEF Msg
<1>5. OpensFirst(r, p, opened)
  <2>1. OpensFirst(q, p, opened)
        BY DEF WellQueued
  <2>2. ASSUME NEW i \in 1 .. Len(r), r[i].phone = p
        PROVE  /\ opened \/ \E j \in 1 .. i : r[j].phone = p /\ r[j].type = "open"
               /\ r[i].type = "open" => ~opened /\ \A j \in 1 .. i - 1 : r[j].phone # p
    <3>1. i + 1 \in 1 .. Len(q) /\ r[i] = q[i + 1] /\ (i + 1) - 1 = i
          BY <1>1, <1>2
    <3>2. /\ opened \/ \E j \in 1 .. i + 1 : q[j].phone = p /\ q[j].type = "open"
          /\ q[i + 1].type = "open" => ~opened /\ \A j \in 1 .. i : q[j].phone # p
          BY <2>1, <2>2, <3>1 DEF OpensFirst
    <3>3. ASSUME NEW j \in 1 .. i + 1, q[j].phone = p, q[j].type = "open"
          PROVE  \E l \in 1 .. i : r[l].phone = p /\ r[l].type = "open"
      <4>1. j # 1 /\ j - 1 \in 1 .. i /\ j \in 1 .. Len(q)
            BY <1>1, <3>3
      <4> QED BY <1>3, <3>3, <4>1
    <3>4. ASSUME NEW j \in 1 .. i - 1 PROVE j + 1 \in 1 .. i /\ r[j] = q[j + 1]
          BY <1>1
    <3> QED BY <3>1, <3>2, <3>3, <3>4
  <2> QED BY <2>2 DEF OpensFirst
<1>6. ASSUME live PROVE InOrder(r, p, base)
  <2>1. InOrder(q, p, base)
        BY <1>6 DEF WellQueued
  <2>2. ASSUME NEW i \in 1 .. Len(r), r[i].phone = p, r[i].type = "request"
        PROVE  /\ r[i].n > base
               /\ \A j \in 1 .. i - 1 :
                     r[j].phone = p /\ r[j].type = "request" => r[j].n < r[i].n
               /\ \A k \in Nat : k > base /\ k < r[i].n =>
                     \E j \in 1 .. i - 1 : r[j] = Msg("request", p, k)
    <3>1. i + 1 \in 1 .. Len(q) /\ r[i] = q[i + 1] /\ (i + 1) - 1 = i
          BY <1>1, <1>2
    <3>2. /\ q[i + 1].n > base
          /\ \A j \in 1 .. i :
                q[j].phone = p /\ q[j].type = "request" => q[j].n < q[i + 1].n
          /\ \A k \in Nat : k > base /\ k < q[i + 1].n =>
                \E j \in 1 .. i : q[j] = Msg("request", p, k)
          BY <2>1, <2>2, <3>1 DEF InOrder
    <3>3. ASSUME NEW j \in 1 .. i - 1 PROVE j + 1 \in 1 .. i /\ r[j] = q[j + 1]
          BY <1>1
    <3>4. ASSUME NEW j \in 1 .. i, q[j].phone = p
          PROVE  \E l \in 1 .. i - 1 : r[l] = q[j]
      <4>1. j # 1 /\ j - 1 \in 1 .. i - 1 /\ j \in 1 .. Len(q)
            BY <1>1, <3>4
      <4> QED BY <1>3, <4>1
    <3>5. \A k \in Nat : k > base /\ k < r[i].n =>
                \E j \in 1 .. i - 1 : r[j] = Msg("request", p, k)
          BY <1>4, <3>1, <3>2, <3>4
    <3> QED BY <3>1, <3>2, <3>3, <3>5
  <2> QED BY <2>2 DEF InOrder
<1>7. ASSUME live, intact PROVE AllThere(r, p, base, last)
  <2>1. AllThere(q, p, base, last)
        BY <1>7 DEF WellQueued
  <2> QED BY <1>3, <1>4, <2>1 DEF AllThere
<1>8. \A i \in 1 .. Len(r) : r[i].phone = p => r[i].n <= last
      BY <1>1, <1>2 DEF WellQueued
<1>9. ~opened /\ intact => \E i \in 1 .. Len(r) : r[i].phone = p /\ r[i].type = "open"
      BY <1>3 DEF WellQueued
<1> QED BY <1>5, <1>6, <1>7, <1>8, <1>9 DEF WellQueued, r

\* Of the messages about a phone, the first is the one that opens the channel, ...
LEMMA HeadOpens ==
    ASSUME NEW q \in Seq(Message), q # <<>>, NEW p, NEW opened \in BOOLEAN,
           NEW base, NEW last, NEW live, NEW intact,
           WellQueued(q, p, opened, base, last, live, intact), q[1].phone = p
    PROVE  opened = (q[1].type # "open")
<1>1. 1 \in 1 .. Len(q)
      BY TailMessage
<1>2. /\ opened \/ \E j \in 1 .. 1 : q[j].phone = p /\ q[j].type = "open"
      /\ q[1].type = "open" => ~opened
      BY <1>1 DEF WellQueued, OpensFirst
<1>3. \A j \in 1 .. 1 : j = 1
      OBVIOUS
<1> QED BY <1>2, <1>3

\* ... and a request at the head, while the channel lives, is the next one.
LEMMA HeadIsNext ==
    ASSUME NEW q \in Seq(Message), q # <<>>, NEW p \in Phones, NEW opened,
           NEW base \in Nat, NEW last \in Nat, NEW intact,
           WellQueued(q, p, opened, base, last, TRUE, intact), q[1].phone = p,
           q[1].type = "request"
    PROVE  q[1].n = base + 1 /\ base + 1 <= last
<1>1. q[1].n \in Nat /\ 1 \in 1 .. Len(q)
  <2>1. q[1] \in Message /\ Len(q) \in Nat /\ Len(q) > 0
        BY TailMessage
  <2> QED BY <2>1 DEF Message
<1>2. /\ q[1].n > base
      /\ \A k \in Nat : k > base /\ k < q[1].n =>
            \E j \in 1 .. 1 - 1 : q[j] = Msg("request", p, k)
      BY <1>1 DEF WellQueued, InOrder
<1>3. base + 1 \in Nat /\ base + 1 > base /\ ~ \E j \in 1 .. 1 - 1 : TRUE
      OBVIOUS
<1>4. ~ (base + 1 < q[1].n)
      BY <1>2, <1>3
<1>5. q[1].n <= last
      BY <1>1 DEF WellQueued
<1> QED BY <1>1, <1>2, <1>4, <1>5

\* Taking it from a channel that ends or has ended, ...
LEMMA TailDead ==
    ASSUME NEW q \in Seq(Message), q # <<>>, NEW p, NEW opened,
           NEW base, NEW last, NEW live, NEW intact,
           WellQueued(q, p, opened, base, last, live, intact), q[1].phone = p,
           NEW base2
    PROVE  WellQueued(Tail(q), p, TRUE, base2, last, FALSE, intact)
<1> DEFINE r == Tail(q)
<1>1. /\ Len(r) = Len(q) - 1 /\ Len(q) \in Nat /\ Len(q) > 0
      /\ \A i \in 1 .. Len(r) : r[i] = q[i + 1]
      BY TailMessage
<1> HIDE DEF r
<1>2. OpensFirst(r, p, TRUE)
  <2>1. ASSUME NEW i \in 1 .. Len(r), r[i].phone = p PROVE r[i].type # "open"
    <3>1. i + 1 \in 1 .. Len(q) /\ r[i] = q[i + 1] /\ 1 \in 1 .. (i + 1) - 1
          BY <1>1
    <3> QED BY <2>1, <3>1 DEF WellQueued, OpensFirst
  <2> QED BY <2>1 DEF OpensFirst
<1>3. \A i \in 1 .. Len(r) : r[i].phone = p => r[i].n <= last
  <2>1. \A i \in 1 .. Len(r) : i + 1 \in 1 .. Len(q)
        BY <1>1
  <2> QED BY <1>1, <2>1 DEF WellQueued
<1> QED BY <1>2, <1>3 DEF WellQueued, r

\* ... and from one that lives on.
LEMMA TailOwn ==
    ASSUME NEW q \in Seq(Message), q # <<>>, NEW p \in Phones, NEW opened,
           NEW base \in Nat, NEW last \in Nat, NEW intact,
           WellQueued(q, p, opened, base, last, TRUE, intact), q[1].phone = p,
           NEW base2 \in Nat, q[1].type \in {"open", "request"},
           q[1].type = "open" => base2 = base, q[1].type = "request" => base2 = base + 1
    PROVE  WellQueued(Tail(q), p, TRUE, base2, last, TRUE, intact)
<1> DEFINE r == Tail(q)
<1>1. /\ Len(r) = Len(q) - 1 /\ Len(q) \in Nat /\ Len(q) > 0
      /\ \A i \in 1 .. Len(r) : r[i] = q[i + 1]
      BY TailMessage
<1> HIDE DEF r
<1>2. WellQueued(r, p, TRUE, base2, last, FALSE, intact)
      BY TailDead DEF r
<1>3. \A i \in 1 .. Len(q) : i # 1 => i - 1 \in 1 .. Len(r) /\ r[i - 1] = q[i]
      BY <1>1
<1>4. \A k \in Nat : Msg("request", p, k).n = k /\ Msg("request", p, k).type = "request"
      BY DEF Msg
<1>5. q[1].type = "request" => q[1].n = base + 1
      BY HeadIsNext
<1>6. \A k \in Nat : k > base2 => q[1] # Msg("request", p, k) /\ k > base
      BY <1>4, <1>5
<1>7. InOrder(r, p, base2)
  <2>1. InOrder(q, p, base)
        BY DEF WellQueued
  <2>2. ASSUME NEW i \in 1 .. Len(r), r[i].phone = p, r[i].type = "request"
        PROVE  /\ r[i].n > base2
               /\ \A j \in 1 .. i - 1 :
                     r[j].phone = p /\ r[j].type = "request" => r[j].n < r[i].n
               /\ \A k \in Nat : k > base2 /\ k < r[i].n =>
                     \E j \in 1 .. i - 1 : r[j] = Msg("request", p, k)
    <3>1. i + 1 \in 1 .. Len(q) /\ r[i] = q[i + 1] /\ (i + 1) - 1 = i
          BY <1>1
    <3>2. /\ q[i + 1].n > base
          /\ \A j \in 1 .. i :
                q[j].phone = p /\ q[j].type = "request" => q[j].n < q[i + 1].n
          /\ \A k \in Nat : k > base /\ k < q[i + 1].n =>
                \E j \in 1 .. i : q[j] = Msg("request", p, k)
          BY <2>1, <2>2, <3>1 DEF InOrder
    <3>3. ASSUME NEW j \in 1 .. i - 1 PROVE j + 1 \in 1 .. i /\ r[j] = q[j + 1]
          BY <1>1
    <3>4. q[i + 1].n \in Nat /\ 1 \in 1 .. i
      <4>1. q[i + 1] \in Message
            BY <3>1
      <4> QED BY <4>1 DEF Message
    <3>5. r[i].n > base2
      <4>1. CASE q[1].type = "open"
            BY <3>1, <3>2, <4>1
      <4>2. CASE q[1].type = "request"
        <5>1. q[1].n < q[i + 1].n
              BY <3>2, <3>4, <4>2
        <5> QED BY <1>5, <3>1, <3>4, <4>2, <5>1
      <4> QED BY <4>1, <4>2
    <3>6. ASSUME NEW j \in 1 .. i, j # 1 PROVE \E l \in 1 .. i - 1 : r[l] = q[j]
      <4>1. j - 1 \in 1 .. i - 1 /\ j \in 1 .. Len(q)
            BY <1>1, <3>6
      <4> QED BY <1>3, <3>6, <4>1
    <3>7. \A k \in Nat : k > base2 /\ k < r[i].n =>
                \E j \in 1 .. i - 1 : r[j] = Msg("request", p, k)
          BY <1>6, <3>1, <3>2, <3>6
    <3>8. \A j \in 1 .. i - 1 :
              r[j].phone = p /\ r[j].type = "request" => r[j].n < r[i].n
          BY <3>1, <3>2, <3>3
    <3> QED BY <3>5, <3>7, <3>8
  <2> QED BY <2>2 DEF InOrder
<1>8. ASSUME intact PROVE AllThere(r, p, base2, last)
  <2>1. AllThere(q, p, base, last)
        BY <1>8 DEF WellQueued
  <2> QED BY <1>3, <1>6, <2>1 DEF AllThere
<1> QED BY <1>2, <1>7, <1>8 DEF WellQueued, r

-----------------------------------------------------------------------------
(* Steps.                                                                  *)

\* Messages to a host keep naming phones.
LEMMA NamesStep ==
    ASSUME TypeOK, DownNames, [Next]_vars
    PROVE  DownNames'
<1> DEFINE Named(q) == \A i \in 1 .. Len(q) :
                           q[i].phone \in Phones /\ q[i].type \in {"open", "request", "close"}
<1>0. down \in [Conns -> Seq(Message)] /\ \A h \in Conns : Named(down[h])
      BY DEF TypeOK, LinkTypeOK, DownNames
<1>1. ASSUME \A h \in Conns : down'[h] \in {down[h], <<>>} PROVE DownNames'
  <2>1. \A h \in Conns : Named(down'[h])
        BY <1>0, <1>1
  <2> QED BY <2>1 DEF DownNames
<1>2. ASSUME NEW h \in Conns, ClientReads(h) PROVE DownNames'
  <2>1. down[h] # <<>> /\ down' = [down EXCEPT ![h] = Tail(@)]
        BY <1>2 DEF ClientReads, OpenChannel, ForwardRequest, CloseChannel, Reads
  <2>2. Named(Tail(down[h]))
    <3>1. /\ \A i \in 1 .. Len(Tail(down[h])) : Tail(down[h])[i] = down[h][i + 1]
          /\ Len(Tail(down[h])) = Len(down[h]) - 1 /\ Len(down[h]) \in Nat
          BY <1>0, <2>1, TailMessage
    <3>2. \A i \in 1 .. Len(Tail(down[h])) : i + 1 \in 1 .. Len(down[h])
          BY <3>1
    <3> QED BY <1>0, <3>1, <3>2
  <2>3. \A g \in Conns : Named(down'[g])
        BY <1>0, <2>1, <2>2
  <2> QED BY <2>3 DEF DownNames
<1>3. ASSUME NEW h \in Conns, NEW type \in {"open", "request", "close"},
             NEW p \in Phones, NEW n \in Nat,
             down' = Send(down, far, h, Msg(type, p, n))
      PROVE  DownNames'
  <2> DEFINE m == Msg(type, p, n)
  <2>1. m \in Message /\ m.phone = p /\ m.type = type
        BY MsgType
  <2> HIDE DEF m
  <2>2. Named(Append(down[h], m))
    <3>1. /\ Len(Append(down[h], m)) = Len(down[h]) + 1 /\ Len(down[h]) \in Nat
          /\ \A i \in 1 .. Len(down[h]) : Append(down[h], m)[i] = down[h][i]
          /\ Append(down[h], m)[Len(down[h]) + 1] = m
          BY <1>0, <2>1, AppendMessage
    <3>2. \A i \in 1 .. Len(Append(down[h], m)) :
              i \in 1 .. Len(down[h]) \/ i = Len(down[h]) + 1
          BY <3>1
    <3> QED BY <1>0, <2>1, <3>1, <3>2
  <2>3. \A g \in Conns : down'[g] = down[g] \/ (g = h /\ down'[g] = Append(down[h], m))
        BY <1>0, <1>3 DEF Send, m
  <2>4. \A g \in Conns : Named(down'[g])
        BY <1>0, <2>2, <2>3
  <2> QED BY <2>4 DEF DownNames
<1>4. UNCHANGED down => DownNames'
      BY <1>1
<1>5. ASSUME NEW h \in Conns, ServerStep(h) PROVE DownNames'
  <2>1. ASSUME FarCloses(h) PROVE DownNames'
        BY <1>1, <2>1, Forgets DEF FarCloses
  <2>2. ~FarCloses(h) => UNCHANGED down
        BY <1>5 DEF ServerStep, ServerReads, RegisterHost, ForwardResponse, FailPhone,
           Takes, FarHears
  <2> QED BY <1>4, <2>1, <2>2
<1>6. ASSUME NEW h \in Conns, ClientStep(h) PROVE DownNames'
  <2>1. ASSUME OnClose(h) PROVE DownNames'
        BY <1>1, <2>1, Forgets DEF OnClose
  <2> QED BY <1>2, <1>4, <1>6, <2>1 DEF ClientStep, Connect, Opens, NearCloses, NearHears
<1>7. ASSUME NEW p \in Phones, LocalStep(p) \/ AnswerStep(p) PROVE UNCHANGED down
      BY <1>7 DEF LocalStep, AnswerStep, LocalReady, LocalDrops, LocalCloses,
         GatewayAnswers, link
<1>8. ASSUME NEW p \in Phones, PhoneStep(p) PROVE DownNames'
  <2>1. CASE PhoneAuth(p)
    <3>1. host # NoConn => host \in Conns
          BY DEF TypeOK, ServerTypeOK
    <3>2. down' = down \/ (host # NoConn /\ down' = Send(down, far, host, Msg("open", p, 0)))
          BY <2>1 DEF PhoneAuth
    <3> QED BY <1>3, <1>4, <3>1, <3>2
  <2>2. CASE PhoneRequests(p)
    <3>1. hostOf[p] # NoConn => hostOf[p] \in Conns
          BY DEF TypeOK, ServerTypeOK
    <3>2. down' = down \/ (/\ hostOf[p] # NoConn
                           /\ down' = Send(down, far, hostOf[p],
                                           Msg("request", p, sent[p] + 1)))
          BY <2>2 DEF PhoneRequests, HostOpen
    <3>3. sent[p] + 1 \in Nat
          BY DEF TypeOK, ServerTypeOK
    <3> QED BY <1>3, <1>4, <3>1, <3>2, <3>3
  <2>3. CASE PhoneCloses(p)
    <3>1. hostOf[p] # NoConn => hostOf[p] \in Conns
          BY DEF TypeOK, ServerTypeOK
    <3>2. down' = down \/ (/\ hostOf[p] # NoConn
                           /\ down' = Send(down, far, hostOf[p], Msg("close", p, 0)))
          BY <2>3 DEF PhoneCloses, HostOpen
    <3> QED BY <1>3, <1>4, <3>1, <3>2
  <2> QED BY <1>8, <2>1, <2>2, <2>3 DEF PhoneStep
<1>9. ASSUME Stops PROVE UNCHANGED down
      BY <1>9 DEF Stops, Stop
<1>10. ASSUME Faults PROVE DownNames'
  <2>1. ASSUME NEW h \in Conns, Break(h) PROVE DownNames'
        BY <1>4, <2>1 DEF Break
  <2>2. ASSUME NEW h \in Conns, OnClose(h) PROVE DownNames'
        BY <1>1, <2>2, Forgets DEF OnClose
  <2>3. ASSUME RelayRestarts PROVE DownNames'
        BY <1>1, <2>3, Forgets DEF RelayRestarts
  <2> QED BY <1>10, <2>1, <2>2, <2>3 DEF Faults, ConnectFails
<1>11. UNCHANGED vars => UNCHANGED down
      BY DEF vars, link
<1> QED BY <1>4, <1>5, <1>6, <1>7, <1>8, <1>9, <1>10, <1>11 DEF Next

\* A step in which nothing of a phone is taken: its channel lives on as it was,
\* or ends.
CalmChannel(p) ==
    /\ local'[p] = "none" <=> local[p] = "none"
    /\ Live(p)' => Live(p) /\ Base(p)' = Base(p)
    /\ Taken(p)'

\* A step that sends nothing: a queue stays or is lost, no host gains a phone.
CalmLink ==
    /\ sent' = sent
    /\ \A p \in Phones : /\ phone'[p] = "new" => phone[p] = "new"
                         /\ hostOf'[p] \in {hostOf[p], NoConn}
                         /\ hostOf'[p] # NoConn => far'[hostOf'[p]] # "closed"
    /\ \A h \in Conns : \A p \in Phones :
          /\ Intact(p, h)' => Intact(p, h)
          /\ down'[h] = down[h] \/ (down'[h] = <<>> /\ ~Intact(p, h)')

\* Two sequences in a row.
LEMMA ConcatSeq ==
    ASSUME NEW s \in Seq(Nat), NEW t \in Seq(Nat)
    PROVE  /\ s \o t \in Seq(Nat) /\ Len(s \o t) = Len(s) + Len(t)
           /\ \A i \in 1 .. Len(s) : (s \o t)[i] = s[i]
           /\ \A i \in 1 .. Len(t) : (s \o t)[Len(s) + i] = t[i]
OBVIOUS

\* The types of what is known of a phone.
LEMMA BaseType ==
    TypeOK => \A p \in Phones : Base(p) \in Nat /\ Live(p) \in BOOLEAN
                                /\ sent[p] \in Nat /\ pending[p] \in Seq(Nat)
                                /\ arrived[p] \in Seq(Nat) /\ (local[p] # "none") \in BOOLEAN
                                /\ \A h \in Conns : Intact(p, h) \in BOOLEAN
BY DEF TypeOK, ClientTypeOK, ServerTypeOK, Base, Live, Intact

\* A queue of waiting requests that stays or is emptied.
LEMMA BaseShrinks ==
    ASSUME TypeOK, NEW p \in Phones, Base(p) <= sent[p], sent'[p] = sent[p],
           arrived'[p] = arrived[p], pending'[p] = pending[p] \/ pending'[p] = <<>>
    PROVE  /\ Base(p)' <= sent'[p]
           /\ pending'[p] = pending[p] => Base(p)' = Base(p)
<1> DEFINE a == Len(arrived[p])
           w == Len(pending[p])
           v == Len(pending'[p])
<1>1. a \in Nat /\ w \in Nat /\ sent[p] \in Nat
      BY BaseType
<1>2. v = w \/ v = 0
      OBVIOUS
<1>3. Base(p) = a + w /\ Base(p)' = a + v
      BY DEF Base
<1>4. pending'[p] = pending[p] => v = w
      OBVIOUS
<1> HIDE DEF a, w, v
<1> QED BY <1>1, <1>2, <1>3, <1>4

\* Steps that leave the client alone.
LEMMA ClientStays ==
    ASSUME Channels, UNCHANGED client, UNCHANGED sent
    PROVE  LocalState' /\ \A p \in Phones : CalmChannel(p)
<1>1. LocalState'
      BY DEF client, Channels, LocalState
<1>2. ASSUME NEW p \in Phones PROVE CalmChannel(p)
  <2>1. Taken(p)
        BY DEF Channels, Ordered
  <2> QED BY <2>1 DEF client, CalmChannel, Taken, Base, Live
<1> QED BY <1>1, <1>2

\* closeChannel, for some channels.
LEMMA ChannelsClose ==
    ASSUME TypeOK, TypeOK', Channels, NEW channels, CloseChannels(channels),
           UNCHANGED <<arrived, sent>>
    PROVE  /\ LocalState' /\ \A p \in Phones : CalmChannel(p)
           /\ \A p \in Phones \cap channels : local[p] # "none" => ~Live(p)'
<1>1. /\ local \in [Phones -> {"none", "connecting", "ready", "closing", "closed"}]
      /\ mapped \subseteq Phones
      /\ \A p \in Phones : Base(p) \in Nat /\ pending[p] \in Seq(Nat)
                           /\ arrived[p] \in Seq(Nat) /\ sent[p] \in Nat
      BY BaseType DEF TypeOK, ClientTypeOK
<1>2. \A p \in Phones :
        /\ local'[p] = IF p \notin mapped \cap channels THEN local[p]
                       ELSE CASE local[p] = "connecting" -> "closed"
                              [] local[p] = "ready" -> "closing"
                              [] OTHER -> local[p]
        /\ pending'[p] = IF p \in channels THEN <<>> ELSE pending[p]
        /\ p \in mapped' <=> p \in mapped /\ p \notin channels
      BY <1>1 DEF CloseChannels, LocalClosed
<1>3. \A p \in Phones :
        /\ local[p] = "none" => p \notin mapped /\ arrived[p] = <<>> /\ pending[p] = <<>>
        /\ local[p] \in {"connecting", "ready"} => p \in mapped
        /\ local[p] = "ready" => pending[p] = <<>>
      BY DEF Channels, LocalState
<1>4. LocalState'
      BY <1>1, <1>2, <1>3 DEF LocalState
<1>5. ASSUME NEW p \in Phones, p \in channels, local[p] # "none" PROVE ~Live(p)'
      BY <1>1, <1>2, <1>3, <1>5 DEF Live
<1>6. ASSUME NEW p \in Phones PROVE CalmChannel(p)
  <2>1. Taken(p)
        BY DEF Channels, Ordered
  <2>2. local'[p] = "none" <=> local[p] = "none"
        BY <1>1, <1>2
  <2>3. Live(p)' => Live(p)
        BY <1>1, <1>2, <1>3 DEF Live
  <2>4. Live(p)' => pending'[p] = pending[p]
        BY <1>2, <1>3, <1>5
  <2>5. pending'[p] = pending[p] \/ pending'[p] = <<>>
        BY <1>2
  <2>6. Base(p) <= sent[p] /\ sent'[p] = sent[p] /\ arrived'[p] = arrived[p]
        BY <2>1 DEF Taken
  <2>7. /\ Base(p)' <= sent'[p]
        /\ pending'[p] = pending[p] => Base(p)' = Base(p)
        BY <2>5, <2>6, BaseShrinks
  <2>8. Live(p)' => Base(p)' = Base(p)
        BY <2>4, <2>7
  <2>9. Taken(p)'
        BY <2>1, <2>3, <2>4, <2>7 DEF Taken
  <2> QED BY <2>2, <2>3, <2>8, <2>9 DEF CalmChannel
<1> QED BY <1>4, <1>5, <1>6

\* auth.ready flushes the queue of the channel, in order.
LEMMA LocalIsReady ==
    ASSUME TypeOK, Channels, UNCHANGED sent, NEW r \in Phones, LocalReady(r)
    PROVE  LocalState' /\ \A p \in Phones : CalmChannel(p)
<1>1. /\ local \in [Phones -> {"none", "connecting", "ready", "closing", "closed"}]
      /\ pending \in [Phones -> Seq(Nat)] /\ arrived \in [Phones -> Seq(Nat)]
      BY DEF TypeOK, ClientTypeOK
<1>2. /\ local[r] = "connecting" /\ local' = [local EXCEPT ![r] = "ready"]
      /\ arrived' = [arrived EXCEPT ![r] = @ \o pending[r]]
      /\ pending' = [pending EXCEPT ![r] = <<>>] /\ mapped' = mapped
      BY DEF LocalReady, Flushed
<1>3. LocalState'
      BY <1>1, <1>2 DEF Channels, LocalState
<1>4. ASSUME NEW p \in Phones PROVE CalmChannel(p)
  <2>1. Taken(p)
        BY DEF Channels, Ordered
  <2>2. CASE p # r
        BY <1>1, <1>2, <2>1, <2>2 DEF CalmChannel, Taken, Base, Live
  <2>3. CASE p = r
    <3> DEFINE a == arrived[r]
               w == pending[r]
    <3>0. a \in Seq(Nat) /\ w \in Seq(Nat)
          BY <1>1
    <3>1. arrived'[r] = a \o w /\ pending'[r] = <<>> /\ local'[r] = "ready"
          BY <1>1, <1>2
    <3> HIDE DEF a, w
    <3>2. /\ Len(a \o w) = Len(a) + Len(w) /\ Len(a) \in Nat /\ Len(w) \in Nat
          /\ \A i \in 1 .. Len(a) : (a \o w)[i] = a[i]
          /\ \A i \in 1 .. Len(w) : (a \o w)[Len(a) + i] = w[i]
          BY <3>0, ConcatSeq
    <3>3. /\ \A i \in 1 .. Len(a) : a[i] = i
          /\ \A i \in 1 .. Len(w) : w[i] = Len(a) + i
          BY <1>2, <2>1, <2>3 DEF Taken, Live, a, w
    <3>4. \A i \in 1 .. Len(a \o w) : (a \o w)[i] = i
      <4>1. ASSUME NEW i \in 1 .. Len(a \o w) PROVE (a \o w)[i] = i
        <5>1. CASE i <= Len(a)
              BY <3>2, <3>3, <5>1
        <5>2. CASE ~(i <= Len(a))
          <6>1. i - Len(a) \in 1 .. Len(w) /\ i = Len(a) + (i - Len(a))
                BY <3>2, <5>2
          <6>2. (a \o w)[Len(a) + (i - Len(a))] = Len(a) + (i - Len(a))
                BY <3>2, <3>3, <6>1
          <6> QED BY <6>1, <6>2
        <5> QED BY <5>1, <5>2
      <4> QED BY <4>1
    <3>5. Base(r)' = Base(r) /\ Len(pending'[r]) = 0
          BY <3>1, <3>2 DEF Base, a, w
    <3>6. Base(r)' <= sent'[r]
          BY <2>1, <2>3, <3>5 DEF Taken
    <3>7. Taken(r)'
          BY <3>1, <3>2, <3>4, <3>5, <3>6 DEF Taken
    <3> QED BY <1>2, <2>3, <3>1, <3>5, <3>7 DEF CalmChannel, Live
  <2> QED BY <2>2, <2>3
<1> QED BY <1>3, <1>4

\* The gateway drops a socket, and the socket closes.
LEMMA LocalEnds ==
    ASSUME TypeOK, Channels, UNCHANGED sent, NEW r \in Phones,
           LocalDrops(r) \/ LocalCloses(r)
    PROVE  LocalState' /\ \A p \in Phones : CalmChannel(p)
<1>1. /\ local \in [Phones -> {"none", "connecting", "ready", "closing", "closed"}]
      /\ pending \in [Phones -> Seq(Nat)] /\ arrived \in [Phones -> Seq(Nat)]
      /\ sent \in [Phones -> Nat]
      BY DEF TypeOK, ClientTypeOK, ServerTypeOK
<1>2. /\ local[r] # "none" /\ arrived' = arrived
      /\ \E s \in {"closing", "closed"} : local' = [local EXCEPT ![r] = s]
      /\ pending' = pending \/ pending' = [pending EXCEPT ![r] = <<>>]
      /\ mapped' = mapped \/ mapped' = mapped \ {r}
      BY DEF LocalDrops, LocalCloses, gateway
<1>3. LocalState'
      BY <1>1, <1>2 DEF Channels, LocalState
<1>4. ASSUME NEW p \in Phones PROVE CalmChannel(p)
  <2>1. Taken(p)
        BY DEF Channels, Ordered
  <2>2. CASE p # r
        BY <1>1, <1>2, <2>1, <2>2 DEF CalmChannel, Taken, Base, Live
  <2>3. CASE p = r
    <3>1. ~Live(r)' /\ local'[r] # "none"
          BY <1>1, <1>2 DEF Live
    <3>2. pending'[r] = pending[r] \/ pending'[r] = <<>>
          BY <1>1, <1>2
    <3>3. Base(r)' <= sent'[r]
      <4>1. Base(r) <= sent[r] /\ sent'[r] = sent[r] /\ arrived'[r] = arrived[r]
            BY <1>2, <2>1, <2>3 DEF Taken
      <4> QED BY <3>2, <4>1, BaseShrinks
    <3>4. Taken(r)'
          BY <1>2, <2>1, <2>3, <3>1, <3>3 DEF Taken
    <3> QED BY <1>2, <2>3, <3>1, <3>4 DEF CalmChannel
  <2> QED BY <2>2, <2>3
<1> QED BY <1>3, <1>4

\* The steps that send nothing and take nothing.
LEMMA CalmStep ==
    ASSUME TypeOK, TypeOK', Channels, CalmLink, LocalState',
           \A p \in Phones : CalmChannel(p)
    PROVE  Channels'
<1>1. \A h \in Conns : \A p \in Phones : Silent(down[h], p) => Silent(down'[h], p)
      BY DEF CalmLink, Silent
<1>2. \A p \in Phones : hostOf[p] \in Conns \cup {NoConn}
      BY DEF TypeOK, ServerTypeOK
<1>3. OneHost'
  <2>1. OneHost
        BY DEF Channels
  <2>2. \A p \in Phones : /\ hostOf'[p] # NoConn => hostOf'[p] = hostOf[p]
                          /\ hostOf'[p] # NoConn => far'[hostOf'[p]] # "closed"
        BY DEF CalmLink
  <2> QED BY <1>1, <2>1, <2>2 DEF OneHost
<1>4. NewIsSilent'
      BY <1>1 DEF Channels, NewIsSilent, CalmLink, CalmChannel
<1>5. ASSUME NEW p \in Phones, NEW h \in Conns PROVE Queued(p, h)'
  <2>1. /\ Queued(p, h) /\ down[h] \in Seq(Message)
        /\ (local[p] # "none" <=> local'[p] # "none") /\ sent'[p] = sent[p]
        BY DEF Channels, Ordered, CalmChannel, CalmLink, TypeOK, LinkTypeOK
  <2>2. /\ Base(p) \in Nat /\ Live(p) \in BOOLEAN /\ Intact(p, h) \in BOOLEAN
        /\ sent[p] \in Nat /\ (local[p] # "none") \in BOOLEAN
        BY BaseType
  <2>3. /\ Base(p)' \in Nat /\ Live(p)' \in BOOLEAN /\ Intact(p, h)' \in BOOLEAN
        BY DEF TypeOK, ClientTypeOK, Base, Live, Intact
  <2>4. CASE down'[h] = down[h]
    <3>1. /\ Live(p)' => Live(p) /\ Base(p)' = Base(p)
          /\ Intact(p, h)' => Intact(p, h)
          BY DEF CalmLink, CalmChannel
    <3>2. WellQueued(down[h], p, local[p] # "none", Base(p)', sent[p], Live(p)',
                     Intact(p, h)')
      <4>1. WellQueued(down[h], p, local[p] # "none", Base(p), sent[p], Live(p),
                       Intact(p, h))
            BY <2>1 DEF Queued
      <4>2. sent[p] <= sent[p]
            BY <2>2
      <4>3. down[h] \in Seq(Message)
            BY <2>1
      <4> DEFINE o == local[p] # "none"
      <4>4. o \in BOOLEAN
            OBVIOUS
      <4> HIDE DEF o
      <4>5. WellQueued(down[h], p, o, Base(p), sent[p], Live(p), Intact(p, h))
            BY <4>1 DEF o
      <4>6. WellQueued(down[h], p, o, Base(p)', sent[p], Live(p)', Intact(p, h)')
            BY <2>2, <2>3, <3>1, <4>2, <4>3, <4>4, <4>5, WeakerQueue
      <4> QED BY <4>6 DEF o
    <3> QED BY <2>1, <2>4, <3>2 DEF Queued
  <2>5. CASE down'[h] = <<>> /\ ~Intact(p, h)'
    <3>1. Silent(<<>>, p)
          BY DEF Silent
    <3>2. WellQueued(<<>>, p, local'[p] # "none", Base(p)', sent'[p], Live(p)', FALSE)
          BY <3>1, SilentQueue
    <3> QED BY <2>3, <2>5, <3>2 DEF Queued
  <2> QED BY <2>4, <2>5 DEF CalmLink
<1>6. Ordered'
      BY <1>5 DEF Ordered, CalmChannel
<1> QED BY <1>3, <1>4, <1>6 DEF Channels

\* What the first message of a queue says of its phone.
LEMMA HeadOfQueue ==
    ASSUME TypeOK, DownNames, Channels, NEW h \in Conns, down[h] # <<>>
    PROVE  LET m == Head(down[h]) IN
           /\ m = down[h][1] /\ m.phone \in Phones /\ m.n \in Nat
           /\ local[m.phone] # "none" <=> m.type # "open"
           /\ Live(m.phone) /\ m.type = "request" =>
                 m.n = Base(m.phone) + 1 /\ m.n <= sent[m.phone]
<1> DEFINE m == Head(down[h])
           p == m.phone
<1>1. down[h] \in Seq(Message)
      BY DEF TypeOK, LinkTypeOK
<1>2. m = down[h][1] /\ m \in Message /\ 1 \in 1 .. Len(down[h])
      BY <1>1, TailMessage
<1>3. p \in Phones /\ m.n \in Nat
      BY <1>2 DEF DownNames, Message
<1> HIDE DEF m
<1> DEFINE o == local[p] # "none"
<1>4. /\ Base(p) \in Nat /\ Live(p) \in BOOLEAN /\ Intact(p, h) \in BOOLEAN
      /\ sent[p] \in Nat /\ o \in BOOLEAN
      BY <1>3, BaseType
<1>5. WellQueued(down[h], p, o, Base(p), sent[p], Live(p), Intact(p, h))
      BY <1>3 DEF Channels, Ordered, Queued
<1> HIDE DEF o, p
<1>6. down[h][1].phone = p
      BY <1>2 DEF p
<1>7. o = (down[h][1].type # "open")
      BY <1>1, <1>4, <1>5, <1>6, HeadOpens
<1>8. ASSUME Live(p), down[h][1].type = "request"
      PROVE  down[h][1].n = Base(p) + 1 /\ Base(p) + 1 <= sent[p]
  <2>1. WellQueued(down[h], p, o, Base(p), sent[p], TRUE, Intact(p, h))
        BY <1>4, <1>5, <1>8
  <2> QED BY <1>1, <1>3, <1>4, <1>6, <1>8, <2>1, HeadIsNext
<1> QED BY <1>2, <1>3, <1>7, <1>8 DEF m, o, p

\* The client reads a message: its phone's requests move on, no other's.
LEMMA ReadStep ==
    ASSUME TypeOK, TypeOK', DownNames, Channels, LocalState',
           NEW h \in Conns, NEW p, NEW type, Reads(h, type), UNCHANGED server,
           p = Head(down[h]).phone, Taken(p)', local'[p] # "none",
           Live(p)' => Live(p) /\ \/ type = "open" /\ Base(p)' = Base(p)
                                  \/ type = "request" /\ Base(p)' = Base(p) + 1,
           \A r \in Phones : r # p => CalmChannel(r)
    PROVE  Channels'
<1>1. /\ down[h] # <<>> /\ Head(down[h]).type = type
      /\ down' = [down EXCEPT ![h] = Tail(@)]
      /\ UNCHANGED <<far, broken, phone, hostOf, sent>>
      BY DEF Reads, server
<1>2. \A g \in Conns : down[g] \in Seq(Message)
      BY DEF TypeOK, LinkTypeOK
<1>3. p \in Phones /\ down[h][1].phone = p /\ down[h][1].type = type
      BY <1>1, HeadOfQueue
<1>4. /\ down'[h] = Tail(down[h]) /\ \A g \in Conns : g # h => down'[g] = down[g]
      BY <1>1 DEF TypeOK, LinkTypeOK
<1>5. \A g \in Conns, r \in Phones : Silent(down[g], r) => Silent(down'[g], r)
  <2>1. ASSUME NEW r \in Phones, Silent(down[h], r) PROVE Silent(Tail(down[h]), r)
    <3>1. /\ \A i \in 1 .. Len(Tail(down[h])) : Tail(down[h])[i] = down[h][i + 1]
          /\ Len(Tail(down[h])) = Len(down[h]) - 1 /\ Len(down[h]) \in Nat
          BY <1>1, <1>2, TailMessage
    <3>2. \A i \in 1 .. Len(Tail(down[h])) : i + 1 \in 1 .. Len(down[h])
          BY <3>1
    <3> QED BY <2>1, <3>1, <3>2 DEF Silent
  <2> QED BY <1>4, <2>1
<1>6. ~Silent(down[h], p)
  <2>1. 1 \in 1 .. Len(down[h])
        BY <1>1, <1>2, TailMessage
  <2> QED BY <1>3, <2>1 DEF Silent
<1>7. OneHost'
      BY <1>1, <1>5 DEF Channels, OneHost
<1>8. NewIsSilent'
  <2>1. phone[p] # "new"
        BY <1>3, <1>6 DEF Channels, NewIsSilent
  <2> QED BY <1>1, <1>5, <2>1 DEF Channels, NewIsSilent, CalmChannel
<1>9. ASSUME NEW r \in Phones, NEW g \in Conns PROVE Queued(r, g)'
  <2> DEFINE o == local[r] # "none"
             b == Base(r)
             c == Base(r)'
             l == Live(r)
             k == Live(r)'
             f == Intact(r, g)
  <2>1. WellQueued(down[g], r, o, b, sent[r], l, f)
        BY DEF Channels, Ordered, Queued
  <2>2. /\ b \in Nat /\ l \in BOOLEAN /\ f \in BOOLEAN /\ sent[r] \in Nat
        /\ o \in BOOLEAN /\ k \in BOOLEAN /\ sent[r] <= sent[r]
        BY BaseType DEF Live
  <2>3. Intact(r, g)' = f /\ sent'[r] = sent[r]
        BY <1>1 DEF Intact
  <2>4. r # p => o = (local'[r] # "none") /\ (k => l /\ c = b)
        BY DEF CalmChannel
  <2>5. r = p => /\ local'[r] # "none"
                 /\ k => l /\ \/ down[h][1].type = "open" /\ c = b
                              \/ down[h][1].type = "request" /\ c = b + 1
        BY <1>3
  <2>6. r = p /\ g # h => Silent(down[g], r) /\ ~f
        BY <1>6 DEF Channels, OneHost, Intact
  <2>7. Queued(r, g)' = WellQueued(down'[g], r, local'[r] # "none", c, sent[r], k, f)
        BY <2>3 DEF Queued
  <2> HIDE DEF o, b, c, l, k, f
  <2>8. CASE r = p /\ g = h
    <3>1. WellQueued(Tail(down[h]), r, TRUE, c, sent[r], k, f)
      <4>1. /\ down[h] \in Seq(Message) /\ down[h] # <<>> /\ down[h][1].phone = r
            /\ WellQueued(down[h], r, o, b, sent[r], l, f)
            BY <1>1, <1>2, <1>3, <2>1, <2>8
      <4>2. CASE ~k
        <5>1. WellQueued(Tail(down[h]), r, TRUE, c, sent[r], FALSE, f)
              BY <4>1, TailDead
        <5>2. k = FALSE
              BY <2>2, <4>2
        <5> QED BY <5>1, <5>2
      <4>3. CASE k
        <5>1. /\ WellQueued(down[h], r, o, b, sent[r], TRUE, f)
              /\ \/ down[h][1].type = "open" /\ c = b
                 \/ down[h][1].type = "request" /\ c = b + 1
              BY <2>2, <2>5, <2>8, <4>1, <4>3
        <5>2. WellQueued(Tail(down[h]), r, TRUE, c, sent[r], TRUE, f)
          <6>1. c \in Nat
                BY <2>2, <5>1
          <6>2. /\ down[h][1].type \in {"open", "request"}
                /\ down[h][1].type = "open" => c = b
                /\ down[h][1].type = "request" => c = b + 1
                BY <5>1
          <6> QED BY <2>2, <4>1, <5>1, <6>1, <6>2, TailOwn
        <5>3. k = TRUE
              BY <2>2, <4>3
        <5> QED BY <5>2, <5>3
      <4> QED BY <4>2, <4>3
    <3> QED BY <1>4, <2>5, <2>7, <2>8, <3>1
  <2>9. CASE r = p /\ g # h
    <3>1. WellQueued(down[g], r, TRUE, c, sent[r], k, FALSE)
          BY <2>6, <2>9, SilentQueue
    <3>2. f = FALSE
          BY <2>2, <2>6, <2>9
    <3> QED BY <1>4, <2>5, <2>7, <2>9, <3>1, <3>2
  <2>10. CASE r # p
    <3>1. WellQueued(down'[g], r, o, b, sent[r], l, f)
      <4>1. CASE g = h
            BY <1>1, <1>2, <1>3, <1>4, <2>1, <2>2, <2>10, <4>1, TailOther
      <4>2. CASE g # h
            BY <1>4, <2>1, <4>2
      <4> QED BY <4>1, <4>2
    <3>2. down'[g] \in Seq(Message)
          BY DEF TypeOK, LinkTypeOK
    <3>3. WellQueued(down'[g], r, o, c, sent[r], k, f)
          BY <2>2, <2>4, <2>10, <3>1, <3>2, WeakerQueue
    <3>4. o = (local'[r] # "none")
          BY <2>4, <2>10
    <3> QED BY <2>7, <3>3, <3>4
  <2> QED BY <2>8, <2>9, <2>10
<1>10. Ordered'
  <2>1. \A r \in Phones : Taken(r)'
        BY DEF CalmChannel
  <2> QED BY <1>9, <2>1 DEF Ordered
<1> QED BY <1>7, <1>8, <1>10 DEF Channels

\* What send does to a queue: it stays when the relay's end is not open, or the
\* message is added to it.
LEMMA SendEffect ==
    ASSUME TypeOK, NEW h \in Conns, NEW m \in Message, down' = Send(down, far, h, m)
    PROVE  /\ \A g \in Conns : g # h => down'[g] = down[g]
           /\ \/ down'[h] = down[h] /\ far[h] # "open"
              \/ down'[h] = Append(down[h], m) /\ far[h] = "open"
           /\ \A g \in Conns : down[g] \in Seq(Message)
BY DEF Send, TypeOK, LinkTypeOK

\* send says nothing about another phone.
LEMMA SendSilent ==
    ASSUME TypeOK, NEW h \in Conns, NEW m \in Message, down' = Send(down, far, h, m),
           NEW g \in Conns, NEW r, Silent(down[g], r), g # h \/ m.phone # r
    PROVE  Silent(down'[g], r)
<1>1. CASE down'[g] = down[g]
      BY <1>1
<1>2. CASE g = h /\ down'[g] = Append(down[g], m)
  <2>1. down[g] \in Seq(Message)
        BY SendEffect
  <2>2. /\ Len(down'[g]) = Len(down[g]) + 1 /\ Len(down[g]) \in Nat
        /\ \A i \in 1 .. Len(down[g]) : down'[g][i] = down[g][i]
        /\ down'[g][Len(down[g]) + 1] = m
        BY <1>2, <2>1, AppendMessage
  <2>3. \A i \in 1 .. Len(down'[g]) : i \in 1 .. Len(down[g]) \/ i = Len(down[g]) + 1
        BY <2>2
  <2> QED BY <1>2, <2>2, <2>3 DEF Silent
<1> QED BY <1>1, <1>2, SendEffect

\* The queues of the phones that a message is not about.
LEMMA SendOther ==
    ASSUME TypeOK, Channels, NEW h \in Conns, NEW m \in Message,
           down' = Send(down, far, h, m), NEW r \in Phones, NEW g \in Conns,
           m.phone = r => m.type \notin {"open", "request"} /\ m.n <= sent[r]
                          /\ hostOf[r] = h
    PROVE  WellQueued(down'[g], r, local[r] # "none", Base(r), sent[r], Live(r),
                      Intact(r, g))
<1> DEFINE o == local[r] # "none"
           b == Base(r)
           l == Live(r)
           f == Intact(r, g)
<1>1. WellQueued(down[g], r, o, b, sent[r], l, f)
      BY DEF Channels, Ordered, Queued
<1>2. b \in Nat /\ l \in BOOLEAN /\ f \in BOOLEAN /\ sent[r] \in Nat /\ o \in BOOLEAN
      BY BaseType
<1>3. CASE down'[g] = down[g]
      BY <1>1, <1>3
<1>4. CASE g = h /\ down'[g] = Append(down[g], m) /\ far[h] = "open"
  <2>1. m.phone = r => m.type \notin {"open", "request"} /\ m.n <= sent[r] /\ f
        BY <1>4 DEF Intact
  <2>2. down[g] \in Seq(Message)
        BY SendEffect
  <2> HIDE DEF o, b, l, f
  <2>3. WellQueued(Append(down[g], m), r, o, b, sent[r], l, f)
        BY <1>1, <1>2, <2>1, <2>2, AppendOther
  <2> QED BY <1>4, <2>3 DEF o, b, l, f
<1> QED BY <1>3, <1>4, SendEffect

\* All about a phone stays on one connection when the message goes there.
LEMMA SendOneHost ==
    ASSUME TypeOK, NEW h \in Conns, NEW m \in Message, down' = Send(down, far, h, m),
           \A r \in Phones : \A g, k \in Conns :
               Silent(down[g], r) \/ Silent(down[k], r) \/ g = k,
           \A g \in Conns : g # h => Silent(down[g], m.phone)
    PROVE  \A r \in Phones : \A g, k \in Conns :
               Silent(down'[g], r) \/ Silent(down'[k], r) \/ g = k
<1> SUFFICES ASSUME NEW r \in Phones, NEW g \in Conns, NEW k \in Conns, g # k
             PROVE  Silent(down'[g], r) \/ Silent(down'[k], r)
    OBVIOUS
<1>1. CASE m.phone # r
  <2>1. Silent(down[g], r) \/ Silent(down[k], r)
        OBVIOUS
  <2> QED BY <1>1, <2>1, SendSilent
<1>2. CASE m.phone = r
  <2>1. (g # h /\ Silent(down[g], r)) \/ (k # h /\ Silent(down[k], r))
        BY <1>2
  <2> QED BY <2>1, SendSilent
<1> QED BY <1>1, <1>2

\* Steps of the phones leave the client alone.
LEMMA ClientKept ==
    ASSUME Channels, UNCHANGED client
    PROVE  /\ LocalState'
           /\ \A r \in Phones : /\ Base(r)' = Base(r) /\ Live(r)' = Live(r)
                                /\ local'[r] = local[r]
                                /\ sent'[r] = sent[r] => Taken(r)'
<1>1. LocalState'
      BY DEF client, Channels, LocalState
<1>2. \A r \in Phones : Base(r)' = Base(r) /\ Live(r)' = Live(r) /\ local'[r] = local[r]
      BY DEF client, Base, Live
<1>3. \A r \in Phones : sent'[r] = sent[r] => Taken(r)'
      BY <1>2 DEF client, Taken, Channels, Ordered
<1> QED BY <1>1, <1>2, <1>3

\* registerMobile opens the channel of a phone that is given a host.
LEMMA AuthStep ==
    ASSUME TypeOK, TypeOK', Registered, Channels, NEW p \in Phones,
           PhoneAuth(p), UNCHANGED client
    PROVE  Channels'
<1>1. phone[p] = "new" /\ UNCHANGED <<far, broken, sent>>
      BY DEF PhoneAuth
<1>2. hostOf[p] = NoConn /\ sent[p] = 0 /\ local[p] = "none"
      /\ \A h \in Conns : Silent(down[h], p)
      BY <1>1 DEF Channels, NewIsSilent
<1>3. CASE host # NoConn /\ far[host] = "open"
  <2> DEFINE m == Msg("open", p, 0)
  <2>1. /\ phone' = [phone EXCEPT ![p] = "open"] /\ hostOf' = [hostOf EXCEPT ![p] = host]
        /\ down' = Send(down, far, host, m)
        BY <1>3 DEF PhoneAuth
  <2>2. host \in Conns
        BY <1>3 DEF TypeOK, ServerTypeOK
  <2>3. m \in Message /\ m.phone = p
        BY MsgType
  <2> HIDE DEF m
  <2>4. \A r \in Phones : hostOf'[r] = IF r = p THEN host ELSE hostOf[r]
        BY <2>1 DEF TypeOK, ServerTypeOK
  <2>5. OneHost'
    <3>1. \A r \in Phones : \A g, k \in Conns :
              Silent(down'[g], r) \/ Silent(down'[k], r) \/ g = k
      <4>1. /\ \A r \in Phones : \A g, k \in Conns :
                  Silent(down[g], r) \/ Silent(down[k], r) \/ g = k
            /\ \A g \in Conns : g # host => Silent(down[g], m.phone)
            BY <1>2, <2>3 DEF Channels, OneHost
      <4> QED BY <2>1, <2>2, <2>3, <4>1, SendOneHost
    <3>2. ASSUME NEW r \in Phones, NEW h \in Conns, hostOf'[r] # NoConn, hostOf'[r] # h
          PROVE  Silent(down'[h], r)
      <4>1. Silent(down[h], r) /\ (r = p => h # host)
            BY <1>2, <2>4, <3>2 DEF Channels, OneHost
      <4> QED BY <2>1, <2>2, <2>3, <4>1, SendSilent
    <3>3. \A r \in Phones : hostOf'[r] # NoConn => far'[hostOf'[r]] # "closed"
          BY <1>1, <1>3, <2>4 DEF Channels, OneHost
    <3> QED BY <3>1, <3>2, <3>3 DEF OneHost
  <2>6. NewIsSilent'
    <3>1. ASSUME NEW r \in Phones, phone'[r] = "new"
          PROVE  /\ hostOf'[r] = NoConn /\ sent'[r] = 0 /\ local'[r] = "none"
                 /\ \A h \in Conns : Silent(down'[h], r)
      <4>1. r # p /\ phone[r] = "new"
            BY <2>1, <3>1 DEF TypeOK, ServerTypeOK
      <4>2. /\ hostOf[r] = NoConn /\ sent[r] = 0 /\ local[r] = "none"
            /\ \A h \in Conns : Silent(down[h], r)
            BY <4>1 DEF Channels, NewIsSilent
      <4>3. \A h \in Conns : Silent(down'[h], r)
            BY <2>1, <2>2, <2>3, <4>1, <4>2, SendSilent
      <4> QED BY <1>1, <2>4, <4>1, <4>2, <4>3, ClientKept
    <3> QED BY <3>1 DEF NewIsSilent
  <2>7. ASSUME NEW r \in Phones, NEW h \in Conns PROVE Queued(r, h)'
    <3>1. CASE r # p
      <4>1. WellQueued(down'[h], r, local[r] # "none", Base(r), sent[r], Live(r),
                       Intact(r, h))
            BY <2>1, <2>2, <2>3, <3>1, SendOther
      <4>2. Intact(r, h)' = Intact(r, h)
            BY <1>1, <2>4, <3>1 DEF Intact
      <4> QED BY <1>1, <4>1, <4>2, ClientKept DEF Queued
    <3>2. CASE r = p
      <4>1. Base(p) = 0
        <5>1. arrived[p] = <<>> /\ pending[p] = <<>>
              BY <1>2 DEF Channels, LocalState
        <5>2. Len(<<>>) = 0
              OBVIOUS
        <5> QED BY <5>1, <5>2 DEF Base
      <4>2. Base(p)' = 0 /\ sent'[p] = 0 /\ (local'[p] # "none") = FALSE
            BY <1>1, <1>2, <4>1, ClientKept
      <4>3. Live(p)' \in BOOLEAN /\ Intact(p, h)' \in BOOLEAN
            BY DEF Live, Intact
      <4> DEFINE l == Live(p)'
                 f == Intact(p, h)'
      <4>4. f => h = host /\ far[h] = "open"
            BY <1>1, <2>4 DEF Intact
      <4> HIDE DEF l, f
      <4>5. WellQueued(down'[h], p, FALSE, 0, 0, l, f)
        <5>1. CASE h = host /\ down'[h] = Append(down[h], m)
          <6>1. down[h] \in Seq(Message) /\ Silent(down[h], p)
                BY <1>2 DEF TypeOK, LinkTypeOK
          <6>2. WellQueued(Append(down[h], Msg("open", p, 0)), p, FALSE, 0, 0, l, f)
                BY <6>1, AppendOpen
          <6> QED BY <5>1, <6>2 DEF m
        <5>2. CASE down'[h] = down[h] /\ ~f
          <6>1. WellQueued(down[h], p, FALSE, 0, 0, l, FALSE)
                BY <1>2, SilentQueue
          <6>2. f = FALSE
                BY <4>3, <5>2 DEF f
          <6> QED BY <5>2, <6>1, <6>2
        <5> QED BY <2>1, <2>2, <2>3, <4>4, <5>1, <5>2, SendEffect
      <4> QED BY <3>2, <4>2, <4>5 DEF Queued, l, f
    <3> QED BY <3>1, <3>2
  <2>8. Ordered'
    <3>1. \A r \in Phones : Taken(r)'
          BY <1>1, ClientKept
    <3> QED BY <2>7, <3>1 DEF Ordered
  <2> QED BY <2>5, <2>6, <2>8, ClientKept DEF Channels
<1>4. CASE ~(host # NoConn /\ far[host] = "open")
  <2>1. phone' = [phone EXCEPT ![p] = "closed"] /\ UNCHANGED <<hostOf, down>>
        BY <1>4 DEF PhoneAuth
  <2>2. CalmLink
    <3>1. \A r \in Phones : phone'[r] = "new" => phone[r] = "new"
          BY <2>1 DEF TypeOK, ServerTypeOK
    <3>2. \A r \in Phones, h \in Conns : Intact(r, h)' <=> Intact(r, h)
          BY <1>1, <2>1 DEF Intact
    <3>3. \A r \in Phones : hostOf[r] # NoConn => far[hostOf[r]] # "closed"
          BY DEF Channels, OneHost
    <3> QED BY <1>1, <2>1, <3>1, <3>2, <3>3 DEF CalmLink
  <2>3. LocalState' /\ \A r \in Phones : CalmChannel(r)
        BY <1>1, ClientStays
  <2> QED BY <2>2, <2>3, CalmStep
<1> QED BY <1>3, <1>4

\* handleMobileMessage: the request joins the others, or cannot be sent.
LEMMA RequestStep ==
    ASSUME TypeOK, TypeOK', Channels, NEW p \in Phones,
           PhoneRequests(p), UNCHANGED client
    PROVE  Channels'
<1> DEFINE m == Msg("request", p, sent[p] + 1)
<1>1. /\ phone[p] # "new" /\ UNCHANGED <<far, broken, phone, hostOf>>
      /\ sent' = [sent EXCEPT ![p] = @ + 1]
      BY DEF PhoneRequests
<1>2. sent[p] \in Nat /\ Base(p) \in Nat /\ Base(p) <= sent[p]
      BY BaseType DEF Channels, Ordered, Taken
<1>3. m \in Message /\ m.phone = p
      BY <1>2, MsgType
<1>4. \A r \in Phones : sent'[r] = IF r = p THEN sent[p] + 1 ELSE sent[r]
      BY <1>1 DEF TypeOK, ServerTypeOK
<1> HIDE DEF m
<1>5. \/ HostOpen(p) /\ hostOf[p] \in Conns /\ down' = Send(down, far, hostOf[p], m)
      \/ ~HostOpen(p) /\ down' = down
      BY DEF PhoneRequests, HostOpen, TypeOK, ServerTypeOK, m
<1>6. \A g \in Conns, r \in Phones :
          Silent(down[g], r) /\ (r # p \/ hostOf[p] # g) => Silent(down'[g], r)
      BY <1>3, <1>5, SendSilent
<1>7. OneHost'
  <2>1. \A r \in Phones : \A g, k \in Conns :
            Silent(down'[g], r) \/ Silent(down'[k], r) \/ g = k
    <3>1. /\ \A r \in Phones : \A g, k \in Conns :
                Silent(down[g], r) \/ Silent(down[k], r) \/ g = k
          /\ HostOpen(p) => \A g \in Conns : g # hostOf[p] => Silent(down[g], m.phone)
          BY <1>3 DEF Channels, OneHost, HostOpen
    <3> QED BY <1>3, <1>5, <3>1, SendOneHost
  <2>2. \A r \in Phones : \A h \in Conns :
            hostOf[r] # NoConn /\ hostOf[r] # h => Silent(down'[h], r)
        BY <1>6 DEF Channels, OneHost
  <2> QED BY <1>1, <2>1, <2>2 DEF Channels, OneHost
<1>8. NewIsSilent'
  <2>1. \A r \in Phones : phone[r] = "new" =>
            /\ r # p /\ hostOf[r] = NoConn /\ sent'[r] = 0 /\ local[r] = "none"
            /\ \A h \in Conns : Silent(down'[h], r)
        BY <1>1, <1>4, <1>6 DEF Channels, NewIsSilent
  <2> QED BY <1>1, <2>1, ClientKept DEF NewIsSilent
<1>9. ASSUME NEW r \in Phones, NEW h \in Conns PROVE Queued(r, h)'
  <2>1. Intact(r, h)' = Intact(r, h) /\ down[h] \in Seq(Message)
        BY <1>1 DEF Intact, TypeOK, LinkTypeOK
  <2>2. CASE r # p
    <3>1. WellQueued(down'[h], r, local[r] # "none", Base(r), sent[r], Live(r),
                     Intact(r, h))
          BY <1>3, <1>5, <2>2, SendOther DEF Channels, Ordered, Queued
    <3> QED BY <1>4, <2>1, <2>2, <3>1, ClientKept DEF Queued
  <2>3. CASE r = p
    <3> DEFINE o == local[p] # "none"
               b == Base(p)
               l == Live(p)
    <3>1. WellQueued(down[h], p, o, b, sent[p], l, Intact(p, h))
          BY DEF Channels, Ordered, Queued
    <3>2. Intact(p, h) \in BOOLEAN
          BY DEF Intact
    <3> HIDE DEF o, b, l
    <3>3. CASE Intact(p, h)
      <4>1. Intact(p, h) = TRUE
            BY <3>2, <3>3
      <4>2. HostOpen(p) /\ hostOf[p] = h
            BY <3>3 DEF Intact, HostOpen, TypeOK, ServerTypeOK
      <4>3. down'[h] = Append(down[h], m)
        <5>1. far[h] = "open"
              BY <3>3 DEF Intact
        <5> QED BY <1>3, <1>5, <4>2, <5>1, SendEffect
      <4>4. WellQueued(down[h], p, o, b, sent[p], l, TRUE)
            BY <3>1, <4>1
      <4>5. WellQueued(down'[h], p, o, b, sent[p] + 1, l, TRUE)
        <5>1. b \in Nat /\ b <= sent[p]
              BY <1>2 DEF b
        <5>2. WellQueued(Append(down[h], Msg("request", p, sent[p] + 1)), p, o, b,
                         sent[p] + 1, l, TRUE)
              BY <1>2, <2>1, <4>4, <5>1, AppendRequest
        <5> QED BY <4>3, <5>2 DEF m
      <4> QED BY <1>4, <2>1, <2>3, <4>1, <4>5, ClientKept DEF Queued, o, b, l
    <3>4. CASE ~Intact(p, h)
      <4>1. Intact(p, h) = FALSE
            BY <3>2, <3>4
      <4>2. down'[h] = down[h]
        <5>1. ~(HostOpen(p) /\ hostOf[p] = h)
              BY <3>4 DEF Intact, HostOpen
        <5> QED BY <1>3, <1>5, <5>1, SendEffect
      <4>3. WellQueued(down[h], p, o, b, sent[p], l, FALSE)
            BY <3>1, <4>1
      <4>4. WellQueued(down'[h], p, o, b, sent[p] + 1, l, FALSE)
            BY <1>2, <2>1, <4>2, <4>3, LastGrows
      <4> QED BY <1>4, <2>1, <2>3, <4>1, <4>4, ClientKept DEF Queued, o, b, l
    <3> QED BY <3>3, <3>4
  <2> QED BY <2>2, <2>3
<1>10. Ordered'
  <2>1. \A r \in Phones : r # p => Taken(r)'
        BY <1>4, ClientKept
  <2>2. Taken(p)'
    <3>1. Base(p)' <= sent'[p]
      <4>1. Base(p)' = Base(p) /\ sent'[p] = sent[p] + 1
            BY <1>4, ClientKept
      <4> QED BY <1>2, <4>1
    <3> QED BY <3>1, ClientKept DEF client, Channels, Ordered, Taken
  <2> QED BY <1>9, <2>1, <2>2 DEF Ordered
<1> QED BY <1>7, <1>8, <1>10, ClientKept DEF Channels

\* handleClose of a phone: its host is told, and the phone has none any more.
LEMMA PhoneEnds ==
    ASSUME TypeOK, TypeOK', Channels, NEW p \in Phones,
           PhoneCloses(p), UNCHANGED client
    PROVE  Channels'
<1> DEFINE m == Msg("close", p, 0)
<1>1. /\ phone' = [phone EXCEPT ![p] = "closed"] /\ UNCHANGED <<far, broken, sent>>
      /\ hostOf' = [hostOf EXCEPT ![p] = NoConn] /\ phone[p] # "new"
      BY DEF PhoneCloses
<1>2. \A r \in Phones : /\ phone'[r] = "new" => phone[r] = "new" /\ r # p
                        /\ hostOf'[r] \in {hostOf[r], NoConn}
      BY <1>1 DEF TypeOK, ServerTypeOK
<1>3. m \in Message /\ m.phone = p /\ m.n = 0 /\ m.type \notin {"open", "request"}
      BY MsgType
<1> HIDE DEF m
<1>4. \/ HostOpen(p) /\ hostOf[p] \in Conns /\ down' = Send(down, far, hostOf[p], m)
      \/ ~HostOpen(p) /\ down' = down
      BY DEF PhoneCloses, HostOpen, TypeOK, ServerTypeOK, m
<1>5. \A g \in Conns, r \in Phones :
          Silent(down[g], r) /\ (r # p \/ hostOf[p] # g) => Silent(down'[g], r)
      BY <1>3, <1>4, SendSilent
<1>6. OneHost'
  <2>1. \A r \in Phones : \A g, k \in Conns :
            Silent(down'[g], r) \/ Silent(down'[k], r) \/ g = k
    <3>1. /\ \A r \in Phones : \A g, k \in Conns :
                Silent(down[g], r) \/ Silent(down[k], r) \/ g = k
          /\ HostOpen(p) => \A g \in Conns : g # hostOf[p] => Silent(down[g], m.phone)
          BY <1>3 DEF Channels, OneHost, HostOpen
    <3> QED BY <1>3, <1>4, <3>1, SendOneHost
  <2>2. ASSUME NEW r \in Phones, NEW h \in Conns, hostOf'[r] # NoConn, hostOf'[r] # h
        PROVE  Silent(down'[h], r)
    <3>1. hostOf[r] # NoConn /\ hostOf[r] # h
          BY <1>2, <2>2
    <3>2. Silent(down[h], r)
          BY <3>1 DEF Channels, OneHost
    <3> QED BY <1>5, <3>1, <3>2
  <2>3. \A r \in Phones : hostOf'[r] # NoConn => far'[hostOf'[r]] # "closed"
        BY <1>1, <1>2 DEF Channels, OneHost
  <2> QED BY <2>1, <2>2, <2>3 DEF OneHost
<1>7. NewIsSilent'
  <2>1. \A r \in Phones : phone'[r] = "new" =>
            /\ hostOf'[r] = NoConn /\ sent[r] = 0 /\ local[r] = "none"
            /\ \A h \in Conns : Silent(down'[h], r)
        BY <1>2, <1>5 DEF Channels, NewIsSilent
  <2> QED BY <1>1, <2>1, ClientKept DEF NewIsSilent
<1>8. ASSUME NEW r \in Phones, NEW h \in Conns PROVE Queued(r, h)'
  <2> DEFINE o == local[r] # "none"
             b == Base(r)
             l == Live(r)
             f == Intact(r, h)
             e == Intact(r, h)'
  <2>1. WellQueued(down'[h], r, o, b, sent[r], l, f)
    <3>1. CASE HostOpen(p)
      <4>1. /\ hostOf[p] \in Conns /\ down' = Send(down, far, hostOf[p], m)
            /\ m.phone = r => hostOf[r] = hostOf[p] /\ m.n <= sent[r]
            BY <1>3, <1>4, <3>1, BaseType
      <4> QED BY <1>3, <4>1, SendOther
    <3>2. CASE ~HostOpen(p)
          BY <1>4, <3>2 DEF Channels, Ordered, Queued
    <3> QED BY <3>1, <3>2
  <2>2. e => f
        BY <1>1, <1>2 DEF Intact
  <2>3. /\ b \in Nat /\ l \in BOOLEAN /\ f \in BOOLEAN /\ e \in BOOLEAN
        /\ sent[r] \in Nat /\ o \in BOOLEAN /\ sent[r] <= sent[r]
        BY BaseType DEF Intact
  <2>4. down'[h] \in Seq(Message)
        BY DEF TypeOK, LinkTypeOK
  <2>5. Queued(r, h)' = WellQueued(down'[h], r, o, b, sent[r], l, e)
        BY <1>1, ClientKept DEF Queued
  <2> HIDE DEF o, b, l, f, e
  <2> QED BY <2>1, <2>2, <2>3, <2>4, <2>5, WeakerQueue
<1>9. Ordered'
  <2>1. \A r \in Phones : Taken(r)'
        BY <1>1, ClientKept
  <2> QED BY <1>8, <2>1 DEF Ordered
<1> QED BY <1>6, <1>7, <1>9, ClientKept DEF Channels

\* channel.open.
LEMMA OpenStep ==
    ASSUME TypeOK, TypeOK', DownNames, Channels, NEW h \in Conns,
           OpenChannel(h), UNCHANGED server
    PROVE  Channels'
<1>0. PICK p : p = Head(down[h]).phone
      OBVIOUS
<1>1. Reads(h, "open") /\ down[h] # <<>> /\ Head(down[h]).type = "open"
      BY DEF OpenChannel, Reads
<1>2. p \in Phones /\ local[p] = "none"
      BY <1>0, <1>1, HeadOfQueue
<1>3. /\ mapped' = mapped \cup {p} /\ local' = [local EXCEPT ![p] = "connecting"]
      /\ UNCHANGED <<pending, arrived, sent>>
      BY <1>0 DEF OpenChannel, server
<1>4. \A r \in Phones : local'[r] = IF r = p THEN "connecting" ELSE local[r]
      BY <1>3 DEF TypeOK, ClientTypeOK
<1>5. LocalState'
      BY <1>2, <1>3, <1>4 DEF Channels, LocalState
<1>6. pending[p] = <<>> /\ Base(p)' = Base(p) /\ Live(p) /\ Taken(p)
      BY <1>2, <1>3 DEF Channels, LocalState, Ordered, Base, Live
<1>7. Taken(p)'
      BY <1>3, <1>6 DEF Taken
<1>8. \A r \in Phones : r # p => CalmChannel(r)
      BY <1>3, <1>4 DEF CalmChannel, Taken, Base, Live, Channels, Ordered
<1> QED BY <1>0, <1>1, <1>2, <1>4, <1>5, <1>6, <1>7, <1>8, ReadStep

\* channel.message: it reaches the gateway, waits, or is refused.
LEMMA ForwardStep ==
    ASSUME TypeOK, TypeOK', DownNames, Channels, NEW h \in Conns,
           ForwardRequest(h), UNCHANGED server
    PROVE  Channels'
<1>0. PICK p, n : p = Head(down[h]).phone /\ n = Head(down[h]).n
      OBVIOUS
<1>1. Reads(h, "request") /\ down[h] # <<>> /\ Head(down[h]).type = "request"
      BY DEF ForwardRequest, Reads
<1>2. /\ p \in Phones /\ n \in Nat /\ local[p] # "none"
      /\ Live(p) => n = Base(p) + 1 /\ n <= sent[p]
      BY <1>0, <1>1, HeadOfQueue
<1>3. /\ arrived' = IF p \in mapped /\ local[p] = "ready"
                    THEN [arrived EXCEPT ![p] = Append(@, n)] ELSE arrived
      /\ pending' = IF p \in mapped /\ local[p] = "connecting"
                    THEN [pending EXCEPT ![p] = Append(@, n)] ELSE pending
      /\ UNCHANGED <<mapped, local, sent>>
      BY <1>0 DEF ForwardRequest, server
<1>4. /\ arrived \in [Phones -> Seq(Nat)] /\ pending \in [Phones -> Seq(Nat)]
      /\ local \in [Phones -> {"none", "connecting", "ready", "closing", "closed"}]
      BY DEF TypeOK, ClientTypeOK
<1>5. /\ local[p] \in {"connecting", "ready"} => p \in mapped
      /\ local[p] = "ready" => pending[p] = <<>>
      BY <1>2 DEF Channels, LocalState
<1>6. LocalState'
      BY <1>2, <1>3, <1>4 DEF Channels, LocalState
<1>7. \A r \in Phones : r # p => CalmChannel(r)
      BY <1>3, <1>4 DEF CalmChannel, Taken, Base, Live, Channels, Ordered
<1>8. Taken(p) /\ Live(p)' = Live(p)
      BY <1>2, <1>3 DEF Channels, Ordered, Live
<1>9. /\ Taken(p)'
      /\ Live(p)' => Base(p)' = Base(p) + 1
  <2> DEFINE a == arrived[p]
             w == pending[p]
  <2>1. a \in Seq(Nat) /\ w \in Seq(Nat)
        BY <1>2, <1>4
  <2>2. Base(p) = Len(a) + Len(w)
        BY DEF Base
  <2>3. /\ \A i \in 1 .. Len(a) : a[i] = i
        /\ Live(p) => \A i \in 1 .. Len(w) : w[i] = Len(a) + i
        BY <1>8 DEF Taken
  <2>4. Base(p)' = Len(arrived'[p]) + Len(pending'[p])
        BY DEF Base
  <2>5. CASE p \in mapped /\ local[p] = "ready"
    <3>1. arrived'[p] = Append(a, n) /\ pending'[p] = w
          BY <1>2, <1>3, <1>4, <2>5
    <3>2. Live(p) /\ w = <<>>
          BY <1>5, <2>5 DEF Live
    <3> HIDE DEF a, w
    <3>3. /\ Len(Append(a, n)) = Len(a) + 1 /\ Append(a, n)[Len(a) + 1] = n
          /\ \A i \in 1 .. Len(a) : Append(a, n)[i] = a[i]
          BY <1>2, <2>1
    <3>4. Len(w) = 0 /\ n = Len(a) + 1
          BY <1>2, <2>1, <2>2, <3>2
    <3>5. Base(p)' = Base(p) + 1
          BY <2>1, <2>2, <2>4, <3>1, <3>3, <3>4
    <3>6. Base(p)' <= sent'[p]
          BY <1>2, <1>3, <3>2, <3>5
    <3>7. \A i \in 1 .. Len(arrived'[p]) : arrived'[p][i] = i
          BY <2>1, <2>3, <3>1, <3>3, <3>4
    <3>8. \A i \in 1 .. Len(pending'[p]) : pending'[p][i] = Len(arrived'[p]) + i
          BY <3>1, <3>4
    <3> QED BY <3>5, <3>6, <3>7, <3>8 DEF Taken
  <2>6. CASE p \in mapped /\ local[p] = "connecting"
    <3>1. arrived'[p] = a /\ pending'[p] = Append(w, n)
          BY <1>2, <1>3, <1>4, <2>6
    <3>2. Live(p)
          BY <2>6 DEF Live
    <3> HIDE DEF a, w
    <3>3. /\ Len(Append(w, n)) = Len(w) + 1 /\ Append(w, n)[Len(w) + 1] = n
          /\ \A i \in 1 .. Len(w) : Append(w, n)[i] = w[i]
          BY <1>2, <2>1
    <3>4. n = Len(a) + (Len(w) + 1)
          BY <1>2, <2>1, <2>2, <3>2
    <3>5. Base(p)' = Base(p) + 1
          BY <2>1, <2>2, <2>4, <3>1, <3>3
    <3>6. Base(p)' <= sent'[p]
          BY <1>2, <1>3, <3>2, <3>5
    <3>7. \A i \in 1 .. Len(arrived'[p]) : arrived'[p][i] = i
          BY <2>3, <3>1
    <3>8. \A i \in 1 .. Len(pending'[p]) : pending'[p][i] = Len(arrived'[p]) + i
      <4>1. \A i \in 1 .. Len(w) + 1 : Append(w, n)[i] = Len(a) + i
        <5>1. \A i \in 1 .. Len(w) + 1 : i \in 1 .. Len(w) \/ i = Len(w) + 1
              BY <2>1
        <5>2. \A i \in 1 .. Len(w) : Append(w, n)[i] = Len(a) + i
              BY <2>3, <3>2, <3>3
        <5> QED BY <3>3, <3>4, <5>1, <5>2
      <4> QED BY <3>1, <3>3, <4>1
    <3> QED BY <3>5, <3>6, <3>7, <3>8 DEF Taken
  <2>7. CASE p \notin mapped \/ local[p] \notin {"connecting", "ready"}
    <3>1. arrived'[p] = a /\ pending'[p] = w /\ sent'[p] = sent[p]
          BY <1>3, <2>7
    <3>2. ~Live(p)
          BY <1>2, <1>5, <2>7 DEF Live
    <3>3. Taken(p)'
          BY <1>8, <3>1 DEF Taken, Base, Live
    <3> QED BY <1>8, <3>2, <3>3
  <2> QED BY <2>5, <2>6, <2>7
<1> QED BY <1>0, <1>1, <1>2, <1>3, <1>6, <1>7, <1>8, <1>9, ReadStep

\* channel.close.
LEMMA CloseStep ==
    ASSUME TypeOK, TypeOK', DownNames, Channels, NEW h \in Conns,
           CloseChannel(h), UNCHANGED server
    PROVE  Channels'
<1>0. PICK p : p = Head(down[h]).phone
      OBVIOUS
<1>1. Reads(h, "close") /\ down[h] # <<>> /\ Head(down[h]).type = "close"
      BY DEF CloseChannel, Reads
<1>2. p \in Phones /\ local[p] # "none"
      BY <1>0, <1>1, HeadOfQueue
<1>3. CloseChannels({p}) /\ UNCHANGED <<arrived, sent>>
      BY <1>0 DEF CloseChannel, server
<1>4. LocalState' /\ \A r \in Phones : CalmChannel(r)
      BY <1>3, ChannelsClose
<1>5. ~Live(p)'
  <2>1. p \in Phones \cap {p}
        BY <1>2
  <2> QED BY <1>2, <1>3, <2>1, ChannelsClose
<1>6. local'[p] # "none" /\ Taken(p)'
      BY <1>2, <1>4 DEF CalmChannel
<1> QED BY <1>0, <1>1, <1>4, <1>5, <1>6, ReadStep

\* Every step keeps what is known of the channels.
LEMMA ChannelsStep ==
    ASSUME TypeOK, TypeOK', DownNames, Registered, Channels, [Next]_vars
    PROVE  Channels'
<1> USE DEF link, server, gateway
<1>0. /\ near \in [Conns -> EndState] /\ far \in [Conns -> EndState]
      /\ hostOf \in [Phones -> Conns \cup {NoConn}]
      /\ phone \in [Phones -> {"new", "open", "closing", "closed"}]
      /\ \A r \in Phones : hostOf[r] # NoConn => far[hostOf[r]] # "closed"
      BY DEF TypeOK, LinkTypeOK, ServerTypeOK, Channels, OneHost
\* An end that opens is nobody's host, and a queue that is lost has no sender.
<1>1. ASSUME sent' = sent,
             \A h \in Conns : \/ down'[h] = down[h]
                              \/ down'[h] = <<>> /\ far'[h] = "closed",
             \A r \in Phones : /\ phone'[r] = "new" => phone[r] = "new"
                               /\ hostOf'[r] \in {hostOf[r], NoConn}
                               /\ hostOf'[r] # NoConn => far'[hostOf'[r]] # "closed",
             \A h \in Conns : far'[h] = "open" => far[h] \in {"open", "closed"}
      PROVE  CalmLink
  <2>1. ASSUME NEW h \in Conns, NEW r \in Phones, Intact(r, h)' PROVE Intact(r, h)
    <3>1. hostOf'[r] = h /\ far'[h] = "open"
          BY <2>1 DEF Intact
    <3>2. hostOf[r] = h
          BY <1>1, <3>1
    <3>3. far[h] # "closed"
          BY <1>0, <3>2
    <3> QED BY <1>1, <3>1, <3>2, <3>3 DEF Intact
  <2>2. \A h \in Conns, r \in Phones : far'[h] = "closed" => ~Intact(r, h)'
        BY DEF Intact
  <2> QED BY <1>1, <2>1, <2>2 DEF CalmLink
<1>2. ASSUME UNCHANGED server, far' = far, UNCHANGED down PROVE CalmLink
      BY <1>0, <1>1, <1>2
<1>3. ASSUME NEW h \in Conns, RegisterHost(h), UNCHANGED client PROVE Channels'
  <2>1. far' = far \/ (far' = Closing(far, host) /\ host \in Conns)
        BY <1>3 DEF RegisterHost, TypeOK, ServerTypeOK
  <2>2. \A g \in Conns : /\ far'[g] = "open" => far[g] = "open"
                         /\ far'[g] = "closed" => far[g] = "closed"
    <3>1. CASE far' = far
          BY <3>1
    <3>2. CASE far' = Closing(far, host) /\ host \in Conns
          BY <1>0, <3>2, ClosingState
    <3> QED BY <2>1, <3>1, <3>2
  <2>3. UNCHANGED <<near, down, broken, sent, phone, hostOf>>
        BY <1>3 DEF RegisterHost, Takes
  <2>4. CalmLink
        BY <1>0, <1>1, <2>2, <2>3
  <2> QED BY <1>3, <2>3, <2>4, ClientStays, CalmStep
<1>4. ASSUME NEW h \in Conns, ForwardResponse(h) \/ FailPhone(h), UNCHANGED client
      PROVE  Channels'
  <2>1. UNCHANGED <<near, far, down, broken, sent, hostOf>>
        BY <1>4 DEF ForwardResponse, FailPhone, Takes
  <2>2. \A r \in Phones : phone'[r] = "new" => phone[r] = "new"
        BY <1>0, <1>4 DEF ForwardResponse, FailPhone, Closing
  <2>3. CalmLink
        BY <1>0, <1>1, <2>1, <2>2
  <2> QED BY <1>4, <2>1, <2>3, ClientStays, CalmStep
<1>5. ASSUME NEW h \in Conns, FarCloses(h), UNCHANGED client PROVE Channels'
  <2>1. /\ sent' = sent /\ far' = [far EXCEPT ![h] = "closed"]
        /\ hostOf' = [r \in Phones |-> IF hostOf[r] = h THEN NoConn ELSE hostOf[r]]
        /\ \A g \in Conns : \/ down'[g] = down[g]
                            \/ down'[g] = <<>> /\ far'[g] = "closed"
        BY <1>5, Forgets DEF FarCloses
  <2>2. \A r \in Phones : phone'[r] = "new" => phone[r] = "new"
        BY <1>0, <1>5 DEF FarCloses, Orphaned
  <2>3. \A r \in Phones : /\ hostOf'[r] \in {hostOf[r], NoConn}
                          /\ hostOf'[r] # NoConn => far'[hostOf'[r]] # "closed"
        BY <1>0, <2>1
  <2>4. \A g \in Conns : far'[g] = "open" => far[g] = "open"
        BY <1>0, <2>1
  <2>5. CalmLink
        BY <1>1, <2>1, <2>2, <2>3, <2>4
  <2> QED BY <1>5, <2>1, <2>5, ClientStays, CalmStep
<1>6. ASSUME NEW h \in Conns, FarHears(h), UNCHANGED <<server, client>> PROVE Channels'
  <2>1. /\ UNCHANGED <<near, down, broken>> /\ far[h] = "open"
        /\ far' = [far EXCEPT ![h] = "closing"]
        BY <1>6 DEF FarHears
  <2>2. CalmLink
        BY <1>0, <1>1, <1>6, <2>1
  <2> QED BY <1>6, <2>2, ClientStays, CalmStep
<1>7. ASSUME NEW h \in Conns, NearHears(h), UNCHANGED <<server, client>> PROVE Channels'
  <2>1. CalmLink
        BY <1>2, <1>7 DEF NearHears
  <2> QED BY <1>7, <2>1, ClientStays, CalmStep
<1>8. ASSUME NEW h \in Conns, Connect(h), UNCHANGED server PROVE Channels'
  <2>1. /\ far' = far /\ UNCHANGED down
        /\ UNCHANGED <<mapped, local, pending, arrived, replied>>
        BY <1>8 DEF Connect
  <2>2. CalmLink
        BY <1>0, <1>1, <1>8, <2>1
  <2>3. LocalState' /\ \A r \in Phones : CalmChannel(r)
        BY <1>8, <2>1 DEF Channels, LocalState, Ordered, CalmChannel, Taken, Base, Live
  <2> QED BY <2>2, <2>3, CalmStep
<1>9. ASSUME NEW h \in Conns, Opens(h), UNCHANGED server PROVE Channels'
  <2>1. /\ near[h] = "connecting" /\ far' = [far EXCEPT ![h] = "open"]
        /\ UNCHANGED <<down, broken, client>>
        BY <1>9 DEF Opens
  <2>2. far[h] = "closed"
        BY <2>1 DEF Registered, FarState
  <2>3. CalmLink
        BY <1>0, <1>1, <1>9, <2>1, <2>2
  <2> QED BY <1>9, <2>1, <2>3, ClientStays, CalmStep
<1>10. ASSUME NEW h \in Conns, OnClose(h), UNCHANGED server PROVE Channels'
  <2>1. /\ UNCHANGED <<far, arrived>> /\ CloseChannels(mapped)
        /\ \A g \in Conns : \/ down'[g] = down[g]
                            \/ down'[g] = <<>> /\ far'[g] = "closed"
        BY <1>10, Forgets DEF OnClose
  <2>2. LocalState' /\ \A r \in Phones : CalmChannel(r)
        BY <1>10, <2>1, ChannelsClose
  <2>3. CalmLink
        BY <1>0, <1>1, <1>10, <2>1
  <2> QED BY <2>2, <2>3, CalmStep
<1>11. ASSUME NEW r \in Phones, LocalStep(r) PROVE Channels'
  <2>1. UNCHANGED server /\ UNCHANGED <<far, broken, down>>
        BY <1>11 DEF LocalStep, LocalReady, LocalDrops, LocalCloses
  <2>2. LocalState' /\ \A q \in Phones : CalmChannel(q)
        BY <1>11, <2>1, LocalIsReady, LocalEnds DEF LocalStep
  <2> QED BY <1>2, <2>1, <2>2, CalmStep
<1>12. ASSUME NEW r \in Phones, AnswerStep(r) PROVE Channels'
  <2>1. /\ UNCHANGED server
        /\ UNCHANGED <<far, broken, down, mapped, local, pending, arrived>>
        BY <1>12 DEF AnswerStep, GatewayAnswers
  <2>2. LocalState' /\ \A q \in Phones : CalmChannel(q)
        BY <2>1 DEF Channels, LocalState, Ordered, CalmChannel, Taken, Base, Live
  <2> QED BY <1>2, <2>1, <2>2, CalmStep
<1>13. ASSUME NEW r \in Phones, PhoneStep(r) PROVE Channels'
      BY <1>13, AuthStep, RequestStep, PhoneEnds DEF PhoneStep
<1>14. ASSUME NEW h \in Conns, ClientReads(h), UNCHANGED server PROVE Channels'
      BY <1>14, OpenStep, ForwardStep, CloseStep DEF ClientReads
<1>15. ASSUME Stops PROVE Channels'
  <2>1. /\ UNCHANGED server /\ UNCHANGED <<far, broken, down, arrived>>
        /\ CloseChannels(mapped)
        BY <1>15 DEF Stops, Stop
  <2> QED BY <1>2, <2>1, ChannelsClose, CalmStep
<1>16. ASSUME NEW h \in Conns, Break(h), UNCHANGED <<server, client>> PROVE Channels'
  <2>1. CalmLink
        BY <1>2, <1>16 DEF Break
  <2> QED BY <1>16, <2>1, ClientStays, CalmStep
<1>17. ASSUME RelayRestarts, UNCHANGED client PROVE Channels'
  <2>1. /\ far' = [h \in Conns |-> "closed"] /\ hostOf' = [r \in Phones |-> NoConn]
        /\ phone' = [r \in Phones |-> IF phone[r] = "new" THEN "new" ELSE "closed"]
        /\ sent' = sent
        BY <1>17 DEF RelayRestarts
  <2>2. \A g \in Conns : \/ down'[g] = down[g]
                         \/ down'[g] = <<>> /\ far'[g] = "closed"
        BY <1>17, <2>1, Forgets DEF RelayRestarts
  <2>3. CalmLink
        BY <1>1, <2>1, <2>2
  <2> QED BY <1>17, <2>1, <2>3, ClientStays, CalmStep
<1>18. ASSUME UNCHANGED vars PROVE Channels'
  <2>1. UNCHANGED server /\ UNCHANGED client /\ UNCHANGED <<far, broken, down>>
        BY <1>18 DEF vars
  <2> QED BY <1>2, <2>1, ClientStays, CalmStep
<1> HIDE DEF link, server, gateway
<1>19. UNCHANGED <<server, client>> => UNCHANGED server /\ UNCHANGED client
      OBVIOUS
<1> QED
    BY <1>3, <1>4, <1>5, <1>6, <1>7, <1>8, <1>9, <1>10, <1>11, <1>12, <1>13, <1>14,
       <1>15, <1>16, <1>17, <1>18, <1>19
    DEF Next, ServerStep, ServerReads, ClientStep, NearCloses, Faults, ConnectFails

-----------------------------------------------------------------------------
(* Theorems.                                                               *)

\* The invariant holds in every reachable state.
THEOREM Inductive == Spec => []IInv
<1>1. Init => IInv
      BY InitInv
<1>2. IInv /\ [Next]_vars => IInv'
  <2> SUFFICES ASSUME IInv, [Next]_vars PROVE IInv'
      OBVIOUS
  <2>1. TypeOK /\ DownNames /\ Registered /\ Channels
        BY DEF IInv
  <2>2. TypeOK'
        BY <2>1, TypeStep
  <2>3. DownNames'
        BY <2>1, NamesStep
  <2>4. Registered'
        BY <2>1, <2>2, RegisteredStep
  <2>5. Channels'
        BY <2>1, <2>2, ChannelsStep
  <2> QED BY <2>2, <2>3, <2>4, <2>5 DEF IInv
<1> QED BY <1>1, <1>2, PTL DEF Spec

\* Every variable of the relay, of the client and of the connections between
\* them keeps its type (relay-server.ts and relay-host-client.ts).
THEOREM TypeCorrect == Spec => []TypeOK
<1>1. IInv => TypeOK
      BY DEF IInv
<1> QED BY <1>1, Inductive, PTL

\* A host that is registered and not asked to close can be found by its token,
\* however many connections came before it and whatever order they end in
\* (registerHost and handleClose).
THEOREM HostIsFound == Spec => []OpenHostIsFound
<1>1. IInv => OpenHostIsFound
      BY DEF IInv, Registered
<1> QED BY <1>1, Inductive, PTL

\* A phone that is connected is in the channels of a host that is registered,
\* so that the close of this host reaches it (registerMobile and handleClose).
THEOREM NoPhoneIsOrphaned == Spec => []NoOrphanPhone
<1>1. IInv => NoOrphanPhone
      BY DEF IInv, Registered
<1> QED BY <1>1, Inductive, PTL

\* What has reached the gateway of a phone's requests is a prefix of what the
\* relay has read of them, each once and in order, over any number of
\* connections, losses and restarts (handleMobileMessage, handleRelayMessage).
THEOREM RequestsInOrder == Spec => []ArriveInOrder
<1>1. IInv => ArriveInOrder
  <2> SUFFICES ASSUME IInv, NEW p \in Phones
               PROVE  /\ Len(arrived[p]) <= sent[p]
                      /\ \A i \in DOMAIN arrived[p] : arrived[p][i] = i
      BY DEF ArriveInOrder
  <2>1. TypeOK /\ Taken(p)
        BY DEF IInv, Channels, Ordered
  <2>2. arrived[p] \in Seq(Nat) /\ pending[p] \in Seq(Nat) /\ sent[p] \in Nat
        BY <2>1, BaseType
  <2>3. DOMAIN arrived[p] = 1 .. Len(arrived[p])
        BY <2>2
  <2>4. Len(arrived[p]) + Len(pending[p]) <= sent[p]
        BY <2>1 DEF Taken, Base
  <2>5. Len(arrived[p]) <= sent[p]
    <3> DEFINE a == Len(arrived[p])
               w == Len(pending[p])
    <3>1. a \in Nat /\ w \in Nat
          BY <2>2
    <3>2. a + w <= sent[p]
          BY <2>4
    <3> HIDE DEF a, w
    <3>3. a <= sent[p]
          BY <2>2, <3>1, <3>2
    <3> QED BY <3>3 DEF a
  <2> QED BY <2>1, <2>3, <2>5 DEF Taken
<1> QED BY <1>1, Inductive, PTL
-----------------------------------------------------------------------------
(* The answers.                                                            *)

\* The gateway answers what has arrived, a phone is told of what it has sent.
Told ==
    \A p \in Phones : /\ replied[p] \subseteq 1 .. Len(arrived[p])
                      /\ answered[p] \subseteq 1 .. sent[p]

\* An answer on its way was given by the gateway of its phone.
UpReplies ==
    \A h \in Conns : \A i \in 1 .. Len(up[h]) :
        up[h][i].type = "response" =>
            up[h][i].phone \in Phones /\ up[h][i].n \in replied[up[h][i].phone]

\* A request that was refused is nowhere on the way, and none follows it.
RefusedStay ==
    \A p \in Phones : \A n \in Refused[p] :
        /\ n > Base(p) /\ ~HostOpen(p)
        /\ \A h \in Conns : \A i \in 1 .. Len(down[h]) :
              down[h][i] # Msg("request", p, n)

Answers == Told /\ UpReplies /\ RefusedStay

-----------------------------------------------------------------------------

\* The steps, one handler each, with what the handler leaves alone.
LEMMA Handlers ==
    ASSUME [Next]_vars
    PROVE  \/ \E h \in Conns : RegisterHost(h) /\ UNCHANGED client
           \/ \E h \in Conns : ForwardResponse(h) /\ UNCHANGED client
           \/ \E h \in Conns : FailPhone(h) /\ UNCHANGED client
           \/ \E h \in Conns : FarCloses(h) /\ UNCHANGED client
           \/ \E h \in Conns : (FarHears(h) \/ NearHears(h)) /\ UNCHANGED <<server, client>>
           \/ \E h \in Conns : Connect(h) /\ UNCHANGED server
           \/ \E h \in Conns : Opens(h) /\ UNCHANGED server
           \/ \E h \in Conns : OnClose(h) /\ UNCHANGED server
           \/ \E h \in Conns : OpenChannel(h) /\ UNCHANGED server
           \/ \E h \in Conns : ForwardRequest(h) /\ UNCHANGED server
           \/ \E h \in Conns : CloseChannel(h) /\ UNCHANGED server
           \/ \E p \in Phones : LocalReady(p) /\ UNCHANGED server
           \/ \E p \in Phones : LocalDrops(p) /\ UNCHANGED server
           \/ \E p \in Phones : LocalCloses(p) /\ UNCHANGED server
           \/ \E p \in Phones : \E n \in 1 .. Sends[p] : GatewayAnswers(p, n) /\ UNCHANGED server
           \/ \E p \in Phones : PhoneAuth(p) /\ UNCHANGED client
           \/ \E p \in Phones : PhoneRequests(p) /\ UNCHANGED client
           \/ \E p \in Phones : PhoneCloses(p) /\ UNCHANGED client
           \/ Stop /\ UNCHANGED server
           \/ \E h \in Conns : Break(h) /\ UNCHANGED <<server, client>>
           \/ RelayRestarts /\ UNCHANGED client
           \/ UNCHANGED <<link, server, client>>
<1>1. CASE Next
      BY <1>1 DEF Next, ServerStep, ServerReads, ClientStep, ClientReads, NearCloses,
         LocalStep, AnswerStep, PhoneStep, Stops, Faults, ConnectFails
<1>2. CASE UNCHANGED vars
      BY <1>2 DEF vars
<1> QED BY <1>1, <1>2

\* Any other step leaves what the phones can see as it is, or moves their
\* sockets on.
MovesOn(p) ==
    \/ phone'[p] = phone[p]
    \/ phone[p] = "new" /\ phone'[p] \in {"open", "closed"}
    \/ phone[p] = "open" /\ phone'[p] \in {"closing", "closed"}
    \/ phone[p] = "closing" /\ phone'[p] = "closed"

Quiet == UNCHANGED <<sent, arrived, replied, answered>> /\ \A p \in Phones : MovesOn(p)

LEMMA WhatIsSeen ==
    ASSUME TypeOK, [Next]_vars
    PROVE  \/ Quiet
           \/ \E h \in Conns : ForwardResponse(h) /\ UNCHANGED client
           \/ \E h \in Conns : ForwardRequest(h) /\ UNCHANGED server
           \/ \E p \in Phones : LocalReady(p) /\ UNCHANGED server
           \/ \E p \in Phones : \E n \in 1 .. Sends[p] : GatewayAnswers(p, n) /\ UNCHANGED server
           \/ \E p \in Phones : PhoneRequests(p) /\ UNCHANGED client
<1> USE DEF link, server, client, gateway
<1>0. phone \in [Phones -> {"new", "open", "closing", "closed"}]
      BY DEF TypeOK, ServerTypeOK
<1>1. ASSUME UNCHANGED <<sent, arrived, replied, answered, phone>> PROVE Quiet
      BY <1>1 DEF Quiet, MovesOn
<1>2. ASSUME NEW h \in Conns, RegisterHost(h), UNCHANGED client PROVE Quiet
      BY <1>1, <1>2 DEF RegisterHost, Takes
<1>3. ASSUME NEW h \in Conns, FailPhone(h), UNCHANGED client PROVE Quiet
      BY <1>0, <1>3 DEF FailPhone, Takes, Closing, Quiet, MovesOn
<1>4. ASSUME NEW h \in Conns, FarCloses(h), UNCHANGED client PROVE Quiet
      BY <1>0, <1>4 DEF FarCloses, Orphaned, Quiet, MovesOn
<1>5. ASSUME NEW h \in Conns, Connect(h) \/ Opens(h) \/ OnClose(h), UNCHANGED server PROVE Quiet
      BY <1>1, <1>5 DEF Connect, Opens, OnClose
<1>6. ASSUME NEW h \in Conns, OpenChannel(h) \/ CloseChannel(h), UNCHANGED server PROVE Quiet
      BY <1>1, <1>6 DEF OpenChannel, CloseChannel, Reads
<1>7. ASSUME NEW p \in Phones, LocalDrops(p) \/ LocalCloses(p), UNCHANGED server PROVE Quiet
      BY <1>1, <1>7 DEF LocalDrops, LocalCloses
<1>8. ASSUME NEW p \in Phones, PhoneAuth(p) \/ PhoneCloses(p), UNCHANGED client PROVE Quiet
      BY <1>0, <1>8 DEF PhoneAuth, PhoneCloses, Quiet, MovesOn
<1>9. ASSUME Stop, UNCHANGED server PROVE Quiet
      BY <1>1, <1>9 DEF Stop
<1>10. ASSUME RelayRestarts, UNCHANGED client PROVE Quiet
      BY <1>0, <1>10 DEF RelayRestarts, Quiet, MovesOn
<1>11. ASSUME UNCHANGED <<server, client>> PROVE Quiet
      BY <1>1, <1>11
<1> HIDE DEF link, server, client, gateway
<1>12. UNCHANGED <<link, server, client>> => UNCHANGED <<server, client>>
      OBVIOUS
<1> QED
      BY <1>2, <1>3, <1>4, <1>5, <1>6, <1>7, <1>8, <1>9, <1>10, <1>11, <1>12, Handlers

\* What the client has taken of a phone's requests grows by the next one when
\* this is read, and never otherwise.
LEMMA BaseStep ==
    ASSUME IInv, IInv', [Next]_vars, NEW p \in Phones
    PROVE  \/ Base(p)' <= Base(p)
           \/ /\ Base(p)' = Base(p) + 1
              /\ \E h \in Conns : \E i \in 1 .. Len(down[h]) :
                    down[h][i] = Msg("request", p, Base(p) + 1)
<1> USE DEF link, server, client, gateway
<1>0. /\ TypeOK /\ TypeOK' /\ DownNames /\ Channels
      /\ arrived[p] \in Seq(Nat) /\ pending[p] \in Seq(Nat)
      /\ arrived'[p] \in Seq(Nat) /\ pending'[p] \in Seq(Nat)
      BY BaseType DEF IInv, TypeOK, ClientTypeOK
<1>1. ASSUME arrived'[p] = arrived[p], pending'[p] \in {pending[p], <<>>}
      PROVE  Base(p)' <= Base(p)
      BY <1>0, <1>1 DEF Base
<1>2. ASSUME NEW channels, CloseChannels(channels), arrived' = arrived
      PROVE  Base(p)' <= Base(p)
      BY <1>1, <1>2 DEF CloseChannels
<1>3. ASSUME UNCHANGED client PROVE Base(p)' <= Base(p)
      BY <1>1, <1>3
<1>4. ASSUME NEW h \in Conns, Connect(h) \/ Opens(h) \/ OnClose(h)
      PROVE  Base(p)' <= Base(p)
      BY <1>1, <1>2, <1>4 DEF Connect, Opens, OnClose
<1>5. ASSUME NEW h \in Conns, OpenChannel(h) \/ CloseChannel(h)
      PROVE  Base(p)' <= Base(p)
      BY <1>1, <1>2, <1>5 DEF OpenChannel, CloseChannel, Reads
<1>6. ASSUME NEW r \in Phones, LocalDrops(r) \/ LocalCloses(r) PROVE Base(p)' <= Base(p)
  <2>1. arrived' = arrived /\ pending' \in {pending, [pending EXCEPT ![r] = <<>>]}
        BY <1>6 DEF LocalDrops, LocalCloses
  <2>2. pending'[p] \in {pending[p], <<>>}
        BY <1>0, <2>1 DEF TypeOK, ClientTypeOK
  <2> QED BY <1>1, <2>1, <2>2
<1>7. ASSUME NEW r \in Phones, LocalReady(r) PROVE Base(p)' <= Base(p)
  <2>1. CASE r # p
    <3>1. arrived'[p] = arrived[p] /\ pending'[p] = pending[p]
          BY <1>0, <1>7, <2>1 DEF LocalReady, TypeOK, ClientTypeOK
    <3> QED BY <1>1, <3>1
  <2>2. CASE r = p
    <3>1. arrived'[p] = arrived[p] \o pending[p] /\ pending'[p] = <<>>
          BY <1>0, <1>7, <2>2 DEF LocalReady, Flushed, TypeOK, ClientTypeOK
    <3> QED BY <1>0, <3>1, ConcatSeq DEF Base
  <2> QED BY <2>1, <2>2
<1>8. ASSUME NEW r \in Phones, NEW n \in 1 .. Sends[r], GatewayAnswers(r, n)
      PROVE  Base(p)' <= Base(p)
      BY <1>1, <1>8 DEF GatewayAnswers
<1>9. ASSUME NEW h \in Conns, ForwardRequest(h)
      PROVE  \/ Base(p)' <= Base(p)
             \/ /\ Base(p)' = Base(p) + 1
                /\ \E i \in 1 .. Len(down[h]) : down[h][i] = Msg("request", p, Base(p) + 1)
  <2> DEFINE m == Head(down[h])
  <2>1. Reads(h, "request") /\ down[h] # <<>> /\ m.type = "request"
        BY <1>9 DEF ForwardRequest, Reads
  <2>2. /\ m = down[h][1] /\ m.phone \in Phones /\ m.n \in Nat
        /\ Live(m.phone) => m.n = Base(m.phone) + 1
        BY <1>0, <2>1, HeadOfQueue
  <2>3. CASE p = m.phone /\ Live(p) /\ p \in mapped
    <3>1. down[h] \in Seq(Message)
          BY <1>0 DEF TypeOK, LinkTypeOK
    <3>2. 1 \in 1 .. Len(down[h]) /\ m \in Message
          BY <2>1, <3>1
    <3>3. m = Msg("request", p, Base(p) + 1)
          BY <2>1, <2>2, <2>3, <3>2 DEF Msg, Message
    <3>4. \/ arrived'[p] = Append(arrived[p], m.n) /\ pending'[p] = pending[p]
          \/ arrived'[p] = arrived[p] /\ pending'[p] = Append(pending[p], m.n)
          \/ arrived'[p] = arrived[p] /\ pending'[p] = pending[p]
          BY <1>0, <1>9, <2>3 DEF ForwardRequest, TypeOK, ClientTypeOK
    <3>5. Base(p)' \in {Base(p), Base(p) + 1}
      <4>1. /\ arrived[p] \in Seq(Nat) /\ pending[p] \in Seq(Nat) /\ m.n \in Nat
            BY <1>0, <2>2
      <4>2. /\ Len(Append(arrived[p], m.n)) = Len(arrived[p]) + 1
            /\ Len(Append(pending[p], m.n)) = Len(pending[p]) + 1
            BY <4>1
      <4>3. Len(arrived[p]) \in Nat /\ Len(pending[p]) \in Nat
            BY <4>1
      <4> DEFINE a == Len(arrived[p])
                 w == Len(pending[p])
                 a1 == Len(arrived'[p])
                 w1 == Len(pending'[p])
      <4>4. Base(p) = a + w /\ Base(p)' = a1 + w1
            BY DEF Base
      <4>5. /\ a1 \in {a, a + 1} /\ w1 \in {w, w + 1}
            /\ a1 = a \/ w1 = w
            BY <3>4, <4>2
      <4>6. a \in Nat /\ w \in Nat
            BY <4>3
      <4> HIDE DEF a, w, a1, w1
      <4>7. a1 + w1 \in {a + w, a + w + 1}
            BY <4>5, <4>6
      <4> QED BY <4>4, <4>7
    <3>6. Base(p) \in Nat
          BY <1>0, BaseType
    <3> QED BY <2>2, <3>2, <3>3, <3>5, <3>6
  <2>4. CASE ~(p = m.phone /\ Live(p) /\ p \in mapped)
    <3>1. arrived'[p] = arrived[p] /\ pending'[p] = pending[p]
          BY <1>0, <1>9, <2>2, <2>4 DEF ForwardRequest, TypeOK, ClientTypeOK, Live
    <3> QED BY <1>1, <3>1
  <2> QED BY <2>3, <2>4
<1>10. ASSUME Stop PROVE Base(p)' <= Base(p)
      BY <1>2, <1>10 DEF Stop
<1> HIDE DEF link, server, client, gateway
<1>11. /\ UNCHANGED <<server, client>> => UNCHANGED client
       /\ UNCHANGED <<link, server, client>> => UNCHANGED client
      OBVIOUS
<1>12. \/ Base(p)' <= Base(p)
       \/ \E h \in Conns : ForwardRequest(h)
      BY <1>3, <1>4, <1>5, <1>6, <1>7, <1>8, <1>10, <1>11, Handlers
<1> QED BY <1>9, <1>12

\* What is on the way to a client loses messages from its front, loses all of
\* them, or gets one more at its end: a request only when a phone asks.
LEMMA DownChanges ==
    ASSUME TypeOK, TypeOK', [Next]_vars, NEW g \in Conns
    PROVE  \/ down'[g] = down[g] \/ down'[g] = <<>>
           \/ down[g] # <<>> /\ down'[g] = Tail(down[g])
           \/ \E m \in Message :
                 /\ down'[g] = Append(down[g], m)
                 /\ \/ m.type # "request"
                    \/ \E p \in Phones : /\ PhoneRequests(p) /\ HostOpen(p)
                                         /\ m = Msg("request", p, sent[p] + 1)
<1> USE DEF link, server, client, gateway
<1>0. down \in [Conns -> Seq(Message)]
      BY DEF TypeOK, LinkTypeOK
<1>1. ASSUME down' = down PROVE down'[g] = down[g]
      BY <1>1
<1>2. ASSUME NEW h \in Conns, FarCloses(h) \/ OnClose(h)
      PROVE  down'[g] = down[g] \/ down'[g] = <<>>
      BY <1>2, Forgets DEF FarCloses, OnClose
<1>3. ASSUME NEW h \in Conns, NEW type, Reads(h, type)
      PROVE  down'[g] = down[g] \/ (down[g] # <<>> /\ down'[g] = Tail(down[g]))
      BY <1>0, <1>3 DEF Reads
<1>4. ASSUME NEW h \in Conns, NEW m \in Message, down' = Send(down, far, h, m)
      PROVE  down'[g] = down[g] \/ down'[g] = Append(down[g], m)
      BY <1>4, SendEffect
<1>5. ASSUME NEW p \in Phones, PhoneRequests(p)
      PROVE  \/ down'[g] = down[g]
             \/ /\ HostOpen(p)
                /\ Msg("request", p, sent[p] + 1) \in Message
                /\ down'[g] = Append(down[g], Msg("request", p, sent[p] + 1))
  <2>1. Msg("request", p, sent[p] + 1) \in Message
        BY MsgType DEF TypeOK, ServerTypeOK
  <2>2. CASE HostOpen(p)
    <3>1. hostOf[p] \in Conns
          BY <2>2 DEF HostOpen, TypeOK, ServerTypeOK
    <3>2. down' = Send(down, far, hostOf[p], Msg("request", p, sent[p] + 1))
          BY <1>5, <2>2 DEF PhoneRequests
    <3> QED BY <1>4, <2>1, <2>2, <3>1, <3>2
  <2>3. CASE ~HostOpen(p)
        BY <1>5, <2>3 DEF PhoneRequests
  <2> QED BY <2>2, <2>3
<1>6. ASSUME NEW p \in Phones, PhoneAuth(p)
      PROVE  \/ down'[g] = down[g]
             \/ down'[g] = Append(down[g], Msg("open", p, 0))
  <2>1. Msg("open", p, 0) \in Message
        BY MsgType
  <2>2. host \in Conns \cup {NoConn}
        BY DEF TypeOK, ServerTypeOK
  <2> QED BY <1>4, <1>6, <2>1, <2>2 DEF PhoneAuth
<1>7. ASSUME NEW p \in Phones, PhoneCloses(p)
      PROVE  \/ down'[g] = down[g]
             \/ down'[g] = Append(down[g], Msg("close", p, 0))
  <2>1. Msg("close", p, 0) \in Message
        BY MsgType
  <2>2. HostOpen(p) => hostOf[p] \in Conns
        BY DEF HostOpen, TypeOK, ServerTypeOK
  <2> QED BY <1>4, <1>7, <2>1, <2>2 DEF PhoneCloses
<1>8. \A p \in Phones : /\ Msg("open", p, 0) \in Message /\ Msg("close", p, 0) \in Message
                        /\ Msg("open", p, 0).type # "request"
                        /\ Msg("close", p, 0).type # "request"
      BY MsgType
<1>9. ASSUME NEW h \in Conns, RegisterHost(h) \/ ForwardResponse(h) \/ FailPhone(h)
      PROVE  down' = down
      BY <1>9 DEF RegisterHost, ForwardResponse, FailPhone, Takes
<1>10. ASSUME NEW h \in Conns, \/ Break(h) \/ Connect(h) \/ Opens(h)
                               \/ FarHears(h) \/ NearHears(h)
       PROVE  down' = down
       BY <1>10 DEF Break, Connect, Opens, FarHears, NearHears
<1>11. RelayRestarts => down'[g] = down[g] \/ down'[g] = <<>>
       BY Forgets DEF RelayRestarts
<1>12. ASSUME NEW h \in Conns, OpenChannel(h) \/ ForwardRequest(h) \/ CloseChannel(h)
       PROVE  \E type : Reads(h, type)
       BY <1>12 DEF OpenChannel, ForwardRequest, CloseChannel
<1>13. ASSUME NEW p \in Phones, LocalReady(p) \/ LocalDrops(p) \/ LocalCloses(p)
       PROVE  down' = down
       BY <1>13 DEF LocalReady, LocalDrops, LocalCloses
<1>14. ASSUME NEW p \in Phones, NEW n \in 1 .. Sends[p], GatewayAnswers(p, n)
       PROVE  down' = down
       BY <1>14 DEF GatewayAnswers
<1>15. Stop => down' = down
       BY DEF Stop
<1>16. UNCHANGED <<link, server, client>> => down' = down
       OBVIOUS
<1> HIDE DEF link, server, client, gateway
<1> DEFINE Kept == \/ down'[g] = down[g] \/ down'[g] = <<>>
                   \/ down[g] # <<>> /\ down'[g] = Tail(down[g])
<1>17. \/ Kept
       \/ \E p \in Phones : PhoneRequests(p) \/ PhoneAuth(p) \/ PhoneCloses(p)
       BY <1>1, <1>2, <1>3, <1>9, <1>10, <1>11, <1>12, <1>13, <1>14, <1>15, <1>16,
          Handlers
<1> QED BY <1>5, <1>6, <1>7, <1>8, <1>17

\* A request on its way was on it before, or is the next of a phone with a host.
LEMMA OnTheWay ==
    ASSUME TypeOK, TypeOK', [Next]_vars, NEW p \in Phones, NEW n \in Nat,
           NEW g \in Conns, NEW i \in 1 .. Len(down'[g]),
           down'[g][i] = Msg("request", p, n)
    PROVE  \/ \E j \in 1 .. Len(down[g]) : down[g][j] = Msg("request", p, n)
           \/ PhoneRequests(p) /\ HostOpen(p) /\ n = sent[p] + 1
<1>0. down[g] \in Seq(Message)
      BY DEF TypeOK, LinkTypeOK
<1>1. CASE down'[g] = down[g]
      BY <1>1
<1>2. down'[g] # <<>>
      OBVIOUS
<1>3. CASE down[g] # <<>> /\ down'[g] = Tail(down[g])
  <2>1. down'[g][i] = down[g][i + 1] /\ i + 1 \in 1 .. Len(down[g])
        BY <1>0, <1>3, TailMessage
  <2> QED BY <2>1
<1>4. ASSUME NEW m \in Message, down'[g] = Append(down[g], m),
             \/ m.type # "request"
             \/ \E r \in Phones : /\ PhoneRequests(r) /\ HostOpen(r)
                                  /\ m = Msg("request", r, sent[r] + 1)
      PROVE  \/ \E j \in 1 .. Len(down[g]) : down[g][j] = Msg("request", p, n)
             \/ PhoneRequests(p) /\ HostOpen(p) /\ n = sent[p] + 1
  <2>1. CASE i \in 1 .. Len(down[g])
        BY <1>0, <1>4, <2>1, AppendMessage
  <2>2. CASE i = Len(down[g]) + 1
    <3>1. m = Msg("request", p, n)
          BY <1>0, <1>4, <2>2, AppendMessage
    <3>2. m.type = "request" /\ m.phone = p /\ m.n = n
          BY <3>1, MsgType
    <3>3. PICK r \in Phones : /\ PhoneRequests(r) /\ HostOpen(r)
                              /\ m = Msg("request", r, sent[r] + 1)
          BY <1>4, <3>2
    <3>4. r = m.phone /\ sent[r] + 1 = m.n
          BY <3>3 DEF Msg
    <3> QED BY <3>2, <3>3, <3>4
  <2>3. Len(down'[g]) = Len(down[g]) + 1
        BY <1>0, <1>4, AppendMessage
  <2>4. Len(down[g]) \in Nat
        BY <1>0
  <2> QED BY <2>1, <2>2, <2>3, <2>4
<1> QED BY <1>1, <1>2, <1>3, <1>4, DownChanges

\* What is on the way to the relay changes in the same ways: it gets an answer
\* only when a gateway gives one.
LEMMA UpChanges ==
    ASSUME TypeOK, TypeOK', DownNames, [Next]_vars, NEW g \in Conns
    PROVE  \/ up'[g] = up[g] \/ up'[g] = <<>>
           \/ up'[g] = <<Msg("register", NoConn, 0)>>
           \/ up[g] # <<>> /\ up'[g] = Tail(up[g])
           \/ \E m \in Message :
                 /\ up'[g] = Append(up[g], m)
                 /\ \/ m.type # "response"
                    \/ \E p \in Phones : \E n \in 1 .. Sends[p] :
                          GatewayAnswers(p, n) /\ m = Msg("response", p, n)
<1> USE DEF link, server, client, gateway
<1>0. up \in [Conns -> Seq(Message)] /\ relay \in Conns \cup {NoConn}
      BY DEF TypeOK, LinkTypeOK, ClientTypeOK
<1>1. ASSUME NEW h \in Conns, Takes(h)
      PROVE  up'[g] = up[g] \/ (up[g] # <<>> /\ up'[g] = Tail(up[g]))
      BY <1>0, <1>1 DEF Takes
<1>2. ASSUME NEW m \in Message, up' = SendRelay(m)
      PROVE  up'[g] = up[g] \/ up'[g] = Append(up[g], m)
  <2>1. CASE relay = NoConn
        BY <1>2, <2>1 DEF SendRelay
  <2>2. CASE relay # NoConn
    <3>1. relay \in Conns /\ up' = Send(up, near, relay, m)
          BY <1>0, <1>2, <2>2 DEF SendRelay
    <3>2. up' \in {up, [up EXCEPT ![relay] = Append(@, m)]}
          BY <3>1 DEF Send
    <3> QED BY <1>0, <3>1, <3>2
  <2> QED BY <2>1, <2>2
<1>3. ASSUME NEW h \in Conns, FarCloses(h) \/ OnClose(h)
      PROVE  up'[g] = up[g] \/ up'[g] = <<>>
      BY <1>3, Forgets DEF FarCloses, OnClose
<1>4. ASSUME NEW h \in Conns, Opens(h)
      PROVE  up'[g] = up[g] \/ up'[g] = <<Msg("register", NoConn, 0)>>
      BY <1>0, <1>4 DEF Opens
<1>5. RelayRestarts => up'[g] = up[g] \/ up'[g] = <<>>
      BY Forgets DEF RelayRestarts
<1>6. \A p \in Phones : /\ Msg("error", p, 0) \in Message
                        /\ Msg("error", p, 0).type # "response"
      BY MsgType
<1>7. ASSUME NEW p \in Phones, LocalCloses(p)
      PROVE  up'[g] = up[g] \/ up'[g] = Append(up[g], Msg("error", p, 0))
      BY <1>2, <1>6, <1>7 DEF LocalCloses
<1>8. ASSUME NEW h \in Conns, ForwardRequest(h)
      PROVE  \/ up'[g] = up[g]
             \/ \E p \in Phones : up'[g] = Append(up[g], Msg("error", p, 0))
  <2>1. Head(down[h]).phone \in Phones
    <3>1. down[h] \in Seq(Message) /\ down[h] # <<>>
          BY <1>8 DEF ForwardRequest, Reads, TypeOK, LinkTypeOK
    <3>2. Head(down[h]) = down[h][1] /\ 1 \in 1 .. Len(down[h])
          BY <3>1
    <3> QED BY <3>2 DEF DownNames
  <2> QED BY <1>2, <1>6, <1>8, <2>1 DEF ForwardRequest
<1>9. ASSUME NEW p \in Phones, NEW n \in 1 .. Sends[p], GatewayAnswers(p, n)
      PROVE  \/ up'[g] = up[g]
             \/ /\ Msg("response", p, n) \in Message
                /\ up'[g] = Append(up[g], Msg("response", p, n))
  <2>1. Msg("response", p, n) \in Message
        BY MsgType
  <2> QED BY <1>2, <1>9, <2>1 DEF GatewayAnswers
<1>10. ASSUME NEW h \in Conns, RegisterHost(h) \/ ForwardResponse(h) \/ FailPhone(h)
       PROVE  Takes(h)
       BY <1>10 DEF RegisterHost, ForwardResponse, FailPhone
<1>11. ASSUME NEW h \in Conns, \/ Connect(h) \/ Break(h) \/ FarHears(h) \/ NearHears(h)
                               \/ OpenChannel(h) \/ CloseChannel(h)
       PROVE  up' = up
       BY <1>11 DEF Connect, Break, FarHears, NearHears, OpenChannel, CloseChannel
<1>12. ASSUME NEW p \in Phones, \/ LocalReady(p) \/ LocalDrops(p) \/ PhoneAuth(p)
                                \/ PhoneRequests(p) \/ PhoneCloses(p)
       PROVE  up' = up
       BY <1>12 DEF LocalReady, LocalDrops, PhoneAuth, PhoneRequests, PhoneCloses
<1>13. Stop => up' = up
       BY DEF Stop
<1>14. UNCHANGED <<link, server, client>> => up' = up
       OBVIOUS
<1> HIDE DEF link, server, client, gateway
<1> DEFINE Kept == \/ up'[g] = up[g] \/ up'[g] = <<>>
                   \/ up'[g] = <<Msg("register", NoConn, 0)>>
                   \/ up[g] # <<>> /\ up'[g] = Tail(up[g])
<1>15. \/ Kept
       \/ \E h \in Conns : ForwardRequest(h)
       \/ \E p \in Phones : LocalCloses(p)
       \/ \E p \in Phones : \E n \in 1 .. Sends[p] : GatewayAnswers(p, n)
       BY <1>1, <1>3, <1>4, <1>5, <1>10, <1>11, <1>12, <1>13, <1>14, Handlers
<1> QED BY <1>6, <1>7, <1>8, <1>9, <1>15

\* What a gateway has answered stays answered.
LEMMA AnswersStay ==
    ASSUME TypeOK, [Next]_vars, NEW p \in Phones
    PROVE  replied[p] \subseteq replied'[p]
<1>1. ASSUME NEW r \in Phones, NEW n \in 1 .. Sends[r], GatewayAnswers(r, n)
      PROVE  replied[p] \subseteq replied'[p]
      BY <1>1 DEF GatewayAnswers, TypeOK, ClientTypeOK
<1>2. \/ replied' = replied
      \/ \E r \in Phones : \E n \in 1 .. Sends[r] : GatewayAnswers(r, n)
      BY WhatIsSeen DEF Quiet, client, ForwardRequest, Reads, LocalReady
<1> QED BY <1>1, <1>2

\* Every answer on its way is one the gateway gave.
LEMMA UpRepliesStep ==
    ASSUME TypeOK, TypeOK', DownNames, UpReplies, [Next]_vars
    PROVE  UpReplies'
<1> SUFFICES ASSUME NEW g \in Conns, NEW i \in 1 .. Len(up'[g]),
                    up'[g][i].type = "response"
             PROVE  /\ up'[g][i].phone \in Phones
                    /\ up'[g][i].n \in replied'[up'[g][i].phone]
    BY DEF UpReplies
<1>0. up[g] \in Seq(Message)
      BY DEF TypeOK, LinkTypeOK
<1>1. ASSUME NEW j \in 1 .. Len(up[g]), up'[g][i] = up[g][j]
      PROVE  /\ up'[g][i].phone \in Phones
             /\ up'[g][i].n \in replied'[up'[g][i].phone]
      BY <1>1, AnswersStay DEF UpReplies
<1>2. CASE up'[g] = up[g]
      BY <1>1, <1>2
<1>3. CASE up[g] # <<>> /\ up'[g] = Tail(up[g])
  <2>1. up'[g][i] = up[g][i + 1] /\ i + 1 \in 1 .. Len(up[g])
        BY <1>0, <1>3, TailMessage
  <2> QED BY <1>1, <2>1
<1>4. CASE up'[g] = <<Msg("register", NoConn, 0)>>
  <2>1. i = 1 /\ up'[g][1] = Msg("register", NoConn, 0)
        BY <1>4
  <2> QED BY <2>1 DEF Msg
<1>5. ASSUME NEW m \in Message, up'[g] = Append(up[g], m),
             \/ m.type # "response"
             \/ \E p \in Phones : \E n \in 1 .. Sends[p] :
                   GatewayAnswers(p, n) /\ m = Msg("response", p, n)
      PROVE  /\ up'[g][i].phone \in Phones
             /\ up'[g][i].n \in replied'[up'[g][i].phone]
  <2>1. CASE i \in 1 .. Len(up[g])
        BY <1>0, <1>1, <1>5, <2>1, AppendMessage
  <2>2. CASE i = Len(up[g]) + 1
    <3>1. up'[g][i] = m
          BY <1>0, <1>5, <2>2, AppendMessage
    <3>2. PICK p \in Phones : \E n \in 1 .. Sends[p] :
                GatewayAnswers(p, n) /\ m = Msg("response", p, n)
          BY <1>5, <3>1
    <3> PICK n \in 1 .. Sends[p] : GatewayAnswers(p, n) /\ m = Msg("response", p, n)
        BY <3>2
    <3>3. m.phone = p /\ m.n = n
          BY DEF Msg
    <3>4. n \in replied'[p]
          BY DEF GatewayAnswers, TypeOK, ClientTypeOK
    <3> QED BY <3>1, <3>3, <3>4
  <2>3. Len(up'[g]) = Len(up[g]) + 1 /\ Len(up[g]) \in Nat
        BY <1>0, <1>5, AppendMessage
  <2> QED BY <2>1, <2>2, <2>3
<1>6. up'[g] # <<>>
      OBVIOUS
<1> QED BY <1>2, <1>3, <1>4, <1>5, <1>6, UpChanges

\* A phone is refused when it asks while its host is gone, and no other way.
LEMMA RefusedStep ==
    ASSUME TypeOK, UpReplies, [Next]_vars, NEW p \in Phones, NEW n \in Refused[p]'
    PROVE  n \in Refused[p] \/ (PhoneRequests(p) /\ ~HostOpen(p) /\ n = sent[p] + 1)
<1>0. /\ Refused[p] = answered[p] \ replied[p]
      /\ Refused[p]' = answered'[p] \ replied'[p]
      BY DEF Refused
<1>1. replied[p] \subseteq replied'[p]
      BY AnswersStay
<1>2. CASE answered'[p] = answered[p]
      BY <1>0, <1>1, <1>2
<1>3. ASSUME NEW h \in Conns, ForwardResponse(h) PROVE n \in Refused[p]
  <2> DEFINE m == Head(up[h])
  <2>1. m = up[h][1] /\ 1 \in 1 .. Len(up[h]) /\ m.type = "response"
    <3>1. up[h] \in Seq(Message) /\ up[h] # <<>>
          BY <1>3 DEF ForwardResponse, Takes, TypeOK, LinkTypeOK
    <3> QED BY <1>3, <3>1 DEF ForwardResponse
  <2>2. m.n \in replied[m.phone]
        BY <2>1 DEF UpReplies
  <2>3. \/ answered'[p] = answered[p]
        \/ m.phone = p /\ answered'[p] = answered[p] \cup {m.n}
        BY <1>3 DEF ForwardResponse, TypeOK, ServerTypeOK
  <2> QED BY <1>0, <1>1, <2>2, <2>3
<1>4. ASSUME NEW r \in Phones, PhoneRequests(r)
      PROVE  \/ answered'[p] = answered[p]
             \/ /\ PhoneRequests(p) /\ ~HostOpen(p)
                /\ answered'[p] = answered[p] \cup {sent[p] + 1}
      BY <1>4 DEF PhoneRequests, TypeOK, ServerTypeOK
<1>5. \/ answered'[p] = answered[p]
      \/ \E h \in Conns : ForwardResponse(h)
      \/ \E r \in Phones : PhoneRequests(r)
      BY WhatIsSeen DEF Quiet, server, GatewayAnswers
<1> QED BY <1>0, <1>1, <1>2, <1>3, <1>4, <1>5

\* A phone gets a host only when it comes.
LEMMA HostOpenStep ==
    ASSUME TypeOK, FarState, OneHost, [Next]_vars, NEW p \in Phones, HostOpen(p)'
    PROVE  HostOpen(p) \/ phone[p] = "new"
<1> USE DEF link, server, client, gateway
<1> DEFINE g == hostOf'[p]
<1>0. /\ g # NoConn /\ far'[g] = "open"
      /\ far \in [Conns -> EndState] /\ hostOf[p] \in Conns \cup {NoConn}
      BY DEF HostOpen, TypeOK, LinkTypeOK, ServerTypeOK
<1>1. ASSUME g = hostOf[p], far[g] = "open" PROVE HostOpen(p)
      BY <1>0, <1>1 DEF HostOpen
<1>2. ASSUME NEW h \in Conns, RegisterHost(h) PROVE HostOpen(p)
  <2>1. g = hostOf[p] /\ g \in Conns
        BY <1>0, <1>2 DEF RegisterHost
  <2>2. CASE host = NoConn
        BY <1>0, <1>1, <1>2, <2>1, <2>2 DEF RegisterHost
  <2>3. CASE host # NoConn
    <3>1. host \in Conns /\ far' = Closing(far, host)
          BY <1>2, <2>3 DEF RegisterHost, TypeOK, ServerTypeOK
    <3> QED BY <1>0, <1>1, <2>1, <3>1, ClosingState
  <2> QED BY <2>2, <2>3
<1>3. ASSUME NEW h \in Conns, ForwardResponse(h) \/ FailPhone(h) PROVE HostOpen(p)
      BY <1>0, <1>1, <1>3 DEF ForwardResponse, FailPhone
<1>4. ASSUME NEW h \in Conns, FarCloses(h) PROVE HostOpen(p)
  <2>1. g = hostOf[p] /\ g # h
        BY <1>0, <1>4 DEF FarCloses
  <2>2. far'[g] = far[g]
        BY <1>0, <1>4, <2>1 DEF FarCloses
  <2> QED BY <1>0, <1>1, <2>1, <2>2
<1>5. ASSUME NEW h \in Conns, FarHears(h), UNCHANGED server PROVE HostOpen(p)
      BY <1>0, <1>1, <1>5 DEF FarHears
<1>6. ASSUME NEW h \in Conns, NearHears(h) \/ Break(h), UNCHANGED server PROVE HostOpen(p)
      BY <1>0, <1>1, <1>6 DEF NearHears, Break
<1>7. ASSUME NEW h \in Conns, Connect(h) \/ OnClose(h), UNCHANGED server
      PROVE  HostOpen(p)
      BY <1>0, <1>1, <1>7 DEF Connect, OnClose
<1>8. ASSUME NEW h \in Conns, Opens(h), UNCHANGED server PROVE HostOpen(p)
  <2>1. far[h] = "closed" /\ g = hostOf[p] /\ far[g] # "closed"
        BY <1>0, <1>8 DEF Opens, FarState, OneHost
  <2>2. far'[g] = far[g]
        BY <1>0, <1>8, <2>1 DEF Opens
  <2> QED BY <1>0, <1>1, <2>1, <2>2
<1>9. ASSUME NEW h \in Conns, OpenChannel(h) \/ ForwardRequest(h) \/ CloseChannel(h),
             UNCHANGED server
      PROVE  HostOpen(p)
      BY <1>0, <1>1, <1>9 DEF OpenChannel, ForwardRequest, CloseChannel, Reads
<1>10. ASSUME NEW r \in Phones, LocalReady(r) \/ LocalDrops(r) \/ LocalCloses(r),
              UNCHANGED server
       PROVE  HostOpen(p)
       BY <1>0, <1>1, <1>10 DEF LocalReady, LocalDrops, LocalCloses
<1>11. ASSUME NEW r \in Phones, NEW n \in 1 .. Sends[r], GatewayAnswers(r, n),
              UNCHANGED server
       PROVE  HostOpen(p)
       BY <1>0, <1>1, <1>11 DEF GatewayAnswers
<1>12. ASSUME NEW r \in Phones, PhoneAuth(r) PROVE HostOpen(p) \/ phone[p] = "new"
  <2>1. CASE r = p
        BY <1>12, <2>1 DEF PhoneAuth
  <2>2. CASE r # p
    <3>1. g = hostOf[p] /\ far' = far
          BY <1>12, <2>2 DEF PhoneAuth, TypeOK, ServerTypeOK
    <3> QED BY <1>0, <1>1, <3>1
  <2> QED BY <2>1, <2>2
<1>13. ASSUME NEW r \in Phones, PhoneRequests(r) PROVE HostOpen(p)
      BY <1>0, <1>1, <1>13 DEF PhoneRequests
<1>14. ASSUME NEW r \in Phones, PhoneCloses(r) PROVE HostOpen(p)
  <2>1. far' = far /\ (g = hostOf[p] \/ g = NoConn)
        BY <1>14 DEF PhoneCloses, TypeOK, ServerTypeOK
  <2> QED BY <1>0, <1>1, <2>1
<1>15. ASSUME Stop, UNCHANGED server PROVE HostOpen(p)
      BY <1>0, <1>1, <1>15 DEF Stop
<1>16. ASSUME RelayRestarts PROVE FALSE
      BY <1>0, <1>16 DEF RelayRestarts
<1>17. ASSUME UNCHANGED <<link, server, client>> PROVE HostOpen(p)
      BY <1>0, <1>1, <1>17
<1> HIDE DEF link, server, client, gateway
<1>18. UNCHANGED <<server, client>> => UNCHANGED server
      OBVIOUS
<1> QED
    BY <1>2, <1>3, <1>4, <1>5, <1>6, <1>7, <1>8, <1>9, <1>10, <1>11, <1>12, <1>13,
       <1>14, <1>15, <1>16, <1>17, <1>18, Handlers

\* What has arrived only grows; each of it is the request of its place.
LEMMA ArrivedGrows ==
    ASSUME IInv, IInv', [Next]_vars, NEW p \in Phones
    PROVE  /\ Len(arrived[p]) \in Nat /\ Len(arrived'[p]) \in Nat
           /\ sent[p] \in Nat /\ sent'[p] \in Nat
           /\ Len(arrived[p]) <= Len(arrived'[p])
           /\ Len(arrived[p]) <= sent[p] /\ Len(arrived'[p]) <= sent'[p]
<1>0. TypeOK /\ TypeOK' /\ Taken(p) /\ Taken(p)'
      BY DEF IInv, Channels, Ordered
<1>1. /\ arrived[p] \in Seq(Nat) /\ pending[p] \in Seq(Nat) /\ sent[p] \in Nat
      /\ arrived'[p] \in Seq(Nat) /\ pending'[p] \in Seq(Nat) /\ sent'[p] \in Nat
      BY <1>0 DEF TypeOK, ClientTypeOK, ServerTypeOK
<1>2. /\ Len(arrived[p]) \in Nat /\ Len(arrived'[p]) \in Nat
      /\ Len(pending[p]) \in Nat /\ Len(pending'[p]) \in Nat
      BY <1>1
<1>3. /\ Len(arrived[p]) + Len(pending[p]) <= sent[p]
      /\ Len(arrived'[p]) + Len(pending'[p]) <= sent'[p]
      BY <1>0 DEF Taken, Base
<1> DEFINE a == Len(arrived[p])
           w == Len(pending[p])
           a1 == Len(arrived'[p])
           w1 == Len(pending'[p])
<1>4. a <= sent[p] /\ a1 <= sent'[p]
  <2>1. a \in Nat /\ w \in Nat /\ a1 \in Nat /\ w1 \in Nat
        BY <1>2
  <2>2. a + w <= sent[p] /\ a1 + w1 <= sent'[p]
        BY <1>3
  <2> HIDE DEF a, w, a1, w1
  <2> QED BY <1>1, <2>1, <2>2
<1>5. Len(arrived[p]) <= Len(arrived'[p])
  <2>1. ASSUME NEW h \in Conns, ForwardRequest(h)
        PROVE  \/ arrived'[p] = arrived[p]
               \/ \E n \in Nat : arrived'[p] = Append(arrived[p], n)
    <3>1. Head(down[h]).n \in Nat
      <4>1. down[h] \in Seq(Message) /\ down[h] # <<>>
            BY <1>0, <2>1 DEF ForwardRequest, Reads, TypeOK, LinkTypeOK
      <4> QED BY <4>1, TailMessage DEF Message
    <3> QED BY <1>0, <2>1, <3>1 DEF ForwardRequest, TypeOK, ClientTypeOK
  <2>2. ASSUME NEW r \in Phones, LocalReady(r)
        PROVE  arrived'[p] = arrived[p] \/ arrived'[p] = arrived[p] \o pending[p]
        BY <1>0, <2>2 DEF LocalReady, Flushed, TypeOK, ClientTypeOK
  <2>3. \/ arrived' = arrived
        \/ \E h \in Conns : ForwardRequest(h)
        \/ \E r \in Phones : LocalReady(r)
        BY <1>0, WhatIsSeen DEF Quiet, client, GatewayAnswers
  <2>4. \A n \in Nat : Len(Append(arrived[p], n)) = a + 1
        BY <1>1
  <2>5. Len(arrived[p] \o pending[p]) = a + w
        BY <1>1, ConcatSeq
  <2>6. a1 \in {a, a + 1, a + w}
        BY <2>1, <2>2, <2>3, <2>4, <2>5
  <2>7. a \in Nat /\ w \in Nat
        BY <1>2
  <2> HIDE DEF a, w, a1
  <2>8. a <= a1
        BY <2>6, <2>7
  <2> QED BY <2>8 DEF a, a1
<1> QED BY <1>1, <1>2, <1>4, <1>5

\* Nothing is answered that was not asked.
LEMMA ToldStep ==
    ASSUME IInv, IInv', Told, UpReplies, [Next]_vars
    PROVE  Told'
<1> SUFFICES ASSUME NEW p \in Phones
             PROVE  /\ replied'[p] \subseteq 1 .. Len(arrived'[p])
                    /\ answered'[p] \subseteq 1 .. sent'[p]
    BY DEF Told
<1>0. TypeOK /\ Taken(p)
      BY DEF IInv, Channels, Ordered
<1> DEFINE a == Len(arrived[p])
           a1 == Len(arrived'[p])
<1>1. /\ a \in Nat /\ a1 \in Nat /\ sent[p] \in Nat /\ sent'[p] \in Nat
      /\ a <= a1 /\ a <= sent[p] /\ a1 <= sent'[p]
      BY ArrivedGrows
<1>2. replied[p] \subseteq 1 .. a /\ answered[p] \subseteq 1 .. sent[p]
      BY DEF Told
<1>3. sent'[p] \in {sent[p], sent[p] + 1}
  <2>1. ASSUME NEW r \in Phones, PhoneRequests(r) PROVE sent'[p] \in {sent[p], sent[p] + 1}
        BY <1>0, <2>1 DEF PhoneRequests, TypeOK, ServerTypeOK
  <2>2. sent' = sent \/ \E r \in Phones : PhoneRequests(r)
        BY <1>0, WhatIsSeen DEF Quiet, server, ForwardResponse, Takes
  <2> QED BY <2>1, <2>2
<1>4. replied'[p] \subseteq 1 .. a1
  <2>1. ASSUME NEW r \in Phones, NEW n \in 1 .. Sends[r], GatewayAnswers(r, n)
        PROVE  replied'[p] = replied[p] \/ (r = p /\ replied'[p] = replied[p] \cup {n})
        BY <1>0, <2>1 DEF GatewayAnswers, TypeOK, ClientTypeOK
  <2>2. ASSUME NEW n \in 1 .. Sends[p], GatewayAnswers(p, n) PROVE n \in 1 .. a
    <3>1. arrived[p] \in Seq(Nat)
          BY <1>0 DEF TypeOK, ClientTypeOK
    <3>2. \E i \in 1 .. Len(arrived[p]) : arrived[p][i] = n
          BY <2>2, <3>1 DEF GatewayAnswers, Contains
    <3> QED BY <1>0, <3>2 DEF Taken
  <2>3. replied' = replied \/ \E r \in Phones : \E n \in 1 .. Sends[r] : GatewayAnswers(r, n)
        BY <1>0, WhatIsSeen DEF Quiet, client, ForwardRequest, Reads, LocalReady
  <2>4. 1 .. a \subseteq 1 .. a1
    <3> HIDE DEF a, a1
    <3> QED BY <1>1
  <2> QED BY <1>2, <2>1, <2>2, <2>3, <2>4
<1>5. answered'[p] \subseteq 1 .. sent'[p]
  <2>1. 1 .. a \subseteq 1 .. sent'[p] /\ 1 .. sent[p] \subseteq 1 .. sent'[p]
    <3> HIDE DEF a, a1
    <3> QED BY <1>1, <1>3
  <2>2. ASSUME NEW n \in answered'[p] PROVE n \in 1 .. sent'[p]
    <3>1. CASE n \in replied'[p]
      <4>1. 1 .. a1 \subseteq 1 .. sent'[p]
        <5> HIDE DEF a, a1
        <5> QED BY <1>1
      <4> QED BY <1>4, <3>1, <4>1
    <3>2. CASE n \in Refused[p]
          BY <1>2, <2>1, <3>2 DEF Refused
    <3>3. CASE n \notin replied'[p] /\ PhoneRequests(p) /\ n = sent[p] + 1
      <4>1. sent'[p] = sent[p] + 1
            BY <1>0, <3>3 DEF PhoneRequests, TypeOK, ServerTypeOK
      <4> QED BY <1>1, <3>3, <4>1
    <3>4. n \notin replied'[p] => n \in Refused[p]'
          BY <2>2 DEF Refused
    <3> QED BY <1>0, <3>1, <3>2, <3>3, <3>4, RefusedStep
  <2> QED BY <2>2
<1> QED BY <1>4, <1>5

\* What was refused is not on its way, and does not come on it.
LEMMA RefusedStayStep ==
    ASSUME IInv, IInv', Answers, [Next]_vars
    PROVE  RefusedStay'
<1> SUFFICES ASSUME NEW p \in Phones, NEW n \in Refused[p]'
             PROVE  /\ n > Base(p)' /\ ~HostOpen(p)'
                    /\ \A h \in Conns : \A i \in 1 .. Len(down'[h]) :
                          down'[h][i] # Msg("request", p, n)
    BY DEF RefusedStay
<1>0. /\ TypeOK /\ TypeOK' /\ FarState /\ OneHost /\ NewIsSilent /\ Told /\ UpReplies
      /\ RefusedStay /\ Taken(p) /\ \A h \in Conns : Queued(p, h)
      BY DEF IInv, Channels, Ordered, Registered, Answers
<1>1. Base(p) \in Nat /\ Base(p)' \in Nat /\ sent[p] \in Nat /\ Base(p) <= sent[p]
  <2>1. Base(p) \in Nat /\ sent[p] \in Nat
        BY <1>0, BaseType
  <2>2. Len(arrived'[p]) \in Nat /\ Len(pending'[p]) \in Nat
        BY <1>0 DEF TypeOK, ClientTypeOK
  <2>3. Base(p)' \in Nat
    <3> DEFINE a1 == Len(arrived'[p])
               w1 == Len(pending'[p])
    <3>1. Base(p)' = a1 + w1
          BY DEF Base
    <3>2. a1 \in Nat /\ w1 \in Nat
          BY <2>2
    <3> HIDE DEF a1, w1
    <3> QED BY <3>1, <3>2
  <2> QED BY <1>0, <2>1, <2>3 DEF Taken
<1>2. \A h \in Conns : \A i \in 1 .. Len(down[h]) :
         down[h][i].phone = p => down[h][i].n <= sent[p]
      BY <1>0 DEF Queued, WellQueued
<1>3. /\ n \in Nat /\ n > Base(p) /\ ~HostOpen(p) /\ phone[p] # "new"
      /\ \A h \in Conns : \A i \in 1 .. Len(down[h]) : down[h][i] # Msg("request", p, n)
  <2>1. CASE n \in Refused[p]
    <3>1. n \in 1 .. sent[p]
          BY <1>0, <2>1 DEF Told, Refused
    <3>2. n \in Nat /\ sent[p] # 0
          BY <1>1, <3>1
    <3> QED BY <1>0, <2>1, <3>2 DEF RefusedStay, NewIsSilent
  <2>2. CASE PhoneRequests(p) /\ ~HostOpen(p) /\ n = sent[p] + 1
    <3>1. \A h \in Conns : \A i \in 1 .. Len(down[h]) : down[h][i] # Msg("request", p, n)
      <4> SUFFICES ASSUME NEW h \in Conns, NEW i \in 1 .. Len(down[h]),
                          down[h][i] = Msg("request", p, n)
                   PROVE  FALSE
          OBVIOUS
      <4>1. down[h][i].phone = p /\ down[h][i].n = sent[p] + 1
            BY <2>2 DEF Msg
      <4>2. sent[p] + 1 <= sent[p]
            BY <1>2, <4>1
      <4> QED BY <1>1, <4>2
    <3> QED BY <1>1, <2>2, <3>1 DEF PhoneRequests
  <2> QED BY <1>0, <2>1, <2>2, RefusedStep
<1>4. n > Base(p)'
  <2>1. CASE Base(p)' <= Base(p)
        BY <1>1, <1>3, <2>1
  <2>2. CASE /\ Base(p)' = Base(p) + 1
             /\ \E h \in Conns : \E i \in 1 .. Len(down[h]) :
                   down[h][i] = Msg("request", p, Base(p) + 1)
    <3>1. n # Base(p) + 1
          BY <1>3, <2>2
    <3> QED BY <1>1, <1>3, <2>2, <3>1
  <2> QED BY <2>1, <2>2, BaseStep
<1>5. ~HostOpen(p)'
      BY <1>0, <1>3, HostOpenStep
<1>6. ASSUME NEW h \in Conns, NEW i \in 1 .. Len(down'[h]),
             down'[h][i] = Msg("request", p, n)
      PROVE  FALSE
      BY <1>0, <1>3, <1>6, OnTheWay
<1> QED BY <1>4, <1>5, <1>6

\* The strengthened invariant holds in every reachable state.
LEMMA AnswersInductive == Spec => [](IInv /\ Answers)
<1>1. Init => Answers
  <2> SUFFICES ASSUME Init PROVE Answers
      OBVIOUS
  <2> USE DEF Init, LinkInit, ServerInit, ClientInit
  <2>1. \A p \in Phones : replied[p] = {} /\ answered[p] = {} /\ Refused[p] = {}
        BY DEF Refused
  <2>2. \A h \in Conns : Len(up[h]) = 0
        OBVIOUS
  <2> QED BY <2>1, <2>2 DEF Answers, Told, UpReplies, RefusedStay
<1>2. IInv /\ IInv' /\ Answers /\ [Next]_vars => Answers'
  <2> SUFFICES ASSUME IInv, IInv', Answers, [Next]_vars PROVE Answers'
      OBVIOUS
  <2>1. TypeOK /\ TypeOK' /\ DownNames /\ Told /\ UpReplies
        BY DEF IInv, Answers
  <2>2. Told' /\ UpReplies' /\ RefusedStay'
        BY <2>1, ToldStep, UpRepliesStep, RefusedStayStep
  <2> QED BY <2>2 DEF Answers
<1> QED BY <1>1, <1>2, Inductive, PTL DEF Spec

-----------------------------------------------------------------------------
(* The pipe.                                                               *)

\* What a phone heard and what it was refused, before and after a step.
LEMMA Seen ==
    ASSUME NEW p \in Phones
    PROVE  /\ Heard[p] = answered[p] \cap replied[p]
           /\ Heard'[p] = answered'[p] \cap replied'[p]
           /\ Refused[p] = answered[p] \ replied[p]
           /\ Refused'[p] = answered'[p] \ replied'[p]
BY DEF Heard, Refused

\* One more answer, or one more told, moves one request at most.
LEMMA OneMore ==
    ASSUME NEW A, NEW B, NEW n
    PROVE  /\ n \in B => /\ (A \cup {n}) \cap B = (A \cap B) \cup {n}
                         /\ (A \cup {n}) \ B = A \ B
           /\ n \notin B => /\ (A \cup {n}) \cap B = A \cap B
                            /\ (A \cup {n}) \ B = (A \ B) \cup {n}
           /\ n \notin A \/ n \in B => /\ A \cap (B \cup {n}) = A \cap B
                                       /\ A \ (B \cup {n}) = A \ B
OBVIOUS

\* Requests that arrive are the next ones, and none of them was refused.
LEMMA ArriveStep ==
    ASSUME IInv, IInv', Answers', [Next]_vars, NEW p \in Phones,
           UNCHANGED <<server, replied>>
    PROVE  Pipe!Arrive(p)
<1>0. UNCHANGED <<phone, sent, answered, replied>>
      BY DEF server
<1>1. UNCHANGED <<phone[p], sent[p], Refused[p], replied[p], Heard[p]>>
      BY <1>0, Seen
<1> DEFINE k == Len(arrived'[p])
<1>2. k \in Nat /\ Len(arrived[p]) \in Nat /\ sent[p] \in Nat
      /\ Len(arrived[p]) <= k /\ k <= sent[p]
      BY <1>0, ArrivedGrows
<1>3. k \in Len(arrived[p]) .. sent[p]
  <2> DEFINE a == Len(arrived[p])
  <2>1. a \in Nat /\ a <= k
        BY <1>2
  <2> HIDE DEF a, k
  <2>2. k \in a .. sent[p]
        BY <1>2, <2>1
  <2> QED BY <2>2 DEF a
<1>4. arrived'[p] = [i \in 1 .. k |-> i]
  <2>1. arrived'[p] \in Seq(Nat)
        BY DEF IInv, TypeOK, ClientTypeOK
  <2>2. arrived'[p] = [i \in 1 .. k |-> arrived'[p][i]]
        BY <2>1
  <2>3. \A i \in 1 .. k : arrived'[p][i] = i
        BY DEF IInv, Channels, Ordered, Taken
  <2> QED BY <2>2, <2>3
<1>5. \A n \in Refused[p] : n > k
  <2> SUFFICES ASSUME NEW n \in Refused[p] PROVE n > k
      OBVIOUS
  <2> DEFINE w1 == Len(pending'[p])
  <2>1. n > Base(p)' /\ n \in Nat
    <3>1. n \in Refused'[p] /\ n \in answered'[p]
          BY <1>0, Seen
    <3> QED BY <1>2, <3>1 DEF Answers, RefusedStay, Told
  <2>2. Base(p)' = k + w1 /\ w1 \in Nat
        BY DEF Base, IInv, TypeOK, ClientTypeOK
  <2> HIDE DEF k, w1
  <2> QED BY <1>2, <2>1, <2>2
<1> HIDE DEF k
<1>6. \E j \in Len(arrived[p]) .. sent[p] :
         (\A n \in Refused[p] : n > j) /\ arrived'[p] = [i \in 1 .. j |-> i]
      BY <1>3, <1>4, <1>5
<1> QED
    BY <1>1, <1>6 DEF Pipe!Arrive, Pipe!EndOf, Pipe!RequestsOf

\* A step of the three programs is for each phone a step of its pipe, or none.
LEMMA PipeStep ==
    ASSUME IInv, IInv', Answers, Answers', [Next]_vars
    PROVE  Pipe!Next
<1> USE DEF Pipe!EndOf, Pipe!RequestsOf, Pipe!WorkOf, Pipe!PipeOf
<1> SUFFICES ASSUME NEW p \in Phones
             PROVE  \/ Pipe!Moves(p) \/ Pipe!Asks(p) \/ Pipe!Refuses(p)
                    \/ Pipe!Arrive(p) \/ Pipe!Replies(p) \/ Pipe!Hears(p)
                    \/ UNCHANGED Pipe!PipeOf(p)
    BY DEF Pipe!Next
<1>0. /\ TypeOK /\ Told /\ UpReplies /\ RefusedStay
      BY DEF IInv, Answers
<1>1. ASSUME Quiet PROVE Pipe!Moves(p) \/ UNCHANGED Pipe!PipeOf(p)
  <2>1. /\ UNCHANGED <<sent, arrived, replied, answered>> /\ MovesOn(p)
        BY <1>1 DEF Quiet
  <2>2. UNCHANGED <<sent[p], arrived[p], replied[p], Heard[p], Refused[p]>>
        BY <2>1, Seen
  <2> QED BY <2>1, <2>2 DEF MovesOn, Pipe!Moves
<1>2. ASSUME NEW h \in Conns, ForwardResponse(h), UNCHANGED client
      PROVE  Pipe!Hears(p) \/ UNCHANGED Pipe!PipeOf(p)
  <2> DEFINE m == Head(up[h])
  <2>1. m.n \in replied[m.phone]
    <3>1. up[h] \in Seq(Message) /\ up[h] # <<>>
          BY <1>0, <1>2 DEF ForwardResponse, Takes, TypeOK, LinkTypeOK
    <3>2. m = up[h][1] /\ 1 \in 1 .. Len(up[h]) /\ m.type = "response"
          BY <1>2, <3>1 DEF ForwardResponse
    <3> QED BY <1>0, <3>2 DEF UpReplies
  <2>2. UNCHANGED <<phone, sent, arrived, replied>>
        BY <1>2 DEF ForwardResponse, Takes, client
  <2>3. \/ answered'[p] = answered[p]
        \/ m.phone = p /\ phone[p] = "open" /\ answered'[p] = answered[p] \cup {m.n}
        BY <1>0, <1>2 DEF ForwardResponse, TypeOK, ServerTypeOK
  <2>4. CASE answered'[p] = answered[p]
    <3>1. UNCHANGED <<Heard[p], Refused[p]>>
          BY <2>2, <2>4, Seen
    <3> QED BY <2>2, <3>1
  <2>5. CASE m.phone = p /\ phone[p] = "open" /\ answered'[p] = answered[p] \cup {m.n}
    <3>1. m.n \in replied[p]
          BY <2>1, <2>5
    <3>2. Heard'[p] = Heard[p] \cup {m.n} /\ Refused'[p] = Refused[p]
      <4> DEFINE n == m.n
      <4>1. n \in replied[p] /\ answered'[p] = answered[p] \cup {n}
            BY <2>5, <3>1
      <4>2. replied'[p] = replied[p]
            BY <2>2
      <4> HIDE DEF n
      <4>3. /\ (answered[p] \cup {n}) \cap replied[p] = (answered[p] \cap replied[p]) \cup {n}
            /\ (answered[p] \cup {n}) \ replied[p] = answered[p] \ replied[p]
            BY <4>1, OneMore
      <4>4. Heard'[p] = Heard[p] \cup {n} /\ Refused'[p] = Refused[p]
            BY <4>1, <4>2, <4>3, Seen
      <4> QED BY <4>4 DEF n
    <3> QED BY <2>2, <2>5, <3>1, <3>2 DEF Pipe!Hears
  <2> QED BY <2>3, <2>4, <2>5
<1>3. ASSUME NEW h \in Conns, ForwardRequest(h), UNCHANGED server PROVE Pipe!Arrive(p)
      BY <1>3, ArriveStep DEF ForwardRequest, Reads
<1>4. ASSUME NEW r \in Phones, LocalReady(r), UNCHANGED server PROVE Pipe!Arrive(p)
      BY <1>4, ArriveStep DEF LocalReady
<1>5. ASSUME NEW r \in Phones, NEW n \in 1 .. Sends[r], GatewayAnswers(r, n),
             UNCHANGED server
      PROVE  Pipe!Replies(p) \/ UNCHANGED Pipe!PipeOf(p)
  <2>1. UNCHANGED <<phone, sent, answered, arrived>>
        BY <1>5 DEF GatewayAnswers, server
  <2>2. CASE r # p
    <3>1. replied'[p] = replied[p]
          BY <1>0, <1>5, <2>2 DEF GatewayAnswers, TypeOK, ClientTypeOK
    <3>2. UNCHANGED <<Heard[p], Refused[p]>>
          BY <2>1, <3>1, Seen
    <3> QED BY <2>1, <3>1, <3>2
  <2>3. CASE r = p
    <3>1. replied'[p] = replied[p] \cup {n}
          BY <1>0, <1>5, <2>3 DEF GatewayAnswers, TypeOK, ClientTypeOK
    <3>2. n \in 1 .. Len(arrived[p])
          BY <2>1, <3>1 DEF Answers, Told
    <3>3. n \notin answered[p] \/ n \in replied[p]
      <4>1. CASE n \in Refused[p]
        <5> DEFINE a == Len(arrived[p])
                   w == Len(pending[p])
        <5>1. n > a + w
              BY <1>0, <4>1 DEF RefusedStay, Base
        <5>2. a \in Nat /\ w \in Nat /\ n \in 1 .. a
              BY <1>0, <3>2 DEF TypeOK, ClientTypeOK
        <5> HIDE DEF a, w
        <5> QED BY <5>1, <5>2
      <4> QED BY <4>1, Seen
    <3>4. UNCHANGED <<Heard[p], Refused[p]>>
      <4>1. /\ answered[p] \cap (replied[p] \cup {n}) = answered[p] \cap replied[p]
            /\ answered[p] \ (replied[p] \cup {n}) = answered[p] \ replied[p]
            BY <3>3, OneMore
      <4>2. answered'[p] = answered[p]
            BY <2>1
      <4> QED BY <3>1, <4>1, <4>2, Seen
    <3> QED BY <2>1, <3>1, <3>2, <3>4 DEF Pipe!Replies
  <2> QED BY <2>2, <2>3
<1>6. ASSUME NEW r \in Phones, PhoneRequests(r), UNCHANGED client
      PROVE  Pipe!Asks(p) \/ Pipe!Refuses(p) \/ UNCHANGED Pipe!PipeOf(p)
  <2>1. UNCHANGED <<phone, arrived, replied>>
        BY <1>6 DEF PhoneRequests, client
  <2>2. CASE r # p
    <3>1. sent'[p] = sent[p] /\ answered'[p] = answered[p]
          BY <1>0, <1>6, <2>2 DEF PhoneRequests, TypeOK, ServerTypeOK
    <3>2. UNCHANGED <<Heard[p], Refused[p]>>
          BY <2>1, <3>1, Seen
    <3> QED BY <2>1, <3>1, <3>2
  <2>3. CASE r = p
    <3>1. phone[p] \in {"open", "closing"} /\ sent'[p] = sent[p] + 1
          BY <1>0, <1>6, <2>3 DEF PhoneRequests, TypeOK, ServerTypeOK
    <3>2. \/ answered'[p] = answered[p]
          \/ phone[p] = "open" /\ answered'[p] = answered[p] \cup {sent[p] + 1}
          BY <1>0, <1>6, <2>3 DEF PhoneRequests, TypeOK, ServerTypeOK
    <3>3. CASE answered'[p] = answered[p]
      <4>1. UNCHANGED <<Heard[p], Refused[p]>>
            BY <2>1, <3>3, Seen
      <4> QED BY <2>1, <3>1, <4>1 DEF Pipe!Asks
    <3>4. CASE phone[p] = "open" /\ answered'[p] = answered[p] \cup {sent[p] + 1}
      <4>1. sent[p] + 1 \notin replied[p]
        <5> DEFINE a == Len(arrived[p])
        <5>1. a \in Nat /\ sent[p] \in Nat /\ a <= sent[p]
              BY ArrivedGrows
        <5>2. replied[p] \subseteq 1 .. a
              BY <1>0 DEF Told
        <5> HIDE DEF a
        <5> QED BY <5>1, <5>2
      <4>2. Heard'[p] = Heard[p] /\ Refused'[p] = Refused[p] \cup {sent[p] + 1}
        <5> DEFINE n == sent[p] + 1
        <5>1. /\ (answered[p] \cup {n}) \cap replied[p] = answered[p] \cap replied[p]
              /\ (answered[p] \cup {n}) \ replied[p] = (answered[p] \ replied[p]) \cup {n}
              BY <4>1, OneMore
        <5>2. replied'[p] = replied[p]
              BY <2>1
        <5> HIDE DEF n
        <5>3. answered'[p] = answered[p] \cup {n}
              BY <3>4 DEF n
        <5>4. Heard'[p] = Heard[p] /\ Refused'[p] = Refused[p] \cup {n}
              BY <5>1, <5>2, <5>3, Seen
        <5> QED BY <5>4 DEF n
      <4> QED BY <2>1, <3>1, <3>4, <4>2 DEF Pipe!Refuses
    <3> QED BY <3>2, <3>3, <3>4
  <2> QED BY <2>2, <2>3
<1> QED BY <1>0, <1>1, <1>2, <1>3, <1>4, <1>5, <1>6, WhatIsSeen

\* Whatever is replaced, broken, queued or refused on the way, the path to its
\* gateway is one pipe to each phone (handleMobileMessage, handleHostMessage,
\* openChannel, forwardToLocal).
THEOREM ImplementsPipe == Spec => LooksLikeAPipe
<1>1. Init => Pipe!Init
  <2> SUFFICES ASSUME Init PROVE Pipe!Init
      OBVIOUS
  <2>1. /\ phone = [p \in Phones |-> "new"] /\ sent = [p \in Phones |-> 0]
        /\ arrived = [p \in Phones |-> <<>>] /\ replied = [p \in Phones |-> {}]
        /\ answered = [p \in Phones |-> {}]
        BY DEF Init, ServerInit, ClientInit
  <2>2. Heard = [p \in Phones |-> {}] /\ Refused = [p \in Phones |-> {}]
        BY <2>1 DEF Heard, Refused
  <2> QED BY <2>1, <2>2 DEF Pipe!Init
<1>2. /\ IInv /\ Answers /\ (IInv /\ Answers)' /\ [Next]_vars
      => [Pipe!Next]_(Pipe!pipe)
      BY PipeStep
<1> QED BY <1>1, <1>2, AnswersInductive, PTL DEF Spec, LooksLikeAPipe, Pipe!Spec
===============================================================================
