----------------------------- MODULE RelayPath ------------------------------
(***************************************************************************)
(* The way of a phone's requests: the relay server composed with one host  *)
(* client, over connections that close, break and are replaced, and with   *)
(* phones that come and go.                                                *)
(***************************************************************************)
EXTENDS RelayServer, RelayHostClient

CONSTANT MaxFaults   \* bound: breaks, failed connects, relay restarts

ASSUME RelayAssumption ==
    /\ NoConn \notin Conns /\ NoConn \notin Phones
    /\ Sends \in [Phones -> Nat] /\ MaxFaults \in Nat

VARIABLE faults

vars == <<link, server, client, faults>>

TypeOK == LinkTypeOK /\ ServerTypeOK /\ ClientTypeOK /\ faults \in 0 .. MaxFaults

Init == LinkInit /\ ServerInit /\ ClientInit /\ faults = 0

Fault == faults < MaxFaults /\ faults' = faults + 1

ServerStep(h) ==
    /\ \/ ServerReads(h) \/ FarCloses(h)
       \/ FarHears(h) /\ UNCHANGED server
    /\ UNCHANGED <<client, faults>>

ClientStep(h) ==
    /\ \/ Connect(h) \/ Opens(h) \/ NearCloses(h) \/ ClientReads(h)
       \/ NearHears(h) /\ UNCHANGED client
    /\ UNCHANGED <<server, faults>>

LocalStep(p) ==
    /\ LocalReady(p) \/ LocalDrops(p) \/ LocalCloses(p)
    /\ UNCHANGED <<server, faults>>

AnswerStep(p) ==
    /\ \E n \in 1 .. Sends[p] : GatewayAnswers(p, n)
    /\ UNCHANGED <<server, faults>>

PhoneStep(p) ==
    /\ PhoneAuth(p) \/ PhoneRequests(p) \/ PhoneCloses(p)
    /\ UNCHANGED <<client, faults>>

Stops == Stop /\ UNCHANGED <<server, faults>>

Faults ==
    /\ Fault
    /\ \/ \E h \in Conns : Break(h) /\ UNCHANGED <<server, client>>
       \/ \E h \in Conns : ConnectFails(h) /\ UNCHANGED server
       \/ RelayRestarts /\ UNCHANGED client

Next ==
    \/ \E h \in Conns : ServerStep(h) \/ ClientStep(h)
    \/ \E p \in Phones : LocalStep(p) \/ AnswerStep(p) \/ PhoneStep(p)
    \/ Stops \/ Faults

Spec == Init /\ [][Next]_vars

\* A step of a connection, unless it is the notice of a break that nothing makes
\* certain.
FairServerStep(h) == FindsOut(far, down, h) /\ ServerStep(h)
FairClientStep(h) == FindsOut(near, up, h) /\ ClientStep(h)

\* A socket the relay or the client has asked to close does close, and a local
\* socket is answered or dropped.
ClosesStep(p) == phone[p] = "closing" /\ PhoneStep(p)
SettlesStep(p) == local[p] \in {"connecting", "closing"} /\ LocalStep(p)

FairSpec ==
    /\ Spec
    /\ \A h \in Conns : WF_vars(FairServerStep(h)) /\ WF_vars(FairClientStep(h))
    /\ \A p \in Phones : /\ WF_vars(SettlesStep(p)) /\ WF_vars(AnswerStep(p))
                         /\ WF_vars(ClosesStep(p))
-----------------------------------------------------------------------------
(* Properties.                                                             *)

\* The connection that phones are sent to is the newest one that registered:
\* while a registered host is not asked to close it can be found, whatever
\* the host before it does (registerHost and handleClose).
OpenHostIsFound == \A h \in known : far[h] = "open" => host = h

\* A phone that is connected has a host that still knows it, so that the end
\* of this host will end the phone too.
NoOrphanPhone ==
    \A p \in Phones : phone[p] = "open" => /\ hostOf[p] \in known
                                           /\ p \in mobiles[hostOf[p]]

\* The requests of a phone reach the gateway once each, in the order they
\* were sent and with none left out, though some wait for the local socket.
ArriveInOrder ==
    \A p \in Phones : /\ Len(arrived[p]) <= sent[p]
                      /\ \A i \in DOMAIN arrived[p] : arrived[p][i] = i

\* The answers on the way to a phone are those of its gateway; what else it
\* was told are refusals.
Heard == [p \in Phones |-> answered[p] \cap replied[p]]
Refused == [p \in Phones |-> answered[p] \ replied[p]]

Pipe == INSTANCE PhonePipe WITH end <- phone, heard <- Heard, refused <- Refused

\* Three hops and their faults look like one pipe to each phone: requests go in
\* order, answers come from the phone's own gateway and only while its socket
\* is open, and what was refused as "host offline" is never executed.
LooksLikeAPipe == Pipe!Spec

\* An end of a broken connection that is open and has nothing to say.
ClientIsDeaf == /\ relay # NoConn /\ near[relay] = "open"
                /\ ~FindsOut(near, up, relay)
HostIsDeaf(p) == HostOpen(p) /\ ~FindsOut(far, down, hostOf[p])

\* A request is answered or the phone's socket is closed, with requests queued,
\* channels that fail and hosts that go.  The phone waits in vain in one case
\* only: the gateway was stopped and the network hid it from the relay.
RequestsSettle ==
    \A p \in Phones : \A n \in 1 .. Sends[p] :
      sent[p] >= n ~> \/ n \in answered[p] \/ phone[p] = "closed"
                      \/ [](stopped /\ HostIsDeaf(p))

\* The local socket of a phone that went away is closed for good, unless the
\* client is left on a connection it never hears of again.
ChannelsEnd ==
    \A p \in Phones : phone[p] = "closed" ~> [](p \notin mapped) \/ []ClientIsDeaf

\* The phones find a host that works.
Serving == /\ host # NoConn /\ host = relay /\ host \notin broken
           /\ near[host] = "open" /\ far[host] = "open"

\* A host that is not stopped can be found again after every loss, with one
\* exception: a connection that the network drops while the client has nothing
\* to send is not missed (no pings are sent), and the client stays on it.
HostReturns == <>[]ClientIsDeaf \/ []<>(stopped \/ Serving)
=============================================================================
