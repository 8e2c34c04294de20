-------------------------- MODULE RelayHostClient ---------------------------
(***************************************************************************)
(* The client in the extension that keeps one connection to the relay and  *)
(* one socket to the local gateway per channel.  The local socket is       *)
(* "connecting" until auth.ready has come; the gateway is external: it     *)
(* answers the requests of a socket in any order, or drops the socket.     *)
(***************************************************************************)
EXTENDS RelayLink, SequencesExt

VARIABLES
    relay,      \* this.relay
    timer,      \* the reconnect timer runs
    stopped,
    mapped,     \* channels in this.channels
    local,      \* the local socket of a channel
    pending,    \* requests that wait for auth.ready
    arrived,    \* requests that reached the gateway, in order
    replied     \* requests the gateway has answered

client == <<relay, timer, stopped, mapped, local, pending, arrived, replied>>
gateway == <<arrived, replied>>

ClientTypeOK ==
    /\ relay \in Conns \cup {NoConn}
    /\ timer \in BOOLEAN /\ stopped \in BOOLEAN
    /\ mapped \subseteq Phones
    /\ local \in [Phones -> {"none", "connecting", "ready", "closing", "closed"}]
    /\ pending \in [Phones -> Seq(Nat)]
    /\ arrived \in [Phones -> Seq(Nat)]
    /\ replied \in [Phones -> SUBSET Nat]

\* start() has called connect(), or the timer is about to.
ClientInit ==
    /\ relay = NoConn /\ timer = TRUE /\ stopped = FALSE
    /\ mapped = {}
    /\ local = [p \in Phones |-> "none"]
    /\ pending = [p \in Phones |-> <<>>]
    /\ arrived = [p \in Phones |-> <<>>]
    /\ replied = [p \in Phones |-> {}]

\* sendRelay: dropped unless this.relay is open.
SendRelay(m) == IF relay = NoConn THEN up ELSE Send(up, near, relay, m)

\* socket.close() of the local sockets of some channels.
LocalClosed(channels) ==
    [p \in Phones |->
       IF p \notin channels THEN local[p]
       ELSE CASE local[p] = "connecting" -> "closed"
              [] local[p] = "ready" -> "closing"
              [] OTHER -> local[p]]

CloseChannels(channels) ==
    /\ mapped' = mapped \ channels
    /\ local' = LocalClosed(mapped \cap channels)
    /\ pending' = [p \in Phones |-> IF p \in channels THEN <<>> ELSE pending[p]]

-----------------------------------------------------------------------------
(* The connection to the relay.                                            *)

Connect(h) ==
    /\ timer /\ Unused(h)
    /\ timer' = FALSE /\ relay' = h
    /\ near' = [near EXCEPT ![h] = "connecting"]
    /\ UNCHANGED <<far, up, down, broken, stopped, mapped, local, pending, gateway>>

Opens(h) ==
    /\ near[h] = "connecting"
    /\ near' = [near EXCEPT ![h] = "open"] /\ far' = [far EXCEPT ![h] = "open"]
    /\ up' = [up EXCEPT ![h] = <<Msg("register", NoConn, 0)>>]
    /\ UNCHANGED <<down, broken, client>>

\* Mutant of ScheduleReconnect: this.reconnectTimer still holds the timer that
\* fired for the first connect, so no other is armed.
ReconnectOnce(h) == FALSE

\* scheduleReconnect: the timer that is armed.
ScheduleReconnect(h) == ~stopped

\* The "close" event of the connection, also of one that never opened.
OnClose(h) ==
    /\ near' = [near EXCEPT ![h] = "closed"]
    /\ relay' = IF relay = h THEN NoConn ELSE relay
    /\ CloseChannels(mapped)
    /\ timer' = ScheduleReconnect(h)
    /\ Forgotten(near', far)
    /\ UNCHANGED <<far, stopped, gateway>>

NearCloses(h) == CloseDue(near, far, down, h) /\ OnClose(h)

ConnectFails(h) == near[h] = "connecting" /\ OnClose(h)

\* stop(): the connection is left to close by itself.
Stop ==
    /\ ~stopped
    /\ stopped' = TRUE /\ timer' = FALSE /\ relay' = NoConn
    /\ near' = IF relay = NoConn THEN near
               ELSE IF near[relay] = "connecting" THEN [near EXCEPT ![relay] = "closed"]
               ELSE Closing(near, relay)
    /\ CloseChannels(mapped)
    /\ UNCHANGED <<far, up, down, broken, gateway>>

-----------------------------------------------------------------------------
(* handleRelayMessage; this.relay may be another connection by now.        *)

Reads(h, type) ==
    /\ near[h] \in {"open", "closing"} /\ h \notin broken /\ down[h] # <<>>
    /\ Head(down[h]).type = type
    /\ down' = [down EXCEPT ![h] = Tail(@)]
    /\ UNCHANGED <<near, far, broken, relay, timer, stopped, replied>>

OpenChannel(h) ==
    LET p == Head(down[h]).phone IN
    /\ Reads(h, "open")
    /\ mapped' = mapped \cup {p}
    /\ local' = [local EXCEPT ![p] = "connecting"]
    /\ UNCHANGED <<up, pending, arrived>>

\* A request goes to the local socket, waits for it, or is refused.  On a
\* socket that is closing, send drops it.
ForwardRequest(h) ==
    LET p == Head(down[h]).phone
        n == Head(down[h]).n IN
    /\ Reads(h, "request")
    /\ up' = IF p \in mapped THEN up ELSE SendRelay(Msg("error", p, 0))
    /\ arrived' = IF p \in mapped /\ local[p] = "ready"
                  THEN [arrived EXCEPT ![p] = Append(@, n)] ELSE arrived
    /\ pending' = IF p \in mapped /\ local[p] = "connecting"
                  THEN [pending EXCEPT ![p] = Append(@, n)] ELSE pending
    /\ UNCHANGED <<mapped, local>>

CloseChannel(h) ==
    /\ Reads(h, "close")
    /\ CloseChannels({Head(down[h]).phone})
    /\ UNCHANGED <<up, arrived>>

-----------------------------------------------------------------------------
(* The local sockets.                                                      *)

\* Mutant of Flushed: the queue is emptied from its end.
FlushedFromEnd(p) == Reverse(pending[p])

\* The requests that waited, in the order they came.
Flushed(p) == pending[p]

\* auth.ready: the channel is ready and its queue is sent, in one stretch.
LocalReady(p) ==
    /\ local[p] = "connecting"
    /\ local' = [local EXCEPT ![p] = "ready"]
    /\ arrived' = [arrived EXCEPT ![p] = @ \o Flushed(p)]
    /\ pending' = [pending EXCEPT ![p] = <<>>]
    /\ UNCHANGED <<link, relay, timer, stopped, mapped, replied>>

\* The gateway drops the socket, or does not take it.
LocalDrops(p) ==
    /\ local[p] \in {"connecting", "ready"}
    /\ local' = [local EXCEPT ![p] = "closing"]
    /\ UNCHANGED <<link, relay, timer, stopped, mapped, pending, gateway>>

\* Mutant of LocalCloses: the relay is not told.
LocalClosesSilently(p) ==
    /\ local[p] = "closing"
    /\ local' = [local EXCEPT ![p] = "closed"]
    /\ mapped' = mapped \ {p} /\ pending' = [pending EXCEPT ![p] = <<>>]
    /\ UNCHANGED <<link, relay, timer, stopped, gateway>>

\* The "close" event of the local socket.
LocalCloses(p) ==
    /\ local[p] = "closing"
    /\ local' = [local EXCEPT ![p] = "closed"]
    /\ mapped' = mapped \ {p} /\ pending' = [pending EXCEPT ![p] = <<>>]
    /\ up' = IF p \in mapped THEN SendRelay(Msg("error", p, 0)) ELSE up
    /\ UNCHANGED <<near, far, down, broken, relay, timer, stopped, gateway>>

\* An answer of the gateway is passed on, whatever became of the channel.
GatewayAnswers(p, n) ==
    /\ local[p] \in {"ready", "closing"}
    /\ Contains(arrived[p], n) /\ n \notin replied[p]
    /\ replied' = [replied EXCEPT ![p] = @ \cup {n}]
    /\ up' = SendRelay(Msg("response", p, n))
    /\ UNCHANGED <<near, far, down, broken, relay, timer, stopped, mapped,
                   local, pending, arrived>>

ClientReads(h) == OpenChannel(h) \/ ForwardRequest(h) \/ CloseChannel(h)
=============================================================================
