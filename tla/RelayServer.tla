---------------------------- MODULE RelayServer -----------------------------
(***************************************************************************)
(* The relay: it registers hosts by the hash of their token, gives each    *)
(* phone a channel of the host with its token, and forwards frames.  One   *)
(* token is modelled; connections of other tokens share nothing with it.   *)
(* A handler runs to its end undisturbed.                                  *)
(***************************************************************************)
EXTENDS RelayLink

CONSTANT Sends   \* bound: requests each phone sends

VARIABLES
    host,       \* this.hosts, at the token
    known,      \* hostBySocket: connections that have registered
    mobiles,    \* the channels of each host
    phone,      \* the relay's end of the phone's socket
    hostOf,     \* the host of a phone; NoConn once that host's end closed
    sent,       \* requests the relay has read from a phone
    answered    \* requests a phone has been answered

server == <<host, known, mobiles, phone, hostOf, sent, answered>>

ServerTypeOK ==
    /\ host \in Conns \cup {NoConn} /\ known \subseteq Conns
    /\ mobiles \in [Conns -> SUBSET Phones]
    /\ phone \in [Phones -> {"new", "open", "closing", "closed"}]
    /\ hostOf \in [Phones -> Conns \cup {NoConn}]
    /\ sent \in [Phones -> Nat]
    /\ answered \in [Phones -> SUBSET Nat]

ServerInit ==
    /\ host = NoConn /\ known = {}
    /\ mobiles = [h \in Conns |-> {}]
    /\ phone = [p \in Phones |-> "new"]
    /\ hostOf = [p \in Phones |-> NoConn]
    /\ sent = [p \in Phones |-> 0]
    /\ answered = [p \in Phones |-> {}]

HostOpen(p) == hostOf[p] # NoConn /\ far[hostOf[p]] = "open"

-----------------------------------------------------------------------------
(* Messages of a host.                                                     *)

Takes(h) ==
    /\ far[h] \in {"open", "closing"} /\ h \notin broken /\ up[h] # <<>>
    /\ up' = [up EXCEPT ![h] = Tail(@)]
    /\ UNCHANGED <<near, down, broken, sent>>

\* registerHost: a newer connection replaces the one before it, which is
\* asked to close and keeps its phones until it has.  The reply host.ready
\* has no effect.
RegisterHost(h) ==
    /\ Takes(h) /\ Head(up[h]).type = "register"
    /\ host' = h /\ known' = known \cup {h}
    /\ far' = IF host = NoConn THEN far ELSE Closing(far, host)
    /\ UNCHANGED <<mobiles, phone, hostOf, answered>>

\* handleHostMessage: only to an open phone of this very connection.
ForwardResponse(h) ==
    LET m == Head(up[h]) IN
    /\ Takes(h) /\ m.type = "response"
    /\ answered' = IF m.phone \in mobiles[h] /\ phone[m.phone] = "open"
                   THEN [answered EXCEPT ![m.phone] = @ \cup {m.n}] ELSE answered
    /\ UNCHANGED <<far, host, known, mobiles, phone, hostOf>>

FailPhone(h) ==
    LET m == Head(up[h]) IN
    /\ Takes(h) /\ m.type = "error"
    /\ phone' = IF m.phone \in mobiles[h] THEN Closing(phone, m.phone) ELSE phone
    /\ UNCHANGED <<far, host, known, mobiles, hostOf, answered>>

\* Mutants of Unregistered and Orphaned: the close of a replaced host takes
\* its successor down; the phones of a host that is gone are kept.
UnregisteredAnyway(h) == NoConn
OrphanedKept(h) == phone

\* handleClose of a host: it unregisters itself and nobody else, ...
Unregistered(h) == IF host = h THEN NoConn ELSE host

\* ... and its phones are told and closed.
Orphaned(h) ==
    [p \in Phones |-> IF p \in mobiles[h] /\ phone[p] = "open" THEN "closing"
                      ELSE phone[p]]

FarCloses(h) ==
    /\ CloseDue(far, near, up, h)
    /\ far' = [far EXCEPT ![h] = "closed"]
    /\ IF h \in known
       THEN /\ host' = Unregistered(h) /\ phone' = Orphaned(h)
            /\ mobiles' = [mobiles EXCEPT ![h] = {}]
       ELSE UNCHANGED <<host, phone, mobiles>>
    /\ known' = known \ {h}
    /\ hostOf' = [p \in Phones |-> IF hostOf[p] = h THEN NoConn ELSE hostOf[p]]
    /\ Forgotten(near, far')
    /\ UNCHANGED <<near, sent, answered>>

-----------------------------------------------------------------------------
(* Phones.                                                                 *)

\* registerMobile; a phone without a host is refused and its socket closed.
PhoneAuth(p) ==
    /\ phone[p] = "new"
    /\ IF host # NoConn /\ far[host] = "open"
       THEN /\ phone' = [phone EXCEPT ![p] = "open"]
            /\ hostOf' = [hostOf EXCEPT ![p] = host]
            /\ mobiles' = [mobiles EXCEPT ![host] = @ \cup {p}]
            /\ down' = Send(down, far, host, Msg("open", p, 0))
       ELSE /\ phone' = [phone EXCEPT ![p] = "closed"]
            /\ UNCHANGED <<hostOf, mobiles, down>>
    /\ UNCHANGED <<near, far, up, broken, host, known, sent, answered>>

\* Mutant of PhoneRequests: the state of the phone's socket is not looked at.
PhoneRequestsAnyway(p) ==
    /\ phone[p] \in {"open", "closing"} /\ sent[p] < Sends[p]
    /\ sent' = [sent EXCEPT ![p] = @ + 1]
    /\ IF HostOpen(p)
       THEN /\ down' = Send(down, far, hostOf[p], Msg("request", p, sent[p] + 1))
            /\ UNCHANGED answered
       ELSE /\ answered' = [answered EXCEPT ![p] = @ \cup {sent[p] + 1}]
            /\ UNCHANGED down
    /\ UNCHANGED <<near, far, up, broken, host, known, mobiles, phone, hostOf>>

\* handleMobileMessage: forwarded, or answered that the host is offline.  A
\* socket that is closing is still read, and not answered.
PhoneRequests(p) ==
    /\ phone[p] \in {"open", "closing"} /\ sent[p] < Sends[p]
    /\ sent' = [sent EXCEPT ![p] = @ + 1]
    /\ IF HostOpen(p)
       THEN /\ down' = Send(down, far, hostOf[p], Msg("request", p, sent[p] + 1))
            /\ UNCHANGED answered
       ELSE /\ answered' = IF phone[p] = "open"
                           THEN [answered EXCEPT ![p] = @ \cup {sent[p] + 1}]
                           ELSE answered
            /\ UNCHANGED down
    /\ UNCHANGED <<near, far, up, broken, host, known, mobiles, phone, hostOf>>

\* Mutant of PhoneCloses: the host is not told.
PhoneClosesSilently(p) ==
    /\ phone[p] \in {"open", "closing"}
    /\ phone' = [phone EXCEPT ![p] = "closed"]
    /\ mobiles' = [h \in Conns |-> mobiles[h] \ {p}]
    /\ hostOf' = [hostOf EXCEPT ![p] = NoConn]
    /\ UNCHANGED <<link, host, known, sent, answered>>

\* handleClose of a phone, which hung up or was closed by the relay.
PhoneCloses(p) ==
    /\ phone[p] \in {"open", "closing"}
    /\ phone' = [phone EXCEPT ![p] = "closed"]
    /\ mobiles' = [h \in Conns |-> mobiles[h] \ {p}]
    /\ hostOf' = [hostOf EXCEPT ![p] = NoConn]
    /\ down' = IF HostOpen(p) THEN Send(down, far, hostOf[p], Msg("close", p, 0))
               ELSE down
    /\ UNCHANGED <<near, far, up, broken, host, known, sent, answered>>

\* The process of the relay is restarted: all it knew is gone, and the system
\* it runs on closes its connections.
RelayRestarts ==
    /\ \E h \in Conns : far[h] # "closed"
    /\ far' = [h \in Conns |-> "closed"]
    /\ host' = NoConn /\ known' = {} /\ mobiles' = [h \in Conns |-> {}]
    /\ phone' = [p \in Phones |-> IF phone[p] = "new" THEN "new" ELSE "closed"]
    /\ hostOf' = [p \in Phones |-> NoConn]
    /\ Forgotten(near, far')
    /\ UNCHANGED <<near, sent, answered>>

ServerReads(h) == RegisterHost(h) \/ ForwardResponse(h) \/ FailPhone(h)
=============================================================================
