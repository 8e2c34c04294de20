-------------------------- MODULE GatewayCoreProofs --------------------------
(***************************************************************************)
(* Proofs about GatewayCore, for any number of sessions, sockets, requests *)
(* and adapters.                                                           *)
(*                                                                         *)
(* The registry stores an owner name, the program means a lease.  That the *)
(* two agree is inductive only together with where a request is when it    *)
(* holds a lease (LeaseCoversTurn) and with the fact that a request that   *)
(* can touch a session has one (Aimed).                                    *)
(***************************************************************************)
EXTENDS GatewayCore, TLAPS

\* A request has the session its next step is about, and only session.new
\* goes through the steps of session.new.
Aimed ==
    \A r \in Requests :
      /\ pc[r] \in {"claim", "start", "stream", "failed", "announce",
                    "newclaim", "read", "apply", "listed"}
           => target[r] \in Sessions
      /\ pc[r] = "listing" /\ kind[r] # "list" => target[r] \in Sessions
      /\ pc[r] \in {"create", "announce", "newclaim"} => kind[r] = "new"

IInv == TypeOK /\ Aimed /\ LeaseCoversTurn /\ WriterIsTheHolder

-----------------------------------------------------------------------------
(* What one event changes.                                                 *)

\* createEvent keeps the numbers and the events well-formed.
LEMMA EmitType ==
  ASSUME TypeOK, NEW r \in Requests, NEW ref \in Route,
         NEW type \in EventType, Emit(r, ref, type)
  PROVE  /\ sequence' \in [Route -> Nat]
         /\ last' \in [Requests -> Event]
<1>1. sequence[ref] \in Nat
  BY DEF TypeOK
<1>2. sequence' \in [Route -> Nat]
  BY <1>1 DEF TypeOK, Emit
<1>3. [type |-> type, ref |-> ref, seq |-> sequence[ref] + 1]
        \in Event
  BY <1>1 DEF Event
<1>4. last' \in [Requests -> Event]
  BY <1>3 DEF TypeOK, Emit
<1> QED BY <1>2, <1>4

\* Moving a request to another label keeps the labels well-formed.
LEMMA GotoType ==
  ASSUME TypeOK, NEW r \in Requests, NEW label \in Control, Goto(r, label)
  PROVE  pc' \in [Requests -> Control]
BY DEF TypeOK, Goto

\* An adapter's answer keeps the types, whether or not it was the last one.
LEMMA AfterAdapterType ==
  ASSUME CoreAssumption, TypeOK, NEW r \in Requests, AfterAdapter(r)
  PROVE  /\ sequence' \in [Route -> Nat]
         /\ last' \in [Requests -> Event]
         /\ pc' \in [Requests -> Control]
         /\ next' \in [Requests -> 1 .. Len(Adapters)]
<1>1. CASE next[r] < Len(Adapters)
  <2>1. Len(Adapters) \in Nat /\ next[r] \in 1 .. Len(Adapters)
    BY DEF CoreAssumption, TypeOK
  <2>2. next[r] + 1 \in 1 .. Len(Adapters)
    BY <1>1, <2>1
  <2>3. /\ next' = [next EXCEPT ![r] = next[r] + 1]
        /\ UNCHANGED <<sequence, last, pc>>
    BY <1>1 DEF AfterAdapter, Silent
  <2>4. next' \in [Requests -> 1 .. Len(Adapters)]
    BY <2>2, <2>3 DEF TypeOK
  <2> QED BY <2>3, <2>4 DEF TypeOK
<1>2. CASE ~(next[r] < Len(Adapters)) /\ kind[r] = "list"
  <2>1. Emit(r, Gateway, "session.list") /\ Goto(r, "done") /\ UNCHANGED next
    BY <1>2 DEF AfterAdapter
  <2>2. Gateway \in Route /\ "session.list" \in EventType /\ "done" \in Control
    BY DEF Route, EventType, Control
  <2> QED BY <2>1, <2>2, EmitType, GotoType DEF TypeOK
<1>3. CASE ~(next[r] < Len(Adapters)) /\ kind[r] # "list"
  <2>1. /\ sequence' = [sequence EXCEPT ![Gateway] = @ + 1]
        /\ UNCHANGED <<last, next>> /\ Goto(r, "listed")
    BY <1>3 DEF AfterAdapter
  <2>2. Gateway \in Route /\ "listed" \in Control
    BY DEF Route, Control
  <2> QED BY <2>1, <2>2, GotoType DEF TypeOK
<1> QED BY <1>1, <1>2, <1>3

-----------------------------------------------------------------------------
(* Type correctness.                                                       *)

\* Granting and releasing a lease keep the registry well-formed.
LEMMA GrantType ==
  ASSUME CoreAssumption, TypeOK, NEW r \in Requests, NEW s \in Sessions,
         GrantWriter(r, s)
  PROVE  /\ writer' \in [Sessions -> Owners \cup {NoOwner}]
         /\ state' \in [Sessions -> SessionState]
         /\ lease' \in [Requests -> BOOLEAN]
<1>1. OwnerOf[r] \in Owners
  BY DEF CoreAssumption
<1> QED BY <1>1 DEF GrantWriter, TypeOK, SessionState

\* A released lease leaves writers, states and leases of their types.
LEMMA ReleaseType ==
  ASSUME TypeOK, NEW r \in Requests, target[r] \in Sessions, ReleaseLease(r)
  PROVE  /\ writer' \in [Sessions -> Owners \cup {NoOwner}]
         /\ state' \in [Sessions -> SessionState]
         /\ lease' \in [Requests -> BOOLEAN]
<1>1. ReleasedState(target[r]) \in SessionState
  BY DEF ReleasedState, TypeOK, SessionState
<1> QED BY <1>1 DEF ReleaseLease, TypeOK

\* A snapshot's observation is a state of a session.
LEMMA ReconcileType ==
  ASSUME TypeOK, NEW s \in Sessions, NEW o \in {"idle", "busy"}
  PROVE  ReconciledState(s, o) \in SessionState
BY DEF ReconciledState, TypeOK, SessionState

\* A reference a phone can hold is a reference to a session.
LEMMA ReferableSessions == TypeOK => Referable \subseteq Sessions
BY DEF TypeOK, Referable

\* Every step keeps every variable in its type.
LEMMA TypeStep ==
  ASSUME CoreAssumption, TypeOK, Aimed, [Next]_vars
  PROVE  TypeOK'
<1> USE DEF Silent, OnlyTalks, LeaseMoves
<1>0. "listing" \in Control /\ "listed" \in Control /\ "claim" \in Control
      /\ "start" \in Control /\ "stream" \in Control /\ "failed" \in Control
      /\ "create" \in Control /\ "announce" \in Control
      /\ "newclaim" \in Control /\ "read" \in Control /\ "apply" \in Control
      /\ "status" \in Control /\ "done" \in Control
  BY DEF Control
<1>e. \A type \in {"session.list", "session.snapshot", "session.state",
        "session.new", "session.conflict", "turn.start", "item",
        "provider.status", "error"} : type \in EventType
  BY DEF EventType
<1>g. Gateway \in Route /\ Sessions \subseteq Route
  BY DEF Route
<1>k. {"turn", "new", "list", "snapshot", "status"} \subseteq Kind
  BY DEF Kind
<1>u. ASSUME UNCHANGED vars PROVE TypeOK'
  BY <1>u DEF vars, TypeOK
<1>1. ASSUME NEW r \in Requests, RequestList(r) PROVE TypeOK'
  <2>1. pc' \in [Requests -> Control]
    BY <1>1, <1>0, GotoType DEF RequestList
  <2>2. kind' \in [Requests -> Kind]
    BY <1>1, <1>k DEF TypeOK, Arrive, RequestList
  <2> QED BY <1>1, <2>1, <2>2 DEF TypeOK, Arrive, RequestList
<1>2. ASSUME NEW r \in Requests, RequestStatus(r) PROVE TypeOK'
  <2>1. pc' \in [Requests -> Control]
    BY <1>2, <1>0, GotoType DEF RequestStatus
  <2>2. kind' \in [Requests -> Kind]
    BY <1>2, <1>k DEF TypeOK, Arrive, RequestStatus
  <2> QED BY <1>2, <2>1, <2>2 DEF TypeOK, Arrive, RequestStatus
<1>3. ASSUME NEW r \in Requests, RequestNew(r) PROVE TypeOK'
  <2>1. pc' \in [Requests -> Control]
    BY <1>3, <1>0, GotoType DEF RequestNew
  <2>2. kind' \in [Requests -> Kind]
    BY <1>3, <1>k DEF TypeOK, Arrive, RequestNew
  <2> QED BY <1>3, <2>1, <2>2 DEF TypeOK, Arrive, RequestNew
<1>4. ASSUME NEW r \in Requests, RequestBadNew(r) PROVE TypeOK'
  <2>1. pc' \in [Requests -> Control]
    BY <1>4, <1>0, GotoType DEF RequestBadNew
  <2>2. kind' \in [Requests -> Kind]
    BY <1>4, <1>k DEF TypeOK, Arrive, RequestBadNew
  <2>3. sequence' \in [Route -> Nat] /\ last' \in [Requests -> Event]
    BY <1>4, <1>e, <1>g, EmitType DEF RequestBadNew
  <2> QED BY <1>4, <2>1, <2>2, <2>3 DEF TypeOK, Arrive, RequestBadNew
<1>5. ASSUME NEW r \in Requests, NEW s \in Referable, RequestSnapshot(r, s)
      PROVE  TypeOK'
  <2>1. s \in Sessions
    BY ReferableSessions
  <2>2. pc' \in [Requests -> Control]
    BY <1>5, <1>0, GotoType DEF RequestSnapshot
  <2>3. kind' \in [Requests -> Kind]
    BY <1>5, <1>k DEF TypeOK, Arrive, RequestSnapshot
  <2> QED BY <1>5, <2>1, <2>2, <2>3 DEF TypeOK, Arrive, RequestSnapshot
<1>6. ASSUME NEW r \in Requests, NEW s \in Referable, RequestTurn(r, s)
      PROVE  TypeOK'
  <2>1. s \in Sessions
    BY ReferableSessions
  <2>2. pc' \in [Requests -> Control]
    BY <1>6, <1>0, GotoType DEF RequestTurn
  <2>3. kind' \in [Requests -> Kind]
    BY <1>6, <1>k DEF TypeOK, Arrive, RequestTurn
  <2> QED BY <1>6, <2>1, <2>2, <2>3 DEF TypeOK, Arrive, RequestTurn
<1>7. ASSUME NEW r \in Requests, NEW s \in Referable, RequestEmptyTurn(r, s)
      PROVE  TypeOK'
  <2>1. s \in Sessions
    BY ReferableSessions
  <2>2. pc' \in [Requests -> Control]
    BY <1>7, <1>0, GotoType DEF RequestEmptyTurn
  <2>3. kind' \in [Requests -> Kind]
    BY <1>7, <1>k DEF TypeOK, Arrive, RequestEmptyTurn
  <2>4. sequence' \in [Route -> Nat] /\ last' \in [Requests -> Event]
    BY <1>7, <1>e, <1>g, <2>1, TypeOK, EmitType DEF TypeOK, RequestEmptyTurn
    <2> QED BY <1>7, <2>1, <2>2, <2>3, <2>4 DEF TypeOK, Arrive,
      RequestEmptyTurn
<1>8. ASSUME NEW r \in Requests, NEW found \in SUBSET exists, AdapterLists(r, found)
      PROVE  TypeOK'
  <2> QED BY <1>8, AfterAdapterType DEF TypeOK, AdapterLists, RegisterOrGet
<1>9. ASSUME NEW r \in Requests, AdapterFails(r) PROVE TypeOK'
  <2>1. state' \in [Sessions -> SessionState]
    BY <1>9 DEF AdapterFails, SetHostOffline, TypeOK, SessionState
  <2> QED BY <1>9, <2>1, AfterAdapterType DEF TypeOK, AdapterFails
<1>10. ASSUME NEW r \in Requests, Relook(r) PROVE TypeOK'
  <2>1. pc' \in [Requests -> Control]
    BY <1>10, <1>0, GotoType DEF Relook
  <2>2. sequence' \in [Route -> Nat] /\ last' \in [Requests -> Event]
    BY <1>10, <1>e, <1>g, EmitType DEF TypeOK, Relook
  <2> QED BY <1>10, <2>1, <2>2 DEF TypeOK, Relook
<1>11. ASSUME NEW r \in Requests, RejectReadOnly(r) PROVE TypeOK'
  <2>1. target[r] \in Sessions
    BY <1>11 DEF Aimed, RejectReadOnly
  <2>2. pc' \in [Requests -> Control]
    BY <1>11, <1>0, GotoType DEF RejectReadOnly
  <2>3. sequence' \in [Route -> Nat] /\ last' \in [Requests -> Event]
    BY <1>11, <1>e, <1>g, <2>1, EmitType DEF RejectReadOnly
  <2> QED BY <1>11, <2>1, <2>2, <2>3 DEF TypeOK, RejectReadOnly
<1>12. ASSUME NEW r \in Requests, ClaimRefused(r) PROVE TypeOK'
  <2>1. target[r] \in Sessions
    BY <1>12 DEF Aimed, ClaimRefused
  <2>2. pc' \in [Requests -> Control]
    BY <1>12, <1>0, GotoType DEF ClaimRefused
  <2>3. RefusalType(target[r]) \in EventType
    BY <1>e DEF RefusalType
  <2>4. sequence' \in [Route -> Nat] /\ last' \in [Requests -> Event]
    BY <1>12, <1>e, <1>g, <2>1, <2>3, EmitType DEF ClaimRefused
  <2> QED BY <1>12, <2>1, <2>2, <2>3, <2>4 DEF TypeOK, ClaimRefused
<1>13. ASSUME NEW r \in Requests, TurnStarts(r) PROVE TypeOK'
  <2>1. target[r] \in Sessions
    BY <1>13 DEF Aimed, TurnStarts
  <2>2. pc' \in [Requests -> Control]
    BY <1>13, <1>0, GotoType DEF TurnStarts
  <2>3. sequence' \in [Route -> Nat] /\ last' \in [Requests -> Event]
    BY <1>13, <1>e, <1>g, <2>1, EmitType DEF TurnStarts
  <2> QED BY <1>13, <2>1, <2>2, <2>3 DEF TypeOK, TurnStarts
<1>14. ASSUME NEW r \in Requests, ProviderItem(r) PROVE TypeOK'
  <2>1. target[r] \in Sessions
    BY <1>14 DEF Aimed, ProviderItem
  <2>2. items' \in [Requests -> Nat]
    BY <1>14 DEF TypeOK, ProviderItem
  <2>3. sequence' \in [Route -> Nat] /\ last' \in [Requests -> Event]
    BY <1>14, <1>e, <1>g, <2>1, EmitType DEF ProviderItem
  <2> QED BY <1>14, <2>1, <2>2, <2>3 DEF TypeOK, ProviderItem
<1>15. ASSUME NEW r \in Requests, ProviderFails(r) PROVE TypeOK'
  <2>1. target[r] \in Sessions
    BY <1>15 DEF Aimed, ProviderFails
  <2>2. pc' \in [Requests -> Control]
    BY <1>15, <1>0, GotoType DEF ProviderFails
  <2>3. sequence' \in [Route -> Nat] /\ last' \in [Requests -> Event]
    BY <1>15, <1>e, <1>g, <2>1, EmitType DEF ProviderFails
  <2> QED BY <1>15, <2>1, <2>2, <2>3 DEF TypeOK, ProviderFails
<1>16. ASSUME NEW r \in Requests, ClaimGranted(r) PROVE TypeOK'
  <2>1. target[r] \in Sessions
    BY <1>16 DEF Aimed, ClaimGranted
  <2>2. pc' \in [Requests -> Control]
    BY <1>16, <1>0, GotoType DEF ClaimGranted
  <2>3. sequence' \in [Route -> Nat] /\ last' \in [Requests -> Event]
    BY <1>16, <1>e, <1>g, <2>1, EmitType DEF ClaimGranted
  <2>4. /\ writer' \in [Sessions -> Owners \cup {NoOwner}]
       /\ state' \in [Sessions -> SessionState]
       /\ lease' \in [Requests -> BOOLEAN]
    BY <1>16, <2>1, GrantType DEF ClaimGranted
  <2> QED BY <1>16, <2>1, <2>2, <2>3, <2>4 DEF TypeOK, ClaimGranted
<1>17. ASSUME NEW r \in Requests, NewClaimGranted(r) PROVE TypeOK'
  <2>1. target[r] \in Sessions
    BY <1>17 DEF Aimed, NewClaimGranted
  <2>2. pc' \in [Requests -> Control]
    BY <1>17, <1>0, GotoType DEF NewClaimGranted
  <2>3. sequence' \in [Route -> Nat] /\ last' \in [Requests -> Event]
    BY <1>17, <1>e, <1>g, <2>1, EmitType DEF NewClaimGranted
  <2>4. /\ writer' \in [Sessions -> Owners \cup {NoOwner}]
       /\ state' \in [Sessions -> SessionState]
       /\ lease' \in [Requests -> BOOLEAN]
    BY <1>17, <2>1, GrantType DEF NewClaimGranted
  <2> QED BY <1>17, <2>1, <2>2, <2>3, <2>4 DEF TypeOK, NewClaimGranted
<1>18. ASSUME NEW r \in Requests, TurnEnds(r) PROVE TypeOK'
  <2>1. target[r] \in Sessions
    BY <1>18 DEF Aimed, TurnEnds
  <2>2. pc' \in [Requests -> Control]
    BY <1>18, <1>0, GotoType DEF TurnEnds
  <2>3. sequence' \in [Route -> Nat] /\ last' \in [Requests -> Event]
    BY <1>18, <1>e, <1>g, <2>1, EmitType DEF TurnEnds
  <2>4. /\ writer' \in [Sessions -> Owners \cup {NoOwner}]
       /\ state' \in [Sessions -> SessionState]
       /\ lease' \in [Requests -> BOOLEAN]
    BY <1>18, <2>1, ReleaseType DEF TurnEnds
  <2> QED BY <1>18, <2>1, <2>2, <2>3, <2>4 DEF TypeOK, TurnEnds
<1>19. ASSUME NEW r \in Requests, NEW s \in Sessions, ProviderCreates(r, s)
      PROVE  TypeOK'
  <2>1. pc' \in [Requests -> Control]
    BY <1>19, <1>0, GotoType DEF ProviderCreates
  <2> QED BY <1>19, <2>1 DEF TypeOK, ProviderCreates
<1>20. ASSUME NEW r \in Requests, NewFails(r) PROVE TypeOK'
  <2>1. pc' \in [Requests -> Control]
    BY <1>20, <1>0, GotoType DEF NewFails
  <2>2. sequence' \in [Route -> Nat] /\ last' \in [Requests -> Event]
    BY <1>20, <1>e, <1>g, EmitType DEF TypeOK, NewFails
  <2> QED BY <1>20, <2>1, <2>2 DEF TypeOK, NewFails
<1>21. ASSUME NEW r \in Requests, Announced(r) PROVE TypeOK'
  <2>1. target[r] \in Sessions
    BY <1>21 DEF Aimed, Announced
  <2>2. pc' \in [Requests -> Control]
    BY <1>21, <1>0, GotoType DEF Announced
  <2>3. sequence' \in [Route -> Nat] /\ last' \in [Requests -> Event]
    BY <1>21, <1>e, <1>g, <2>1, EmitType DEF Announced
  <2> QED BY <1>21, <2>1, <2>2, <2>3 DEF TypeOK, Announced, RegisterOrGet
<1>22. ASSUME NEW r \in Requests, NewClaimRefused(r) PROVE TypeOK'
  <2>1. target[r] \in Sessions
    BY <1>22 DEF Aimed, NewClaimRefused
  <2>2. pc' \in [Requests -> Control]
    BY <1>22, <1>0, GotoType DEF NewClaimRefused
  <2>3. RefusalType(target[r]) \in EventType
    BY <1>e DEF RefusalType
  <2>4. sequence' \in [Route -> Nat] /\ last' \in [Requests -> Event]
    BY <1>22, <1>e, <1>g, <2>1, <2>3, EmitType DEF NewClaimRefused
  <2> QED BY <1>22, <2>1, <2>2, <2>3, <2>4 DEF TypeOK, NewClaimRefused
<1>23. ASSUME NEW r \in Requests, NEW o \in {"idle", "busy"}, ProviderReads(r, o)
      PROVE  TypeOK'
  <2>1. pc' \in [Requests -> Control]
    BY <1>23, <1>0, GotoType DEF ProviderReads
  <2> QED BY <1>23, <2>1 DEF TypeOK, ProviderReads
<1>24. ASSUME NEW r \in Requests, ReadFails(r) PROVE TypeOK'
  <2>1. pc' \in [Requests -> Control]
    BY <1>24, <1>0, GotoType DEF ReadFails
  <2> QED BY <1>24, <2>1 DEF TypeOK, ReadFails
<1>25. ASSUME NEW r \in Requests, ReconcileSnapshot(r) PROVE TypeOK'
  <2>1. target[r] \in Sessions
    BY <1>25 DEF Aimed, ReconcileSnapshot
  <2>2. pc' \in [Requests -> Control]
    BY <1>25, <1>0, GotoType DEF ReconcileSnapshot
  <2>3. sequence' \in [Route -> Nat] /\ last' \in [Requests -> Event]
    BY <1>25, <1>e, <1>g, <2>1, EmitType DEF ReconcileSnapshot
  <2>4. ReconciledState(target[r], seen[r]) \in SessionState
    BY <2>1, ReconcileType DEF TypeOK
  <2> QED BY <1>25, <2>1, <2>2, <2>3, <2>4 DEF TypeOK, ReconcileSnapshot
<1>26. ASSUME NEW r \in Requests, StatusReady(r) PROVE TypeOK'
  <2>1. pc' \in [Requests -> Control]
    BY <1>26, <1>0, GotoType DEF StatusReady
  <2>2. sequence' \in [Route -> Nat] /\ last' \in [Requests -> Event]
    BY <1>26, <1>e, <1>g, EmitType DEF StatusReady
  <2> QED BY <1>26, <2>1, <2>2 DEF TypeOK, StatusReady
<1>27. ASSUME NEW o \in Owners, SocketCloses(o) PROVE TypeOK'
  BY <1>27 DEF SocketCloses, TypeOK
<1> QED
    BY <1>u, <1>1, <1>2, <1>3, <1>4, <1>5, <1>6, <1>7, <1>8, <1>9, <1>10,
     <1>11, <1>12, <1>13, <1>14, <1>15, <1>16, <1>17, <1>18, <1>19, <1>20,
     <1>21, <1>22, <1>23, <1>24, <1>25, <1>26, <1>27
     DEF Next, Arrivals, Progress, Listing, Turn, NewSession, Reading

-----------------------------------------------------------------------------
(* Where a request is when it holds a lease.                               *)

\* A request reaches a step about a session only with a session to act on.
LEMMA AimedStep ==
  ASSUME CoreAssumption, TypeOK, Aimed, [Next]_vars
  PROVE  Aimed'
<1> USE DEF Goto, Silent, OnlyTalks, LeaseMoves, Control, Kind
<1>u. ASSUME UNCHANGED vars PROVE Aimed'
  BY <1>u DEF vars, Aimed
<1>1. ASSUME NEW r \in Requests, RequestList(r) PROVE Aimed'
  BY <1>1 DEF TypeOK, Aimed, RequestList, Arrive
<1>2. ASSUME NEW r \in Requests, RequestStatus(r) PROVE Aimed'
  BY <1>2 DEF TypeOK, Aimed, RequestStatus, Arrive
<1>3. ASSUME NEW r \in Requests, RequestNew(r) PROVE Aimed'
  BY <1>3 DEF TypeOK, Aimed, RequestNew, Arrive
<1>4. ASSUME NEW r \in Requests, RequestBadNew(r) PROVE Aimed'
  BY <1>4 DEF TypeOK, Aimed, RequestBadNew, Arrive
<1>5. ASSUME NEW r \in Requests, NEW s \in Referable, RequestSnapshot(r, s)
      PROVE  Aimed'
  BY <1>5, ReferableSessions DEF TypeOK, Aimed, RequestSnapshot, Arrive
<1>6. ASSUME NEW r \in Requests, NEW s \in Referable, RequestTurn(r, s)
      PROVE  Aimed'
  BY <1>6, ReferableSessions DEF TypeOK, Aimed, RequestTurn, Arrive
<1>7. ASSUME NEW r \in Requests, NEW s \in Referable, RequestEmptyTurn(r, s)
      PROVE  Aimed'
  BY <1>7, ReferableSessions DEF TypeOK, Aimed, RequestEmptyTurn, Arrive
<1>8. ASSUME NEW r \in Requests, NEW found \in SUBSET exists, AdapterLists(r, found)
      PROVE  Aimed'
  BY <1>8 DEF TypeOK, Aimed, AdapterLists, AfterAdapter, Emit
<1>9. ASSUME NEW r \in Requests, AdapterFails(r) PROVE Aimed'
  BY <1>9 DEF TypeOK, Aimed, AdapterFails, AfterAdapter, Emit
<1>10. ASSUME NEW r \in Requests, Relook(r) PROVE Aimed'
  BY <1>10 DEF TypeOK, Aimed, Relook
<1>11. ASSUME NEW r \in Requests, RejectReadOnly(r) PROVE Aimed'
  BY <1>11 DEF TypeOK, Aimed, RejectReadOnly
<1>12. ASSUME NEW r \in Requests, ClaimRefused(r) PROVE Aimed'
  BY <1>12 DEF TypeOK, Aimed, ClaimRefused
<1>13. ASSUME NEW r \in Requests, ClaimGranted(r) PROVE Aimed'
  BY <1>13 DEF TypeOK, Aimed, ClaimGranted
<1>14. ASSUME NEW r \in Requests, TurnStarts(r) PROVE Aimed'
  BY <1>14 DEF TypeOK, Aimed, TurnStarts
<1>15. ASSUME NEW r \in Requests, ProviderItem(r) PROVE Aimed'
  BY <1>15 DEF TypeOK, Aimed, ProviderItem
<1>16. ASSUME NEW r \in Requests, ProviderFails(r) PROVE Aimed'
  BY <1>16 DEF TypeOK, Aimed, ProviderFails
<1>17. ASSUME NEW r \in Requests, TurnEnds(r) PROVE Aimed'
  BY <1>17 DEF TypeOK, Aimed, TurnEnds
<1>18. ASSUME NEW r \in Requests, NEW s \in Sessions, ProviderCreates(r, s)
      PROVE  Aimed'
  BY <1>18 DEF TypeOK, Aimed, ProviderCreates
<1>19. ASSUME NEW r \in Requests, NewFails(r) PROVE Aimed'
  BY <1>19 DEF TypeOK, Aimed, NewFails
<1>20. ASSUME NEW r \in Requests, Announced(r) PROVE Aimed'
  BY <1>20 DEF TypeOK, Aimed, Announced
<1>21. ASSUME NEW r \in Requests, NewClaimGranted(r) PROVE Aimed'
  BY <1>21 DEF TypeOK, Aimed, NewClaimGranted
<1>22. ASSUME NEW r \in Requests, NewClaimRefused(r) PROVE Aimed'
  BY <1>22 DEF TypeOK, Aimed, NewClaimRefused
<1>23. ASSUME NEW r \in Requests, NEW o \in {"idle", "busy"}, ProviderReads(r, o)
      PROVE  Aimed'
  BY <1>23 DEF TypeOK, Aimed, ProviderReads
<1>24. ASSUME NEW r \in Requests, ReadFails(r) PROVE Aimed'
  BY <1>24 DEF TypeOK, Aimed, ReadFails
<1>25. ASSUME NEW r \in Requests, ReconcileSnapshot(r) PROVE Aimed'
  BY <1>25 DEF TypeOK, Aimed, ReconcileSnapshot
<1>26. ASSUME NEW r \in Requests, StatusReady(r) PROVE Aimed'
  BY <1>26 DEF TypeOK, Aimed, StatusReady
<1>27. ASSUME NEW o \in Owners, SocketCloses(o) PROVE Aimed'
  BY <1>27 DEF SocketCloses, Aimed
<1> QED
    BY <1>u, <1>1, <1>2, <1>3, <1>4, <1>5, <1>6, <1>7, <1>8, <1>9, <1>10,
     <1>11, <1>12, <1>13, <1>14, <1>15, <1>16, <1>17, <1>18, <1>19, <1>20,
     <1>21, <1>22, <1>23, <1>24, <1>25, <1>26, <1>27
     DEF Next, Arrivals, Progress, Listing, Turn, NewSession, Reading

\* startTurn is never without its lease, nor a lease without its turn.
LEMMA LeaseCoversTurnStep ==
  ASSUME CoreAssumption, TypeOK, Aimed, LeaseCoversTurn, [Next]_vars
  PROVE  LeaseCoversTurn'
<1> USE DEF Goto, Silent, OnlyTalks, LeaseMoves, Driving
<1>u. ASSUME UNCHANGED vars PROVE LeaseCoversTurn'
  BY <1>u DEF vars, LeaseCoversTurn
<1>1. ASSUME NEW r \in Requests, RequestList(r) PROVE LeaseCoversTurn'
    BY <1>1 DEF TypeOK, LeaseCoversTurn, RequestList, Aimed, GrantWriter,
     ReleaseLease, Arrive
<1>2. ASSUME NEW r \in Requests, RequestStatus(r) PROVE LeaseCoversTurn'
    BY <1>2 DEF TypeOK, LeaseCoversTurn, RequestStatus, Aimed, GrantWriter,
     ReleaseLease, Arrive
<1>3. ASSUME NEW r \in Requests, RequestNew(r) PROVE LeaseCoversTurn'
    BY <1>3 DEF TypeOK, LeaseCoversTurn, RequestNew, Aimed, GrantWriter,
     ReleaseLease, Arrive
<1>4. ASSUME NEW r \in Requests, RequestBadNew(r) PROVE LeaseCoversTurn'
    BY <1>4 DEF TypeOK, LeaseCoversTurn, RequestBadNew, Aimed, GrantWriter,
     ReleaseLease, Arrive
<1>5. ASSUME NEW r \in Requests, NEW s \in Referable, RequestSnapshot(r, s)
      PROVE  LeaseCoversTurn'
    BY <1>5, ReferableSessions DEF TypeOK, LeaseCoversTurn, RequestSnapshot,
     Aimed, GrantWriter, ReleaseLease, Arrive
<1>6. ASSUME NEW r \in Requests, NEW s \in Referable, RequestTurn(r, s)
      PROVE  LeaseCoversTurn'
    BY <1>6, ReferableSessions DEF TypeOK, LeaseCoversTurn, RequestTurn,
     Aimed, GrantWriter, ReleaseLease, Arrive
<1>7. ASSUME NEW r \in Requests, NEW s \in Referable, RequestEmptyTurn(r, s)
      PROVE  LeaseCoversTurn'
    BY <1>7, ReferableSessions DEF TypeOK, LeaseCoversTurn, RequestEmptyTurn,
     Aimed, GrantWriter, ReleaseLease, Arrive
<1>8. ASSUME NEW r \in Requests, NEW found \in SUBSET exists, AdapterLists(r, found)
      PROVE  LeaseCoversTurn'
    BY <1>8 DEF TypeOK, LeaseCoversTurn, AdapterLists, Aimed, GrantWriter,
     ReleaseLease, AfterAdapter, Emit
<1>9. ASSUME NEW r \in Requests, AdapterFails(r) PROVE LeaseCoversTurn'
    BY <1>9 DEF TypeOK, LeaseCoversTurn, AdapterFails, Aimed, GrantWriter,
     ReleaseLease, AfterAdapter, Emit
<1>10. ASSUME NEW r \in Requests, Relook(r) PROVE LeaseCoversTurn'
    BY <1>10 DEF TypeOK, LeaseCoversTurn, Relook, Aimed, GrantWriter,
     ReleaseLease
<1>11. ASSUME NEW r \in Requests, RejectReadOnly(r) PROVE LeaseCoversTurn'
    BY <1>11 DEF TypeOK, LeaseCoversTurn, RejectReadOnly, Aimed, GrantWriter,
     ReleaseLease
<1>12. ASSUME NEW r \in Requests, ClaimRefused(r) PROVE LeaseCoversTurn'
    BY <1>12 DEF TypeOK, LeaseCoversTurn, ClaimRefused, Aimed, GrantWriter,
     ReleaseLease
<1>13. ASSUME NEW r \in Requests, ClaimGranted(r) PROVE LeaseCoversTurn'
    BY <1>13 DEF TypeOK, LeaseCoversTurn, ClaimGranted, Aimed, GrantWriter,
     ReleaseLease
<1>14. ASSUME NEW r \in Requests, TurnStarts(r) PROVE LeaseCoversTurn'
    BY <1>14 DEF TypeOK, LeaseCoversTurn, TurnStarts, Aimed, GrantWriter,
     ReleaseLease
<1>15. ASSUME NEW r \in Requests, ProviderItem(r) PROVE LeaseCoversTurn'
    BY <1>15 DEF TypeOK, LeaseCoversTurn, ProviderItem, Aimed, GrantWriter,
     ReleaseLease
<1>16. ASSUME NEW r \in Requests, ProviderFails(r) PROVE LeaseCoversTurn'
    BY <1>16 DEF TypeOK, LeaseCoversTurn, ProviderFails, Aimed, GrantWriter,
     ReleaseLease
<1>17. ASSUME NEW r \in Requests, TurnEnds(r) PROVE LeaseCoversTurn'
    BY <1>17 DEF TypeOK, LeaseCoversTurn, TurnEnds, Aimed, GrantWriter,
     ReleaseLease
<1>18. ASSUME NEW r \in Requests, NEW s \in Sessions, ProviderCreates(r, s)
      PROVE  LeaseCoversTurn'
    BY <1>18 DEF TypeOK, LeaseCoversTurn, ProviderCreates, Aimed,
     GrantWriter, ReleaseLease
<1>19. ASSUME NEW r \in Requests, NewFails(r) PROVE LeaseCoversTurn'
    BY <1>19 DEF TypeOK, LeaseCoversTurn, NewFails, Aimed, GrantWriter,
     ReleaseLease
<1>20. ASSUME NEW r \in Requests, Announced(r) PROVE LeaseCoversTurn'
    BY <1>20 DEF TypeOK, LeaseCoversTurn, Announced, Aimed, GrantWriter,
     ReleaseLease
<1>21. ASSUME NEW r \in Requests, NewClaimGranted(r) PROVE LeaseCoversTurn'
    BY <1>21 DEF TypeOK, LeaseCoversTurn, NewClaimGranted, Aimed,
     GrantWriter, ReleaseLease
<1>22. ASSUME NEW r \in Requests, NewClaimRefused(r) PROVE LeaseCoversTurn'
    BY <1>22 DEF TypeOK, LeaseCoversTurn, NewClaimRefused, Aimed,
     GrantWriter, ReleaseLease
<1>23. ASSUME NEW r \in Requests, NEW o \in {"idle", "busy"}, ProviderReads(r, o)
      PROVE  LeaseCoversTurn'
    BY <1>23 DEF TypeOK, LeaseCoversTurn, ProviderReads, Aimed, GrantWriter,
     ReleaseLease
<1>24. ASSUME NEW r \in Requests, ReadFails(r) PROVE LeaseCoversTurn'
    BY <1>24 DEF TypeOK, LeaseCoversTurn, ReadFails, Aimed, GrantWriter,
     ReleaseLease
<1>25. ASSUME NEW r \in Requests, ReconcileSnapshot(r) PROVE LeaseCoversTurn'
    BY <1>25 DEF TypeOK, LeaseCoversTurn, ReconcileSnapshot, Aimed,
     GrantWriter, ReleaseLease
<1>26. ASSUME NEW r \in Requests, StatusReady(r) PROVE LeaseCoversTurn'
    BY <1>26 DEF TypeOK, LeaseCoversTurn, StatusReady, Aimed, GrantWriter,
     ReleaseLease
<1>27. ASSUME NEW o \in Owners, SocketCloses(o) PROVE LeaseCoversTurn'
  BY <1>27 DEF SocketCloses, LeaseCoversTurn
<1> QED
    BY <1>u, <1>1, <1>2, <1>3, <1>4, <1>5, <1>6, <1>7, <1>8, <1>9, <1>10,
     <1>11, <1>12, <1>13, <1>14, <1>15, <1>16, <1>17, <1>18, <1>19, <1>20,
     <1>21, <1>22, <1>23, <1>24, <1>25, <1>26, <1>27
     DEF Next, Arrivals, Progress, Listing, Turn, NewSession, Reading

-----------------------------------------------------------------------------
(* The writer's name and the lease.                                        *)

\* The steps that touch a name or a lease, and the targets of leases.
LeaseStep(r) == ClaimGranted(r) \/ NewClaimGranted(r) \/ TurnEnds(r)
Quiet ==
    /\ UNCHANGED <<writer, lease>>
    /\ \A r \in Requests : lease[r] => target'[r] = target[r]

\* Only a granted claim and the end of a turn change a name or a lease.
LEMMA QuietOrLease ==
  ASSUME TypeOK, LeaseCoversTurn, [Next]_vars
  PROVE  Quiet \/ \E r \in Requests : LeaseStep(r)
<1> USE DEF Quiet, TypeOK, OnlyTalks, LeaseMoves
<1>1. CASE UNCHANGED vars
  BY <1>1 DEF vars
<1>2. ASSUME NEW r \in Requests, Arrivals(r) PROVE Quiet
  <2>1. ~lease[r]
    BY <1>2 DEF LeaseCoversTurn, Driving, Arrivals, Arrive, RequestList,
                RequestStatus, RequestNew, RequestBadNew, RequestSnapshot,
                RequestTurn, RequestEmptyTurn
  <2>2. /\ UNCHANGED <<writer, lease>>
        /\ \A q \in Requests : q # r => target'[q] = target[q]
    BY <1>2 DEF Arrivals, Arrive, RequestList, RequestStatus, RequestNew,
                RequestBadNew, RequestSnapshot, RequestTurn, RequestEmptyTurn
  <2> QED BY <2>1, <2>2
<1>3. ASSUME NEW r \in Requests, Listing(r) PROVE Quiet
  BY <1>3 DEF Listing, AdapterLists, AdapterFails, Relook
<1>4. ASSUME NEW r \in Requests, Turn(r) PROVE Quiet \/ LeaseStep(r)
  BY <1>4 DEF Turn, RejectReadOnly, ClaimRefused, TurnStarts, ProviderFails,
              LeaseStep
<1>5. ASSUME NEW r \in Requests, ProviderItem(r) PROVE Quiet
  BY <1>5 DEF ProviderItem
<1>6. ASSUME NEW r \in Requests, NEW s \in Sessions, ProviderCreates(r, s)
      PROVE  Quiet
  <2>1. ~lease[r]
    BY <1>6 DEF LeaseCoversTurn, Driving, ProviderCreates
  <2> QED BY <1>6, <2>1 DEF ProviderCreates
<1>7. ASSUME NEW r \in Requests, NewSession(r) PROVE Quiet \/ LeaseStep(r)
  BY <1>6, <1>7 DEF NewSession, NewFails, Announced, NewClaimRefused, LeaseStep
<1>8. ASSUME NEW r \in Requests, Reading(r) PROVE Quiet
  BY <1>8 DEF Reading, ProviderReads, ReadFails, ReconcileSnapshot, StatusReady
<1>9. ASSUME NEW o \in Owners, SocketCloses(o) PROVE Quiet
  BY <1>9 DEF SocketCloses
<1> QED
  BY <1>1, <1>2, <1>3, <1>4, <1>5, <1>7, <1>8, <1>9 DEF Next, Progress

\* A quiet step leaves every session its holders.
LEMMA QuietHolders ==
  ASSUME TypeOK, Quiet
  PROVE  \A s \in Sessions : Holders(s)' = Holders(s)
BY DEF Quiet, Holders, TypeOK

\* A granted claim found the session free and makes the request its holder.
LEMMA GrantHolders ==
  ASSUME CoreAssumption, IInv, NEW r \in Requests,
         ClaimGranted(r) \/ NewClaimGranted(r)
  PROVE  /\ target[r] \in Sessions /\ ~lease[r]
         /\ \A s \in Sessions :
              IF s = target[r]
              THEN /\ Holders(s) = {} /\ Holders(s)' = {r}
                   /\ writer'[s] = OwnerOf[r] /\ state'[s] = "busy"
              ELSE /\ Holders(s)' = Holders(s)
                   /\ writer'[s] = writer[s] /\ state'[s] = state[s]
<1> USE DEF IInv, TypeOK, OnlyTalks, LeaseMoves
<1>1. target[r] \in Sessions /\ ~lease[r]
  BY DEF Aimed, LeaseCoversTurn, Driving, ClaimGranted, NewClaimGranted
<1>2. /\ writer[target[r]] = NoOwner
      /\ writer' = [writer EXCEPT ![target[r]] = OwnerOf[r]]
      /\ state' = [state EXCEPT ![target[r]] = "busy"]
      /\ lease' = [lease EXCEPT ![r] = TRUE]
      /\ target' = target
  BY DEF ClaimGranted, NewClaimGranted, Refuses, GrantWriter
<1>3. \A s \in Sessions : s = target[r] => Holders(s) = {}
  <2>1. \A q \in Requests : OwnerOf[q] # NoOwner
    BY DEF CoreAssumption
  <2> QED BY <1>2, <2>1 DEF WriterIsTheHolder, HolderAgrees, Holders
<1>4. \A s \in Sessions : s = target[r] => Holders(s)' = {r}
  BY <1>1, <1>2, <1>3 DEF Holders
<1>5. \A s \in Sessions : s # target[r] => Holders(s)' = Holders(s)
  BY <1>1, <1>2 DEF Holders
<1> QED BY <1>1, <1>2, <1>3, <1>4, <1>5

\* The end of a turn with a lease frees its session, which it held alone.
LEMMA ReleaseHolders ==
  ASSUME CoreAssumption, IInv, NEW r \in Requests, TurnEnds(r), lease[r]
  PROVE  /\ target[r] \in Sessions
         /\ \A s \in Sessions :
              IF s = target[r]
              THEN /\ Holders(s) = {r} /\ Holders(s)' = {}
                   /\ writer'[s] = NoOwner /\ state'[s] = ReleasedState(s)
              ELSE /\ Holders(s)' = Holders(s)
                   /\ writer'[s] = writer[s] /\ state'[s] = state[s]
<1> USE DEF IInv, TypeOK, OnlyTalks, LeaseMoves
<1>1. target[r] \in Sessions
  BY DEF Aimed, TurnEnds
<1>2. \A s \in Sessions :
        s = target[r] => writer[s] = OwnerOf[r] /\ Holders(s) = {r}
  BY DEF WriterIsTheHolder, HolderAgrees, Holders
<1>3. /\ writer' = [writer EXCEPT ![target[r]] = NoOwner]
      /\ state' = [state EXCEPT ![target[r]] = ReleasedState(target[r])]
      /\ lease' = [lease EXCEPT ![r] = FALSE]
      /\ target' = target
  BY <1>1, <1>2 DEF TurnEnds, ReleaseLease, StillOwner
<1>4. \A s \in Sessions : s = target[r] => Holders(s)' = {}
  BY <1>2, <1>3 DEF Holders
<1>5. \A s \in Sessions : s # target[r] => Holders(s)' = Holders(s)
  BY <1>3 DEF Holders
<1> QED BY <1>1, <1>2, <1>3, <1>4, <1>5

\* A new session's turn that ran without a lease leaves the registry alone.
LEMMA UnleasedEnd ==
  ASSUME IInv, NEW r \in Requests, TurnEnds(r), ~lease[r]
  PROVE  Quiet /\ state' = state
BY DEF IInv, TypeOK, TurnEnds, LeaseMoves, ReleaseLease, StillOwner, Quiet

\* The names and the leases agree after every step.
LEMMA WriterStep ==
  ASSUME CoreAssumption, IInv, [Next]_vars
  PROVE  WriterIsTheHolder'
<1> USE DEF IInv
<1>1. CASE Quiet
  BY <1>1, QuietHolders DEF Quiet, WriterIsTheHolder, HolderAgrees
<1>2. ASSUME NEW r \in Requests, ClaimGranted(r) \/ NewClaimGranted(r),
             NEW s \in Sessions
      PROVE  HolderAgrees(s)'
  <2>1. CASE s = target[r]
    <3>1. Holders(s)' = {r} /\ writer'[s] = OwnerOf[r]
      BY <1>2, <2>1, GrantHolders
    <3> QED BY <3>1 DEF HolderAgrees
  <2>2. CASE s # target[r]
    <3>1. Holders(s)' = Holders(s) /\ writer'[s] = writer[s]
      BY <1>2, <2>2, GrantHolders
    <3>2. HolderAgrees(s)
      BY DEF WriterIsTheHolder
    <3> QED BY <3>1, <3>2 DEF HolderAgrees
  <2> QED BY <2>1, <2>2
<1>3. ASSUME NEW r \in Requests, TurnEnds(r), lease[r], NEW s \in Sessions
      PROVE  HolderAgrees(s)'
  <2>1. CASE s = target[r]
    BY <1>3, <2>1, ReleaseHolders DEF HolderAgrees
  <2>2. CASE s # target[r]
    BY <1>3, <2>2, ReleaseHolders DEF HolderAgrees, WriterIsTheHolder
  <2> QED BY <2>1, <2>2
<1>4. ASSUME NEW r \in Requests, TurnEnds(r), ~lease[r]
      PROVE  WriterIsTheHolder'
  BY <1>1, <1>4, UnleasedEnd
<1> QED
  BY <1>1, <1>2, <1>3, <1>4, QuietOrLease DEF LeaseStep, WriterIsTheHolder

\* The initial states: nothing is registered, held or under way.
LEMMA InitInv ==
  ASSUME CoreAssumption
  PROVE  Init => IInv /\ LeasedLooksTaken
<1> SUFFICES ASSUME Init PROVE IInv /\ LeasedLooksTaken
  OBVIOUS
<1>1. TypeOK
  <2>1. Len(Adapters) \in Nat /\ 1 \in 1 .. Len(Adapters)
    BY DEF CoreAssumption
  <2>2. NoEvent \in Event
    BY DEF NoEvent, Event, EventType, Route
  <2> QED
    BY <2>1, <2>2 DEF Init, TypeOK, SessionState, Kind, Control, Route
<1>2. Aimed /\ LeaseCoversTurn
  BY DEF Init, Aimed, LeaseCoversTurn, Driving
<1>3. WriterIsTheHolder /\ LeasedLooksTaken
  BY DEF Init, WriterIsTheHolder, HolderAgrees, Holders, LeasedLooksTaken
<1> QED BY <1>1, <1>2, <1>3 DEF IInv

\* The invariant of the registry and its requests holds throughout.
THEOREM Inductive == Spec => []IInv
<1>1. Init => IInv
  BY CoreAssumption, InitInv
<1>2. IInv /\ [Next]_vars => IInv'
  BY CoreAssumption, TypeStep, AimedStep, LeaseCoversTurnStep, WriterStep
     DEF IInv
<1> QED BY <1>1, <1>2, PTL DEF Spec

\* Type correctness of the registry and of the requests.
THEOREM TypeCorrect == Spec => []TypeOK
<1>1. IInv => TypeOK
  BY DEF IInv
<1> QED BY <1>1, Inductive, PTL

\* The owner name of a session stands for exactly one unreleased lease.
THEOREM WriterCorrect == Spec => []WriterIsTheHolder
<1>1. IInv => WriterIsTheHolder
  BY DEF IInv
<1> QED BY <1>1, Inductive, PTL

\* startTurn drives the provider under its lease and under no other.
THEOREM LeaseCorrect == Spec => []LeaseCoversTurn
<1>1. IInv => LeaseCoversTurn
  BY DEF IInv
<1> QED BY <1>1, Inductive, PTL

-----------------------------------------------------------------------------
(* The state the phones see.                                               *)

\* The steps that change the state of a session.
LEMMA StateSteps ==
  ASSUME TypeOK, [Next]_vars
  PROVE  \/ UNCHANGED state
         \/ \E r \in Requests : AdapterFails(r) \/ LeaseStep(r) \/ ReconcileSnapshot(r)
<1> USE DEF OnlyTalks, LeaseMoves
<1>1. CASE UNCHANGED vars
  BY <1>1 DEF vars
<1>2. ASSUME NEW r \in Requests, Arrivals(r) PROVE UNCHANGED state
  BY <1>2 DEF Arrivals, Arrive, RequestList, RequestStatus, RequestNew,
              RequestBadNew, RequestSnapshot, RequestTurn, RequestEmptyTurn
<1>3. ASSUME NEW r \in Requests, Listing(r)
      PROVE  UNCHANGED state \/ AdapterFails(r)
  BY <1>3 DEF Listing, AdapterLists, Relook
<1>4. ASSUME NEW r \in Requests, Turn(r) \/ ProviderItem(r)
      PROVE  UNCHANGED state \/ LeaseStep(r)
  BY <1>4 DEF Turn, RejectReadOnly, ClaimRefused, TurnStarts, ProviderFails,
              LeaseStep, ProviderItem
<1>5. ASSUME NEW r \in Requests, NewSession(r)
      PROVE  UNCHANGED state \/ LeaseStep(r)
  BY <1>5 DEF NewSession, ProviderCreates, NewFails, Announced,
              NewClaimRefused, LeaseStep
<1>6. ASSUME NEW r \in Requests, Reading(r)
      PROVE  UNCHANGED state \/ ReconcileSnapshot(r)
  BY <1>6 DEF Reading, ProviderReads, ReadFails, StatusReady
<1>7. ASSUME NEW o \in Owners, SocketCloses(o) PROVE UNCHANGED state
  BY <1>7 DEF SocketCloses
<1> QED BY <1>1, <1>2, <1>3, <1>4, <1>5, <1>6, <1>7 DEF Next, Progress

\* No step makes a session that is being written look free.
LEMMA LeasedLooksTakenStep ==
  ASSUME CoreAssumption, IInv, LeasedLooksTaken, [Next]_vars
  PROVE  LeasedLooksTaken'
<1> USE DEF IInv, TypeOK, LeasedLooksTaken
<1>1. ASSUME NEW r \in Requests, ClaimGranted(r) \/ NewClaimGranted(r)
      PROVE  LeasedLooksTaken'
  BY <1>1, GrantHolders
<1>2. ASSUME NEW r \in Requests, TurnEnds(r), lease[r]
      PROVE  LeasedLooksTaken'
  BY <1>2, ReleaseHolders
<1>3. ASSUME NEW r \in Requests, TurnEnds(r), ~lease[r]
      PROVE  LeasedLooksTaken'
  BY <1>3, UnleasedEnd DEF Quiet
<1>4. ASSUME NEW r \in Requests, AdapterFails(r) PROVE LeasedLooksTaken'
  BY <1>4 DEF AdapterFails, SetHostOffline
<1>5. ASSUME NEW r \in Requests, ReconcileSnapshot(r)
      PROVE  LeasedLooksTaken'
  <2>1. target[r] \in Sessions
    BY <1>5 DEF Aimed, ReconcileSnapshot
  <2> QED BY <1>5, <2>1 DEF ReconcileSnapshot, ReconciledState
<1>6. CASE UNCHANGED state /\ Quiet
  BY <1>6 DEF Quiet
<1>7. ASSUME NEW r \in Requests, LeaseStep(r) PROVE LeasedLooksTaken'
  BY <1>1, <1>2, <1>3, <1>7 DEF LeaseStep
<1> QED BY <1>4, <1>5, <1>6, <1>7, StateSteps, QuietOrLease

\* While a turn of ours writes a session no phone sees it idle.
THEOREM LeasedCorrect == Spec => []LeasedLooksTaken
<1>1. Init => LeasedLooksTaken
  BY CoreAssumption, InitInv
<1>2. IInv /\ LeasedLooksTaken /\ [Next]_vars => LeasedLooksTaken'
  BY CoreAssumption, LeasedLooksTakenStep
<1> QED BY <1>1, <1>2, Inductive, PTL DEF Spec

-----------------------------------------------------------------------------
(* The registry implements a lock per session.                             *)

\* The holder of a session is the one request in Holders.
LEMMA HolderOf ==
  ASSUME NEW s \in Sessions
  PROVE  /\ Holders(s) = {} => Holder[s] = NoRequest
         /\ \A r \in Requests : Holders(s) = {r} => Holder[s] = r
BY DEF Holder, Holders

\* The same, in the next state.
LEMMA HolderOfNext ==
  ASSUME NEW s \in Sessions
  PROVE  /\ Holders(s)' = {} => Holder'[s] = NoRequest
         /\ \A r \in Requests : Holders(s)' = {r} => Holder'[s] = r
         /\ Holders(s)' = Holders(s) => Holder'[s] = Holder[s]
<1>1. /\ Holder[s] = IF Holders(s) = {} THEN NoRequest
                     ELSE CHOOSE r \in Requests : r \in Holders(s)
      /\ Holder'[s] = IF Holders(s)' = {} THEN NoRequest
                      ELSE CHOOSE r \in Requests : r \in Holders(s)'
  BY DEF Holder
<1>2. \A H : \A r \in Requests :
         H = {r} => (CHOOSE q \in Requests : q \in H) = r
  OBVIOUS
<1>3. \A H, I : H = I => (CHOOSE q \in Requests : q \in H)
                         = (CHOOSE q \in Requests : q \in I)
  OBVIOUS
<1>4. Holders(s)' = {} => Holder'[s] = NoRequest
  BY <1>1
<1>5. ASSUME NEW r \in Requests, Holders(s)' = {r} PROVE Holder'[s] = r
  <2>1. Holder'[s] = CHOOSE q \in Requests : q \in Holders(s)'
    BY <1>1, <1>5
  <2> QED BY <1>2, <1>5, <2>1
<1>6. ASSUME Holders(s)' = Holders(s) PROVE Holder'[s] = Holder[s]
  BY <1>1, <1>3, <1>6
<1> QED BY <1>4, <1>5, <1>6

\* Every step of the gateway is a step of the lock, or none.
LEMMA LockStep ==
  ASSUME CoreAssumption, IInv, [Next]_vars
  PROVE  [Lock!Next]_Holder
<1>f. /\ Holder = [s \in Sessions |-> Holder[s]]
      /\ Holder' = [s \in Sessions |-> Holder'[s]]
  BY DEF Holder
<1>1. CASE Quiet
  <2>1. \A s \in Sessions : Holder'[s] = Holder[s]
    BY <1>1, QuietHolders, HolderOfNext DEF IInv
  <2> QED BY <1>f, <2>1
<1>2. ASSUME NEW r \in Requests, ClaimGranted(r) \/ NewClaimGranted(r),
             NEW s \in Sessions, s = target[r]
      PROVE  Lock!Acquire(r, s)
  <2>1. Holder[s] = NoRequest /\ Holder'[s] = r
    BY <1>2, GrantHolders, HolderOf, HolderOfNext
  <2>2. \A x \in Sessions : x # s => Holder'[x] = Holder[x]
    BY <1>2, GrantHolders, HolderOfNext
  <2>3. ASSUME NEW x \in Sessions PROVE Holder[x] # r
    <3>1. r \notin Holders(x)
      BY <1>2, GrantHolders DEF Holders
    <3>2. CASE Holders(x) = {}
      BY <3>2, HolderOf DEF CoreAssumption
    <3>3. CASE Holders(x) # {}
      <4>1. PICK q \in Holders(x) : TRUE
        BY <3>3
      <4>2. q \in Requests /\ Holders(x) = {q}
        BY <4>1 DEF IInv, WriterIsTheHolder, HolderAgrees, Holders
      <4> QED BY <3>1, <4>2, HolderOf
    <3> QED BY <3>2, <3>3
  <2>4. Holder' = [Holder EXCEPT ![s] = r]
    BY <1>f, <2>1, <2>2
  <2> QED BY <2>1, <2>3, <2>4 DEF Lock!Acquire
<1>3. ASSUME NEW r \in Requests, TurnEnds(r), lease[r],
             NEW s \in Sessions, s = target[r]
      PROVE  Lock!Release(r, s)
  <2>1. Holder[s] = r /\ Holder'[s] = NoRequest
    BY <1>3, ReleaseHolders, HolderOf, HolderOfNext
  <2>2. \A x \in Sessions : x # s => Holder'[x] = Holder[x]
    BY <1>3, ReleaseHolders, HolderOfNext
  <2>3. Holder' = [Holder EXCEPT ![s] = NoRequest]
    BY <1>f, <2>1, <2>2
  <2> QED BY <2>1, <2>3 DEF Lock!Release
<1>4. ASSUME NEW r \in Requests, LeaseStep(r)
      PROVE  [Lock!Next]_Holder
  <2>1. target[r] \in Sessions
    BY <1>4 DEF LeaseStep, IInv, Aimed, ClaimGranted, NewClaimGranted, TurnEnds
  <2>2. CASE ClaimGranted(r) \/ NewClaimGranted(r)
    BY <1>2, <2>1, <2>2 DEF Lock!Next
  <2>3. CASE TurnEnds(r) /\ lease[r]
    BY <1>3, <2>1, <2>3 DEF Lock!Next
  <2>4. CASE TurnEnds(r) /\ ~lease[r]
    BY <1>1, <2>4, UnleasedEnd
  <2> QED BY <1>4, <2>2, <2>3, <2>4 DEF LeaseStep
<1> QED BY <1>1, <1>4, QuietOrLease DEF IInv

\* The gateway implements the lock: one request at a time writes a session.
THEOREM Implements == Spec => RefinesSingleWriter
<1>1. Init => Lock!Init
  <2> SUFFICES ASSUME Init PROVE Lock!Init
    OBVIOUS
  <2>1. \A s \in Sessions : Holders(s) = {}
    BY DEF Init, Holders
  <2> QED BY <2>1 DEF Lock!Init, Holder
<1>2. IInv /\ [Next]_vars => [Lock!Next]_Holder
  BY CoreAssumption, LockStep
<1> QED BY <1>1, <1>2, Inductive, PTL DEF Spec, RefinesSingleWriter, Lock!Spec

-----------------------------------------------------------------------------
(* What a step may never do.                                               *)

\* An unreachable provider's session comes back only by a snapshot of it.
THEOREM OfflineCorrect == Spec => OfflineUntilSnapshot
<1>1. IInv /\ [Next]_vars =>
        [\A s \in Sessions :
           state[s] = "host_offline" /\ state'[s] # "host_offline"
             => \E r \in Requests : target[r] = s /\ pc[r] = "apply"
                                    /\ last'[r].type = "session.snapshot"]_vars
  <2> SUFFICES ASSUME IInv, [Next]_vars, NEW s \in Sessions,
                      state[s] = "host_offline", state'[s] # "host_offline"
               PROVE  \E r \in Requests : target[r] = s /\ pc[r] = "apply"
                                    /\ last'[r].type = "session.snapshot"
    OBVIOUS
  <2> USE DEF IInv, TypeOK
  <2>1. ASSUME NEW r \in Requests, AdapterFails(r) PROVE FALSE
    BY <2>1 DEF AdapterFails, SetHostOffline
  <2>2. ASSUME NEW r \in Requests, ClaimGranted(r) \/ NewClaimGranted(r)
        PROVE  FALSE
    <3>1. state[target[r]] # "host_offline"
      BY <2>2 DEF ClaimGranted, NewClaimGranted, Refuses
    <3> QED BY <2>2, <3>1, GrantHolders, CoreAssumption
  <2>3. ASSUME NEW r \in Requests, TurnEnds(r) PROVE FALSE
    <3>1. CASE lease[r]
      BY <2>3, <3>1, ReleaseHolders, CoreAssumption DEF ReleasedState
    <3>2. CASE ~lease[r]
      BY <2>3, <3>2, UnleasedEnd
    <3> QED BY <3>1, <3>2
  <2>4. ASSUME NEW r \in Requests, ReconcileSnapshot(r)
        PROVE  /\ target[r] = s /\ pc[r] = "apply"
               /\ last'[r].type = "session.snapshot"
    <3>1. target[r] = s /\ pc[r] = "apply"
      BY <2>4 DEF ReconcileSnapshot
    <3>2. last'[r].type = "session.snapshot"
      BY <2>4 DEF ReconcileSnapshot, Emit
    <3> QED BY <3>1, <3>2
  <2> QED BY <2>1, <2>2, <2>3, <2>4, StateSteps DEF LeaseStep
<1> QED BY <1>1, Inductive, PTL DEF Spec, OfflineUntilSnapshot

\* A lease ends with the last event of its turn, and not with a busy session.
THEOREM LeaseEndCorrect == Spec => LeaseEndsWithItsTurn
<1>1. IInv /\ [Next]_vars =>
        [\A s \in Sessions :
           writer[s] # NoOwner /\ writer'[s] # writer[s]
             => /\ state'[s] # "busy"
                /\ \E r \in Holders(s) : pc'[r] = "done"
                                         /\ last'[r].type = "session.state"
                                         /\ last'[r].ref = s]_vars
  <2> SUFFICES ASSUME IInv, [Next]_vars, NEW s \in Sessions,
                      writer[s] # NoOwner, writer'[s] # writer[s]
               PROVE  /\ state'[s] # "busy"
                      /\ \E r \in Holders(s) : pc'[r] = "done"
                                         /\ last'[r].type = "session.state"
                                         /\ last'[r].ref = s
    OBVIOUS
  <2>1. ~Quiet
    BY DEF Quiet
  <2>2. ASSUME NEW r \in Requests, ClaimGranted(r) \/ NewClaimGranted(r)
        PROVE  FALSE
    <3>1. s # target[r]
      BY <2>2 DEF ClaimGranted, NewClaimGranted, Refuses
    <3> QED BY <2>2, <3>1, GrantHolders, CoreAssumption
  <2>3. PICK r \in Requests : TurnEnds(r)
    BY <2>1, <2>2, QuietOrLease DEF LeaseStep, IInv
  <2>4. lease[r]
    BY <2>1, <2>3, UnleasedEnd
  <2>5. s = target[r] /\ r \in Holders(s) /\ state'[s] = ReleasedState(s)
    BY <2>3, <2>4, ReleaseHolders, CoreAssumption
  <2>6. state'[s] # "busy"
    BY <2>5 DEF ReleasedState
  <2>7. pc'[r] = "done" /\ last'[r].type = "session.state" /\ last'[r].ref = s
    BY <2>3, <2>5 DEF TurnEnds, Goto, Emit, IInv, TypeOK
  <2> QED BY <2>5, <2>6, <2>7
<1> QED
  BY <1>1, Inductive, PTL DEF Spec, LeaseEndsWithItsTurn

-----------------------------------------------------------------------------
(* The numbers of the events.                                              *)

\* No event has a number that its route has not reached.
Numbered == \A r \in Requests : last[r].seq <= sequence[last[r].ref]

\* A number is taken by an event, or by a list of the gateway that is dropped.
ListDropped ==
    sequence' = [sequence EXCEPT ![Gateway] = @ + 1] /\ UNCHANGED last

Talks(r) == \E ref \in Route, type \in EventType : Emit(r, ref, type)

\* What a step does to the numbers.
LEMMA NumberSteps ==
  ASSUME TypeOK, Aimed, [Next]_vars
  PROVE  Silent \/ ListDropped \/ \E r \in Requests : Talks(r)
<1> DEFINE Numbers == Silent \/ ListDropped \/ \E r \in Requests : Talks(r)
<1>1. \A type \in {"session.list", "session.snapshot", "session.state",
        "session.new", "session.conflict", "turn.start", "item",
        "provider.status", "error"} : type \in EventType
  BY DEF EventType
<1>2. Gateway \in Route /\ Sessions \subseteq Route
  BY DEF Route
<1>3. CASE UNCHANGED vars
  BY <1>3 DEF vars, Silent
<1>4. ASSUME NEW r \in Requests, Arrivals(r) PROVE Numbers
  <2>1. ASSUME NEW s \in Referable, RequestEmptyTurn(r, s) PROVE Numbers
    <3>1. s \in Route
      BY <1>2, ReferableSessions
    <3> QED BY <1>1, <2>1, <3>1 DEF RequestEmptyTurn, Talks
  <2>2. ASSUME RequestBadNew(r) PROVE Numbers
    BY <1>1, <1>2, <2>2 DEF RequestBadNew, Talks
  <2> QED
    BY <1>4, <2>1, <2>2 DEF Arrivals, RequestList, RequestStatus, RequestNew,
                            RequestSnapshot, RequestTurn
<1>5. ASSUME NEW r \in Requests, AfterAdapter(r) PROVE Numbers
  BY <1>1, <1>2, <1>5 DEF AfterAdapter, Silent, Talks, ListDropped
<1>6. ASSUME NEW r \in Requests, Listing(r) PROVE Numbers
  <2>1. ASSUME Relook(r) PROVE Numbers
    BY <1>1, <1>2, <2>1 DEF Relook, Talks
  <2> QED BY <1>5, <1>6, <2>1 DEF Listing, AdapterLists, AdapterFails
<1>7. ASSUME NEW r \in Requests, pc[r] \in {"claim", "start", "stream", "failed",
               "announce", "newclaim", "apply"}
      PROVE  target[r] \in Route /\ RefusalType(target[r]) \in EventType
  BY <1>1, <1>2, <1>7 DEF Aimed, RefusalType
<1>8. ASSUME NEW r \in Requests, Turn(r) \/ ProviderItem(r) PROVE Numbers
  BY <1>1, <1>7, <1>8 DEF Turn, RejectReadOnly, ClaimRefused, ClaimGranted, TurnStarts,
                          ProviderFails, TurnEnds, ProviderItem, Talks
<1>9. ASSUME NEW r \in Requests, NewSession(r) PROVE Numbers
  <2>1. CASE NewFails(r)
    BY <1>1, <1>2, <2>1 DEF NewFails, Talks
  <2> QED
    BY <1>1, <1>7, <1>9, <2>1 DEF NewSession, ProviderCreates, Announced,
                                  NewClaimGranted, NewClaimRefused, Talks
<1>10. ASSUME NEW r \in Requests, Reading(r) PROVE Numbers
  <2>1. CASE StatusReady(r)
    BY <1>1, <1>2, <2>1 DEF StatusReady, Talks
  <2> QED
    BY <1>1, <1>7, <1>10, <2>1 DEF Reading, ProviderReads, ReadFails,
                                   ReconcileSnapshot, Talks
<1>11. ASSUME NEW o \in Owners, SocketCloses(o) PROVE Numbers
  BY <1>11 DEF SocketCloses, Silent
<1> QED BY <1>3, <1>4, <1>6, <1>8, <1>9, <1>10, <1>11 DEF Next, Progress

\* An event takes the number after the last one of its route.
LEMMA EventNumber ==
  ASSUME TypeOK, NEW r \in Requests, NEW ref \in Route, NEW type \in EventType,
         Emit(r, ref, type)
  PROVE  /\ last'[r].ref = ref /\ last'[r].seq = sequence[ref] + 1
         /\ sequence'[ref] = sequence[ref] + 1 /\ sequence[ref] \in Nat
         /\ \A x \in Route : x # ref => sequence'[x] = sequence[x]
         /\ \A q \in Requests : q # r => last'[q] = last[q]
BY DEF TypeOK, Emit

\* Numbers only grow, so the events stay within them.
LEMMA NumberedStep ==
  ASSUME TypeOK, Aimed, Numbered, [Next]_vars
  PROVE  Numbered'
<1>1. \A q \in Requests : last[q].ref \in Route /\ last[q].seq \in Nat
  BY DEF TypeOK, Event
<1>2. \A x \in Route : sequence[x] \in Nat
  BY DEF TypeOK
<1>3. CASE Silent
  BY <1>3 DEF Silent, Numbered
<1>4. CASE ListDropped
  <2>1. \A x \in Route : sequence'[x] \in {sequence[x], sequence[x] + 1}
    BY <1>4 DEF ListDropped, TypeOK
  <2>2. ASSUME NEW q \in Requests PROVE last'[q].seq <= sequence'[last'[q].ref]
    <3>1. last'[q] = last[q] /\ last[q].seq <= sequence[last[q].ref]
      BY <1>4 DEF ListDropped, Numbered
    <3> QED BY <1>1, <1>2, <2>1, <3>1
  <2> QED BY <2>2 DEF Numbered
<1>5. ASSUME NEW r \in Requests, Talks(r), NEW q \in Requests
      PROVE  last'[q].seq <= sequence'[last'[q].ref]
  <2>1. PICK ref \in Route, type \in EventType : Emit(r, ref, type)
    BY <1>5 DEF Talks
  <2>2. CASE q = r
    BY <2>1, <2>2, EventNumber
  <2>3. CASE q # r
    <3>1. last'[q] = last[q] /\ last[q].seq <= sequence[last[q].ref]
      BY <2>1, <2>3, EventNumber DEF Numbered
    <3>2. sequence'[last[q].ref] \in {sequence[last[q].ref], sequence[last[q].ref] + 1}
      BY <1>1, <2>1, EventNumber
    <3> QED BY <1>1, <1>2, <3>1, <3>2
  <2> QED BY <2>2, <2>3
<1> QED BY <1>3, <1>4, <1>5, NumberSteps DEF Numbered

\* NoSequenceGap: each number of a session is the one after the last, and an
\* event of that session carries it (createEvent), whatever the requests do
\* at the same time; only the gateway's own route loses numbers, to the lists
\* that ensureKnown drops.
THEOREM NoGapCorrect == Spec => NoSequenceGap
<1>1. Init => Numbered
  BY DEF Init, Numbered, NoEvent, Route
<1>2. IInv /\ Numbered /\ [Next]_vars => Numbered'
  BY NumberedStep DEF IInv
<1>3. IInv /\ Numbered /\ [Next]_vars =>
        [\A s \in Sessions :
           sequence'[s] # sequence[s]
             => /\ sequence'[s] = sequence[s] + 1
                /\ \E r \in Requests : /\ last'[r] # last[r]
                                       /\ last'[r].ref = s
                                       /\ last'[r].seq = sequence'[s]]_vars
  <2> SUFFICES ASSUME IInv, Numbered, [Next]_vars, NEW s \in Sessions,
                      sequence'[s] # sequence[s]
               PROVE  /\ sequence'[s] = sequence[s] + 1
                      /\ \E r \in Requests : /\ last'[r] # last[r]
                                             /\ last'[r].ref = s
                                             /\ last'[r].seq = sequence'[s]
    OBVIOUS
  <2>1. TypeOK /\ Aimed
    BY DEF IInv
  <2>2. s \in Route /\ s # Gateway
    BY CoreAssumption DEF CoreAssumption, Route
  <2>3. ~Silent /\ ~ListDropped
    BY <2>1, <2>2 DEF Silent, ListDropped, TypeOK
  <2>4. PICK r \in Requests, ref \in Route, type \in EventType : Emit(r, ref, type)
    BY <2>1, <2>3, NumberSteps DEF Talks
  <2>5. ref = s
    BY <2>1, <2>2, <2>4, EventNumber
  <2>6. /\ sequence'[s] = sequence[s] + 1 /\ sequence[s] \in Nat
        /\ last'[r].ref = s /\ last'[r].seq = sequence[s] + 1
    BY <2>1, <2>4, <2>5, EventNumber
  <2>7. last'[r] # last[r]
    <3>1. last[r].seq <= sequence[last[r].ref] /\ last[r].seq \in Nat
      BY <2>1 DEF Numbered, TypeOK, Event
    <3>2. last[r].ref = s => last[r].seq # sequence[s] + 1
      BY <2>6, <3>1
    <3> QED BY <2>6, <3>2
  <2> QED BY <2>6, <2>7
<1> QED BY <1>1, <1>2, <1>3, Inductive, PTL DEF Spec, NoSequenceGap
=============================================================================
