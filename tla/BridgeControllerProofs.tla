----------------------- MODULE BridgeControllerProofs -----------------------
(***************************************************************************)
(* The port of the machine and the controllers that believe they serve it, *)
(* for any number of windows and of calls under way.                       *)
(***************************************************************************)
EXTENDS BridgeController, TLAPS

\* A call whose socket listens and whose continuation has not run yet: the
\* port is its window's, the window has no server, and no other call is there.
ListeningIsAlone ==
    \A c \in Calls :
      pc[c] = "listening" =>
        /\ bound = WindowOf[c] /\ ~server[WindowOf[c]]
        /\ \A d \in Calls : pc[d] = "listening" => d = c

\* Calls and servers live in windows that are open.
LivesInOpen ==
    /\ \A c \in Calls : pc[c] # "idle" => open[WindowOf[c]]
    /\ \A w \in Windows : server[w] => open[w]

PortInv == ServingOwnsPort /\ PortHasOwner /\ ListeningIsAlone /\ LivesInOpen

IInv == TypeOK /\ PortInv

USE DEF BridgeAssumption, Control, Put, Goto, Done

-----------------------------------------------------------------------------
\* The initial states satisfy the invariant: nothing runs, nothing is bound.
LEMMA InitInv == Init => IInv
BY BridgeAssumption DEF Init, IInv, TypeOK, PortInv, ServingOwnsPort,
   PortHasOwner, ListeningIsAlone, LivesInOpen

\* Each step keeps the types.
LEMMA TypeStep == TypeOK /\ [Next]_vars => TypeOK'
<1> SUFFICES ASSUME TypeOK, [Next]_vars PROVE TypeOK'
    OBVIOUS
<1> USE BridgeAssumption DEF TypeOK
<1>1. ASSUME NEW c \in Calls, EnterStart(c), takeover' = takeover,
             events' \in 0 .. MaxEvents
      PROVE TypeOK'
      BY <1>1 DEF EnterStart
<1>2. ASSUME NEW c \in Calls, CommandStart(c) PROVE TypeOK'
      BY <1>1, <1>2 DEF CommandStart, Event
<1>3. ASSUME NEW c \in Calls, CommandDisconnectAll(c) PROVE TypeOK'
      BY <1>3 DEF CommandDisconnectAll, StopNow, Event
<1>4. ASSUME NEW c \in Calls, ReadToken(c) PROVE TypeOK'
      BY <1>4 DEF ReadToken, controllers
<1>5. ASSUME NEW c \in Calls, MintToken(c) PROVE TypeOK'
      BY <1>5 DEF MintToken, StoreFresh, controllers
<1>6. ASSUME NEW c \in Calls, BuildAndBind(c) PROVE TypeOK'
      BY <1>6 DEF BuildAndBind, controllers
<1>7. ASSUME NEW c \in Calls, Listening(c) PROVE TypeOK'
      BY <1>7 DEF Listening
<1>8. ASSUME NEW c \in Calls, DiscoveryReady(c) PROVE TypeOK'
      BY <1>8 DEF DiscoveryReady
<1>9. ASSUME NEW c \in Calls, StandBy(c) PROVE TypeOK'
      BY <1>9 DEF StandBy
<1>10. ASSUME NEW c \in Calls, RotateToken(c) PROVE TypeOK'
      BY <1>10 DEF RotateToken, StoreFresh, controllers
<1>11. ASSUME NEW c \in Calls, Restart(c) PROVE TypeOK'
  <2>1. CASE server[WindowOf[c]]
    <3>1. /\ Done(c) /\ UNCHANGED stoppedByUser
          /\ UNCHANGED <<open, server, takeover, served, turn, oldTurn, bound,
                         token, minted, events>>
          BY <1>11, <2>1 DEF Restart
    <3> QED BY <3>1
  <2>2. CASE ~server[WindowOf[c]]
        BY <1>11, <2>2 DEF Restart
  <2> HIDE DEF TypeOK
  <2> QED BY <2>1, <2>2
<1>12. ASSUME NEW c \in Calls, TakeoverTick(c) PROVE TypeOK'
      BY <1>1, <1>12 DEF TakeoverTick
<1>13. ASSUME NEW c \in Calls, HealthTick(c) PROVE TypeOK'
      BY <1>1, <1>13 DEF HealthTick
<1>14. ASSUME NEW w \in Windows, TakeoverCleared(w) PROVE TypeOK'
      BY <1>14 DEF TakeoverCleared
<1>15. ASSUME NEW w \in Windows, CommandStop(w) PROVE TypeOK'
      BY <1>15 DEF CommandStop, StopNow, Event
<1>16. ASSUME NEW w \in Windows, WindowCloses(w) PROVE TypeOK'
      BY <1>16 DEF WindowCloses, Event
<1>17. ASSUME NEW w \in Windows, WindowOpens(w) PROVE TypeOK'
      BY <1>17 DEF WindowOpens, Event
<1>18. ASSUME NEW w \in Windows, TurnBegins(w) PROVE TypeOK'
      BY <1>18 DEF TurnBegins, Event
<1>19. ASSUME NEW w \in Windows, TurnFinishes(w) PROVE TypeOK'
      BY <1>19 DEF TurnFinishes
<1>20. ASSUME NEW c \in Calls, BindFails(c) \/ SecretsReject(c) PROVE TypeOK'
  <2>1. /\ Done(c) /\ UNCHANGED controllers /\ UNCHANGED <<bound, token, minted>>
        /\ events < MaxEvents /\ events' = events + 1
        BY <1>20 DEF BindFails, SecretsReject, Event
  <2>2. /\ pc' = [pc EXCEPT ![c] = "idle"]
        /\ rotating' = [rotating EXCEPT ![c] = FALSE] /\ tok' = [tok EXCEPT ![c] = 0]
        BY <2>1
  <2> QED BY <2>1, <2>2 DEF controllers
<1>21. ASSUME UNCHANGED vars PROVE TypeOK'
      BY <1>21 DEF vars
<1> HIDE DEF TypeOK
<1>22. ASSUME NEW c \in Calls, CallStep(c) PROVE TypeOK'
      BY <1>4, <1>5, <1>6, <1>7, <1>8, <1>9, <1>10, <1>11, <1>22 DEF CallStep
<1>23. ASSUME NEW w \in Windows, Timers(w) PROVE TypeOK'
      BY <1>12, <1>13, <1>14, <1>23 DEF Timers
<1> QED
    BY <1>2, <1>3, <1>15, <1>16, <1>17, <1>18, <1>19, <1>20, <1>21, <1>22, <1>23
    DEF Next

\* A step that leaves ports, servers and windows alone, and whose calls move
\* among labels other than "listening", keeps the invariant.
LEMMA QuietStep ==
    ASSUME TypeOK, PortInv, UNCHANGED <<open, server, bound>>,
           \A c \in Calls : pc'[c] = "listening" <=> pc[c] = "listening",
           \A c \in Calls : pc'[c] # "idle" => open[WindowOf[c]]
    PROVE  PortInv'
BY BridgeAssumption DEF PortInv, ServingOwnsPort, PortHasOwner,
   ListeningIsAlone, LivesInOpen

\* Each step keeps the port with its owner.
LEMMA PortStep == IInv /\ [Next]_vars => PortInv'
<1> SUFFICES ASSUME TypeOK, PortInv, [Next]_vars PROVE PortInv'
    BY DEF IInv
<1> USE BridgeAssumption
<1>1. ASSUME NEW c \in Calls, EnterStart(c) PROVE PortInv'
      BY <1>1, QuietStep DEF EnterStart, IsFree, TypeOK, PortInv, LivesInOpen
<1>3. ASSUME NEW c \in Calls, NEW v \in Windows, open[v], StopNow(v),
             \A d \in Calls : pc'[d] = "listening" <=> pc[d] = "listening",
             \A d \in Calls : pc'[d] # "idle" => open[WindowOf[d]]
      PROVE PortInv'
      BY <1>3 DEF StopNow, TypeOK, PortInv, ServingOwnsPort, PortHasOwner,
                  ListeningIsAlone, LivesInOpen
<1>4. ASSUME NEW c \in Calls, ReadToken(c) PROVE PortInv'
      BY <1>4, QuietStep DEF ReadToken, controllers, TypeOK, PortInv, LivesInOpen
<1>5. ASSUME NEW c \in Calls, MintToken(c) PROVE PortInv'
      BY <1>5, QuietStep DEF MintToken, controllers, TypeOK, PortInv, LivesInOpen
<1>6. ASSUME NEW c \in Calls, BuildAndBind(c) PROVE PortInv'
  <2>1. CASE bound = NoWindow
        BY <1>6, <2>1 DEF BuildAndBind, controllers, TypeOK, PortInv,
           ServingOwnsPort, PortHasOwner, ListeningIsAlone, LivesInOpen
  <2>2. CASE bound # NoWindow
        BY <1>6, <2>2, QuietStep DEF BuildAndBind, controllers, TypeOK,
           PortInv, LivesInOpen
  <2> QED BY <2>1, <2>2
<1>7. ASSUME NEW c \in Calls, Listening(c) PROVE PortInv'
      BY <1>7 DEF Listening, TypeOK, PortInv, ServingOwnsPort, PortHasOwner,
                  ListeningIsAlone, LivesInOpen
<1>8. ASSUME NEW c \in Calls, DiscoveryReady(c) PROVE PortInv'
      BY <1>8, QuietStep DEF DiscoveryReady, TypeOK, PortInv, LivesInOpen
<1>9. ASSUME NEW c \in Calls, StandBy(c) PROVE PortInv'
      BY <1>9, QuietStep DEF StandBy, TypeOK, PortInv, LivesInOpen
<1>10. ASSUME NEW c \in Calls, RotateToken(c) PROVE PortInv'
      BY <1>10, QuietStep DEF RotateToken, controllers, TypeOK, PortInv, LivesInOpen
<1>11. ASSUME NEW c \in Calls, Restart(c) PROVE PortInv'
      BY <1>11, QuietStep DEF Restart, TypeOK, PortInv, LivesInOpen
<1>12. ASSUME NEW c \in Calls, CommandDisconnectAll(c) PROVE PortInv'
      BY <1>3, <1>12 DEF CommandDisconnectAll, IsFree, TypeOK, PortInv, LivesInOpen
<1>14. ASSUME NEW w \in Windows, TakeoverCleared(w) PROVE PortInv'
      BY <1>14, QuietStep DEF TakeoverCleared, PortInv, LivesInOpen
<1>15. ASSUME NEW w \in Windows, CommandStop(w) PROVE PortInv'
      BY <1>15 DEF CommandStop, StopNow, TypeOK, PortInv, ServingOwnsPort,
                   PortHasOwner, ListeningIsAlone, LivesInOpen
<1>16. ASSUME NEW w \in Windows, WindowCloses(w) PROVE PortInv'
      BY <1>16 DEF WindowCloses, TypeOK, PortInv, ServingOwnsPort,
                   PortHasOwner, ListeningIsAlone, LivesInOpen
<1>17. ASSUME NEW w \in Windows, WindowOpens(w) PROVE PortInv'
      BY <1>17 DEF WindowOpens, TypeOK, PortInv, ServingOwnsPort,
                   PortHasOwner, ListeningIsAlone, LivesInOpen
<1>18. ASSUME NEW w \in Windows, TurnBegins(w) \/ TurnFinishes(w) PROVE PortInv'
      BY <1>18, QuietStep DEF TurnBegins, TurnFinishes, PortInv, LivesInOpen
<1>19. ASSUME NEW c \in Calls, BindFails(c) \/ SecretsReject(c) PROVE PortInv'
      BY <1>19, QuietStep DEF BindFails, SecretsReject, SecretCalls, controllers,
                              TypeOK, PortInv, LivesInOpen
<1>20. ASSUME UNCHANGED vars PROVE PortInv'
      BY <1>20, QuietStep DEF vars, PortInv, LivesInOpen
<1> QED
    BY <1>1, <1>4, <1>5, <1>6, <1>7, <1>8, <1>9, <1>10, <1>11, <1>12, <1>14,
       <1>15, <1>16, <1>17, <1>18, <1>19, <1>20
    DEF Next, CallStep, Timers, CommandStart, TakeoverTick, HealthTick

\* The invariant of the windows, their calls and the port.
THEOREM PortInductive == Spec => []IInv
<1>1. IInv /\ [Next]_vars => IInv'
      BY TypeStep, PortStep DEF IInv
<1> QED BY InitInv, <1>1, PTL DEF Spec

\* Every variable of BridgeController keeps its type.
THEOREM BridgeTypeCorrect == Spec => []TypeOK
<1>1. IInv => TypeOK
      BY DEF IInv
<1> QED BY <1>1, PortInductive, PTL

\* At most one window serves, and it owns the port, for any number of
\* windows and of concurrent starts and stops (start and stop of extension.ts).
THEOREM OneWindowServes == Spec => []ServingOwnsPort
<1>1. IInv => ServingOwnsPort
      BY DEF IInv, PortInv
<1> QED BY <1>1, PortInductive, PTL

\* No listening socket is lost: stop reaches it, or a start under way hands
\* it to its controller.
THEOREM PortNeverLost == Spec => []PortHasOwner
<1>1. IInv => PortHasOwner
      BY DEF IInv, PortInv
<1> QED BY <1>1, PortInductive, PTL
=============================================================================
