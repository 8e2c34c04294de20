------------------------------ MODULE CodexTurn ------------------------------
(***************************************************************************)
(* A call of CodexReadOnlyAdapter on AppServerCodexSource: each call has   *)
(* an app-server of its own, started for it and closed at its end, however *)
(* it ends.  pc names the await the call is at.                            *)
(***************************************************************************)
EXTENDS TurnCall, JsonRpcProcess

VARIABLES
    pc,
    late  \* the ten minutes of the turn are over

codexVars == <<rpcVars, pc, late>>

Awaiting == {"initialize", "request", "thread", "turn/start"}

CodexTypeOK ==
    /\ RpcTypeOK
    /\ pc \in Awaiting \cup {"ready", "spawn", "announced", "streaming",
                             "finishing", "over"}
    /\ late \in BOOLEAN
    /\ (pc \in {"ready", "spawn"}) => child = "none"

CodexInit == RpcInit /\ pc = "ready" /\ late = FALSE

\* The finally clauses, and the end of the generator or of the promise.
CloseAndReturn == UnsubscribeAndClose /\ Return /\ pc' = "over"
CloseAndThrow == UnsubscribeAndClose /\ Throw /\ pc' = "over"

\* The next request of the sequence, which throws when the process is closed.
RequestNext(name) ==
    IF child = "closed"
    THEN CloseAndThrow
    ELSE /\ pc' = name
         /\ SendRequest
         /\ IF name = "turn/start" THEN Subscribe ELSE UNCHANGED <<listening, queue>>
         /\ UNCHANGED <<callVars, child, killed, stdout, notifications>>

-----------------------------------------------------------------------------
CodexCall ==
    /\ pc = "ready"
    /\ IF Refused THEN Throw /\ pc' = "over"
                  ELSE UNCHANGED callVars /\ pc' = "spawn"
    /\ UNCHANGED <<rpcVars, late>>

\* startAppServer: the process is spawned and asked to initialize.
Spawned ==
    /\ pc = "spawn"
    /\ StartAndRequest
    /\ pc' = "initialize"
    /\ UNCHANGED <<callVars, late>>

\* No executable, or it does not start.
SpawnFails ==
    /\ pc = "spawn"
    /\ Throw /\ pc' = "over"
    /\ UNCHANGED <<rpcVars, late>>

\* "initialized" is notified, then comes the request of the call.
Initialized ==
    /\ pc = "initialize" /\ settled = "ok"
    /\ RequestNext(IF kind = "call" THEN "request" ELSE "thread")
    /\ late' = late

CallAnswered ==
    /\ pc = "request" /\ settled = "ok"
    /\ CloseAndReturn
    /\ late' = late

\* thread/resume: on to the turn.
Resumed ==
    /\ pc = "thread" /\ kind = "turn" /\ settled = "ok"
    /\ RequestNext("turn/start")
    /\ late' = late

\* thread/start: the new session is announced before its turn begins.
ThreadStarted ==
    /\ pc = "thread" /\ kind = "new" /\ settled = "ok"
    /\ Receive(<<Announcement>>)
    /\ pc' = "announced" /\ settled' = "none"
    /\ UNCHANGED <<late, child, killed, inbox, stdout, nextId, pending,
                   notifications, listening, queue>>

BeginTurn ==
    /\ pc = "announced"
    /\ RequestNext("turn/start")
    /\ late' = late

TurnStarted ==
    /\ pc = "turn/start" /\ settled = "ok"
    /\ pc' = "streaming" /\ settled' = "none"
    /\ UNCHANGED <<callVars, late, child, killed, inbox, stdout, nextId,
                   pending, notifications, listening, queue>>

\* Without the close in the catch of startAppServer.
RequestFailsLeavingChild ==
    /\ pc \in Awaiting /\ settled \in {"error", "rejected"}
    /\ IF pc = "initialize"
       THEN /\ Throw /\ pc' = "over" /\ settled' = "none"
            /\ UNCHANGED <<child, killed, inbox, stdout, nextId, pending,
                           notifications, listening, queue>>
       ELSE CloseAndThrow
    /\ late' = late

\* An error in the answer (or no thread id in it), a time-out, the end of the
\* process: all are thrown through the finally or catch that closes it.
RequestFails ==
    /\ pc \in Awaiting /\ settled \in {"error", "rejected"}
    /\ CloseAndThrow
    /\ late' = late

-----------------------------------------------------------------------------
(* streamTurn.                                                             *)

Ends(note) == note.method \in {"turn/completed", "turn/failed"}

\* mapCodexNotification: turn/failed, like everything without an item, is
\* mapped to no event.
Mapped(note) ==
    CASE note.method = "turn/completed" -> <<[type |-> "turn.status"]>>
      [] note.method = "item" -> <<[type |-> "item.complete", item |-> note.item]>>
      [] OTHER -> <<>>

TakeNotification ==
    /\ pc = "streaming" /\ queue # <<>>
    /\ Receive(Mapped(Head(queue)))
    /\ queue' = Tail(queue)
    /\ pc' = IF Ends(Head(queue)) THEN "finishing" ELSE pc
    /\ UNCHANGED <<late, child, killed, inbox, stdout, nextId, pending,
                   settled, notifications, listening>>

FinishTurn ==
    /\ pc = "finishing"
    /\ CloseAndReturn
    /\ late' = late

DeadlinePasses ==
    /\ pc = "streaming" /\ ~late
    /\ late' = TRUE
    /\ UNCHANGED <<callVars, rpcVars, pc>>

\* The deadline is looked at only when nothing is queued (the wait for more
\* ends every second).
DeadlineThrows ==
    /\ pc = "streaming" /\ queue = <<>> /\ late
    /\ CloseAndThrow
    /\ late' = late

ProcessSteps ==
    /\ \/ ReadLine \/ TimeoutFires \/ ChildCloses \/ ChildDies
       \/ \E id \in inbox, ok \in BOOLEAN : ChildAnswers(id, ok)
       \/ ChildNotifies("item")
       \/ /\ pc \in {"turn/start", "streaming"}
          /\ \E method \in {"turn/completed", "turn/failed"} :
                ChildNotifies(method)
    /\ UNCHANGED <<callVars, pc, late>>

\* The steps of the call, of which at most one is possible, apart from the
\* choice between Spawned and SpawnFails.
Caller ==
    \/ CodexCall \/ Spawned \/ SpawnFails
    \/ Initialized \/ CallAnswered \/ Resumed \/ ThreadStarted \/ BeginTurn
    \/ TurnStarted \/ RequestFails
    \/ TakeNotification \/ FinishTurn \/ DeadlineThrows

CodexNext == Caller \/ DeadlinePasses \/ ProcessSteps

\* The notifications that are events of the turn: each that is mapped to one,
\* up to the notification that ends the turn.
Streamed ==
    {i \in DOMAIN notifications : /\ Mapped(notifications[i]) # <<>>
                                  /\ \A j \in 1 .. i - 1 : ~Ends(notifications[j])}

\* The events of everything the process has notified, once the turn streams:
\* whatever was read from the output belongs to it, also what came before the
\* subscription.
CodexProduced ==
    IF pc \in {"streaming", "finishing"} \/ (result = "done" /\ kind # "call")
    THEN (IF kind = "new" THEN <<Announcement>> ELSE <<>>)
         \o [i \in Streamed |-> Head(Mapped(notifications[i]))]
    ELSE taken

CodexComplete ==
    \/ pc = "finishing" \/ result = "done"
    \/ pc = "streaming" /\ \E i \in DOMAIN notifications : Ends(notifications[i])
    \/ pc = "request" /\ settled = "ok"

\* No app-server outlives the call it was started for: when the call is over,
\* in whatever way, its process has been signalled or was gone before.
NoChildLeft == result # "open" => child \in {"none", "gone", "closed"} \/ killed
===============================================================================
