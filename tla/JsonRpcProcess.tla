---------------------------- MODULE JsonRpcProcess ----------------------------
(***************************************************************************)
(* JsonRpcProcess: the app-server as a child process, and the client that  *)
(* matches the lines of its output with the requests that wait for them.   *)
(* The child is external: it may answer, notify, stay silent or die.  A    *)
(* line is [id, ok, method, item], with id 0 for a notification.           *)
(*                                                                         *)
(* The caller awaits one request at a time.  Between the settling of its   *)
(* promise and its continuation only further lines of the same chunk are   *)
(* read: the timers and the events of the process wait (settled = "none"). *)
(***************************************************************************)
EXTENDS Naturals, Sequences, FiniteSets, SequencesExt

CONSTANT MaxNotes  \* bound: the notifications a child writes

VARIABLES
    child,          \* "none", "running", "gone", then "closed" when noticed
    killed,         \* close() sent it a signal
    inbox,          \* requests it has not answered
    stdout,         \* lines it wrote and the client has not read
    nextId,
    pending,        \* ids with a timer and a promise
    settled,        \* how the awaited request ended: "ok", "error", "rejected"
    notifications,  \* all notifications read so far
    listening,      \* a listener is subscribed
    queue           \* what the listener was given and has not used

rpcVars == <<child, killed, inbox, stdout, nextId, pending, settled,
             notifications, listening, queue>>

Reply(id, ok) == [id |-> id, ok |-> ok, method |-> "none", item |-> 0]
Note(method, item) == [id |-> 0, ok |-> TRUE, method |-> method, item |-> item]

RpcTypeOK ==
    /\ child \in {"none", "running", "gone", "closed"}
    /\ killed \in BOOLEAN /\ listening \in BOOLEAN
    /\ inbox \subseteq 1 .. nextId - 1
    /\ pending \subseteq 1 .. nextId - 1 /\ Cardinality(pending) <= 1
    /\ pending # {} => settled = "none"
    /\ settled \in {"none", "ok", "error", "rejected"}
    /\ nextId \in 1 .. 4

RpcInit ==
    /\ child = "none" /\ killed = FALSE
    /\ inbox = {} /\ stdout = <<>>
    /\ nextId = 1 /\ pending = {} /\ settled = "none"
    /\ notifications = <<>> /\ listening = FALSE /\ queue = <<>>

-----------------------------------------------------------------------------
(* The methods, as parts of the caller's actions.                          *)

\* request: registered, and written to the child (whose end of the pipe may
\* be gone already; the close event will reject it).
SendRequest ==
    /\ nextId' = nextId + 1
    /\ pending' = pending \cup {nextId}
    /\ inbox' = IF child = "running" THEN inbox \cup {nextId} ELSE inbox
    /\ settled' = "none"

\* start, and the first request on the new process.
StartAndRequest ==
    /\ child' = "running"
    /\ nextId' = nextId + 1
    /\ pending' = pending \cup {nextId}
    /\ inbox' = inbox \cup {nextId}
    /\ settled' = "none"
    /\ UNCHANGED <<killed, stdout, notifications, listening, queue>>

\* A listener that is not given what was read before it subscribed.
SubscribeToNew ==
    /\ listening' = TRUE
    /\ queue' = queue

\* onNotification: the buffered notifications are replayed.
Subscribe ==
    /\ listening' = TRUE
    /\ queue' = notifications

\* unsubscribe and close: the listener is removed, the child is signalled
\* unless its end was noticed.
UnsubscribeAndClose ==
    /\ listening' = FALSE /\ queue' = <<>>
    /\ killed' = (killed \/ child \in {"running", "gone"})
    /\ settled' = "none"
    /\ UNCHANGED <<child, inbox, stdout, nextId, pending, notifications>>

-----------------------------------------------------------------------------
(* The callbacks.                                                          *)

\* One line of consume.  A response without a pending request, one that timed
\* out, is dropped; a notification goes to the buffer and to the listener.
ReadLine ==
    /\ stdout # <<>>
    /\ stdout' = Tail(stdout)
    /\ LET line == Head(stdout)
       IN  IF line.id # 0
           THEN /\ pending' = pending \ {line.id}
                /\ settled' = IF line.id \notin pending THEN settled
                              ELSE IF line.ok THEN "ok" ELSE "error"
                /\ UNCHANGED <<notifications, queue>>
           ELSE /\ notifications' = Append(notifications, line)
                /\ queue' = IF listening THEN Append(queue, line) ELSE queue
                /\ UNCHANGED <<pending, settled>>
    /\ UNCHANGED <<child, killed, inbox, nextId, listening>>

\* The timer of a request; without it a silent child would be awaited for ever.
TimeoutFires ==
    /\ pending # {}
    /\ pending' = {}
    /\ settled' = "rejected"
    /\ UNCHANGED <<child, killed, inbox, stdout, nextId, notifications,
                   listening, queue>>

\* The close event comes after the end of the output; failAll.
ChildCloses ==
    /\ child = "gone" /\ stdout = <<>> /\ settled = "none"
    /\ child' = "closed"
    /\ settled' = IF pending # {} THEN "rejected" ELSE settled
    /\ pending' = {}
    /\ UNCHANGED <<killed, inbox, stdout, nextId, notifications, listening,
                   queue>>

-----------------------------------------------------------------------------
(* The child.  What it writes after the signal of close() is left out: the *)
(* call it was started for is over, and nobody listens.                    *)

ChildAnswers(id, ok) ==
    /\ child = "running" /\ ~killed /\ id \in inbox
    /\ inbox' = inbox \ {id}
    /\ stdout' = Append(stdout, Reply(id, ok))
    /\ UNCHANGED <<child, killed, nextId, pending, settled, notifications,
                   listening, queue>>

\* The items of the notifications are numbered.
ChildNotifies(method) ==
    /\ child = "running" /\ ~killed
    /\ LET unread == {i \in DOMAIN stdout : stdout[i].id = 0}
           count == Len(notifications) + Cardinality(unread)
       IN  /\ count < MaxNotes
           /\ stdout' = Append(stdout, Note(method, count + 1))
    /\ UNCHANGED <<child, killed, inbox, nextId, pending, settled,
                   notifications, listening, queue>>

ChildDies ==
    /\ child = "running"
    /\ child' = "gone" /\ inbox' = {}
    /\ UNCHANGED <<killed, stdout, nextId, pending, settled, notifications,
                   listening, queue>>
===============================================================================
