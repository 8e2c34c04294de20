---------------------------- MODULE ProviderTurns ----------------------------
(***************************************************************************)
(* A call of one of the two provider adapters, as the gateway makes it,    *)
(* and the contract of TurnStream that both implement.                     *)
(***************************************************************************)
EXTENDS ClaudeTurn, CodexTurn

vars == <<callVars, claudeVars, codexVars>>

TypeOK ==
    /\ provider \in {"claude", "codex"}
    /\ kind \in Turns \cup {"call"} /\ allowed \in BOOLEAN
    /\ result \in {"open", "done", "failed"}
    /\ ClaudeTypeOK
    /\ CodexTypeOK

\* The listings and snapshots of Claude are single calls of the SDK.
Init ==
    /\ CallInit /\ ClaudeInit /\ CodexInit
    /\ provider = "claude" => kind \in Turns
    /\ provider = "codex" => mode = "default"

Claude(A) == provider = "claude" /\ A /\ UNCHANGED codexVars
Codex(A) == provider = "codex" /\ A /\ UNCHANGED claudeVars

Next ==
    \/ Claude(ClaudeNext)
    \/ Codex(CodexNext)

Spec == Init /\ [][Next]_vars

\* The event loop runs what is due, the timers fire.  Of the SDK it is assumed
\* that it answers the lookup and ends a turn none of whose tools waits; of
\* the app-server nothing but that it starts or fails to.
FairSpec ==
    /\ Spec
    /\ WF_vars(Claude(Generator)) /\ WF_vars(Claude(StreamEnds))
    /\ \A p \in Prompts : WF_vars(Claude(PromptTimesOut(p)))
    /\ WF_vars(Codex(Caller)) /\ WF_vars(Codex(DeadlinePasses))
    /\ WF_vars(Codex(TimeoutFires /\ UNCHANGED <<callVars, pc, late>>))

-----------------------------------------------------------------------------
produced == IF provider = "claude" THEN ClaudeProduced ELSE CodexProduced
complete == IF provider = "claude" THEN channel.closed ELSE CodexComplete

Stream == INSTANCE TurnStream

\* Both adapters hand over what was produced in order, nothing lost and
\* nothing twice, and end only when all of it was handed over: across the
\* queue of the channel, the buffer and replay of the notifications, the end
\* of the stream with events queued, and the deadline.
Contract == Stream!Spec

\* "The first emitted event must be session.new" (provider-adapter.ts): a
\* call that makes a session announces it before any item or status of it, and
\* once.  The adapters do not hold back a prompt that the SDK raises earlier.
AnnouncedFirst ==
    \A i \in DOMAIN taken :
        LET before == {taken[j].type : j \in 1 .. i - 1} IN
        CASE taken[i].type = "session.new" ->
               kind = "new" /\ before \subseteq {"approval.request"}
          [] taken[i].type = "approval.request" -> TRUE
          [] OTHER -> kind = "new" => "session.new" \in before

\* Every call ends: with prompts nobody answers, an app-server that is silent
\* or dead, a consumer that waits when the stream is closed.  (The gateway
\* holds the lease of the session until then.)
TurnsEnd == (result = "open") ~> (result # "open")
===============================================================================
