------------------------------ MODULE ClaudeTurn ------------------------------
(***************************************************************************)
(* A turn of ClaudeReadOnlyAdapter: startTurn, startNewSession, runTurn,   *)
(* and the prompts of the running tools, which askPhone and the hook of    *)
(* AskUserQuestion send through the turn's channel to the phone.  Four     *)
(* parties settle a prompt or end the turn in any order: the SDK (external *)
(* code: its stream, its callbacks, its abort signals), the phone, the     *)
(* five-minute timer of a prompt, and the consumer of the events.          *)
(***************************************************************************)
EXTENDS TurnCall, EventChannel, ClaudeTranscript

CONSTANTS
    Messages,   \* what the SDK may stream, each message at most once
    MaxMessages, \* bound: the messages of one turn
    Prompts,    \* the prompts it may raise, each at most once
    Questions   \* those that are calls of AskUserQuestion

ASSUME PromptAssumption == Questions \subseteq Prompts

\* The items of a message are a finite sequence.
ASSUME MessageAssumption ==
    \A m \in Messages : LET items == Normalize(<<LiveMessage(m)>>)
                        IN  items \in Seq(ToSet(items))

VARIABLES
    mode,       \* permissionMode: "askOnPhone", or one the CLI decides by
    step,       \* how far the generator is: "ready", "lookup", "streaming"
    channel,
    received,   \* what the SDK has streamed
    verdict,    \* what the tool of a prompt was told, "asked" until then
    pendingApprovals,
    timers,     \* the prompts whose timer is armed
    answered    \* what the phone answered, where resolveApproval said true

claudeVars == <<mode, step, channel, received, verdict, pendingApprovals,
                timers, answered>>
promptVars == <<verdict, pendingApprovals, timers, answered>>

ClaudeTypeOK ==
    /\ mode \in {"askOnPhone", "default"}
    /\ step \in {"ready", "lookup", "streaming"}
    /\ Len(channel.onTheWay) <= 1
    /\ channel.waiting => Contents(channel) = <<>> /\ ~channel.closed
    /\ verdict \in [Prompts -> {"none", "asked", "allow", "deny"}]
    /\ pendingApprovals \subseteq Prompts /\ timers \subseteq Prompts
    /\ answered \in [Prompts -> {"none", "allow", "deny"}]

ClaudeInit ==
    /\ mode \in {"askOnPhone", "default"}
    /\ step = "ready"
    /\ channel = Opened
    /\ received = <<>>
    /\ verdict = [p \in Prompts |-> "none"]
    /\ pendingApprovals = {} /\ timers = {}
    /\ answered = [p \in Prompts |-> "none"]

-----------------------------------------------------------------------------
(* The call, and the stream of the SDK.                                    *)

ClaudeCall ==
    /\ step = "ready" /\ result = "open"
    /\ IF Refused
       THEN Throw /\ UNCHANGED step
       ELSE /\ step' = IF kind = "turn" THEN "lookup" ELSE "streaming"
            /\ UNCHANGED callVars
    /\ UNCHANGED <<mode, channel, received, promptVars>>

\* getSessionInfo answers, or throws.
LookupAnswers ==
    /\ step = "lookup" /\ result = "open"
    /\ step' = "streaming"
    /\ UNCHANGED <<callVars, mode, channel, received, promptVars>>

LookupFails ==
    /\ step = "lookup" /\ result = "open"
    /\ Throw
    /\ UNCHANGED claudeVars

Running == step = "streaming" /\ ~channel.closed

\* The events of the first message before the announcement.
AnnouncedLate(m) ==
    StreamEvents(m) \o
    IF kind = "new" /\ received = <<>> THEN <<Announcement>> ELSE <<>>

\* The first message of a new session names it (every message of the SDK has
\* a session_id).
MessageEvents(m) ==
    (IF kind = "new" /\ received = <<>> THEN <<Announcement>> ELSE <<>>)
    \o StreamEvents(m)

\* The SDK streams the result of a tool after its call, and the result of the
\* turn when no tool of it waits for a permission, and nothing after it.
MayStream(m) ==
    LET Uses(message) == {message.blocks[i].tool : i \in
            {j \in DOMAIN message.blocks : message.blocks[j].type = "tool_use"}}
        Results(message) == {message.blocks[i].tool : i \in
            {j \in DOMAIN message.blocks : message.blocks[j].type = "tool_result"}}
        before == ToSet(received)
    IN  /\ m.type = "result" => \A p \in Prompts : verdict[p] # "asked"
        /\ \A message \in before : /\ message.uuid # m.uuid
                                   /\ message.type # "result"
                                   /\ Results(message) \cap Results(m) = {}
        /\ Results(m) \subseteq UNION {Uses(message) : message \in before}

StreamMessage(m) ==
    /\ Running /\ MayStream(m) /\ Len(received) < MaxMessages
    /\ received' = Append(received, m)
    /\ channel' = PushedAll(channel, MessageEvents(m))
    /\ UNCHANGED <<callVars, mode, step, promptVars>>

\* The SDK's turn ends when no tool of it waits for a permission; its process
\* may die at any time, with prompts open.
StreamEnds ==
    /\ Running
    /\ \A p \in Prompts : verdict[p] # "asked"
    /\ channel' = Closed(channel, FALSE)
    /\ UNCHANGED <<callVars, mode, step, received, promptVars>>

StreamBreaks ==
    /\ Running
    /\ channel' = Closed(channel, TRUE)
    /\ UNCHANGED <<callVars, mode, step, received, promptVars>>

-----------------------------------------------------------------------------
(* The prompts.                                                            *)

Ask(p) == [type |-> "approval.request", prompt |-> p, resolved |-> FALSE,
           allow |-> "none"]
Verdict(p, v) == [type |-> "approval.request", prompt |-> p, resolved |-> TRUE,
                  allow |-> v]

\* awaitPhoneAnswer without its timer.
AwaitWithoutTimer(p) ==
    /\ verdict' = [verdict EXCEPT ![p] = "asked"]
    /\ pendingApprovals' = pendingApprovals \cup {p}
    /\ channel' = Pushed(channel, Ask(p))
    /\ UNCHANGED <<timers, answered>>

AwaitPhoneAnswer(p) ==
    /\ verdict' = [verdict EXCEPT ![p] = "asked"]
    /\ timers' = timers \cup {p}
    /\ pendingApprovals' = pendingApprovals \cup {p}
    /\ channel' = Pushed(channel, Ask(p))
    /\ UNCHANGED answered

\* canUseTool (only set when prompts go to the phone) and the hook of
\* AskUserQuestion (always set), called by tools that may run in parallel.
SdkAsks(p) ==
    /\ Running /\ verdict[p] = "none"
    /\ mode = "askOnPhone" \/ p \in Questions
    /\ AwaitPhoneAnswer(p)
    /\ UNCHANGED <<callVars, mode, step, received>>

\* A promise keeps the first value it is resolved with.
Told(p, v) == [verdict EXCEPT ![p] = IF @ = "asked" THEN v ELSE @]

\* settle without clearTimeout.
SettleKeepingTimer(p, v) ==
    /\ timers' = timers
    /\ pendingApprovals' = pendingApprovals \ {p}
    /\ channel' = Pushed(channel, Verdict(p, v))
    /\ verdict' = Told(p, v)

\* settle without deleting the pending approval.
SettleKeepingPending(p, v) ==
    /\ timers' = timers \ {p}
    /\ pendingApprovals' = pendingApprovals
    /\ channel' = Pushed(channel, Verdict(p, v))
    /\ verdict' = Told(p, v)

Settle(p, v) ==
    /\ timers' = timers \ {p}
    /\ pendingApprovals' = pendingApprovals \ {p}
    /\ channel' = Pushed(channel, Verdict(p, v))
    /\ verdict' = Told(p, v)

\* resolveApproval of a pending id; another id is answered with false.
PhoneAnswers(p, v) ==
    /\ p \in pendingApprovals
    /\ answered' = [answered EXCEPT ![p] = v]
    /\ Settle(p, v)
    /\ UNCHANGED <<callVars, mode, step, received>>

PromptTimesOut(p) ==
    /\ p \in timers
    /\ Settle(p, "deny")
    /\ UNCHANGED <<callVars, mode, step, received, answered>>

\* The SDK aborts the signal of a callback only while the callback runs.
SdkAborts(p) ==
    /\ verdict[p] = "asked"
    /\ Settle(p, "deny")
    /\ UNCHANGED <<callVars, mode, step, received, answered>>

-----------------------------------------------------------------------------
(* The gateway's for await over the channel.                               *)

AwaitEvent ==
    /\ step = "streaming" /\ result = "open"
    /\ MustWait(channel)
    /\ channel' = Awaited(channel)
    /\ UNCHANGED <<callVars, mode, step, received, promptVars>>

TakeEvent ==
    /\ step = "streaming" /\ result = "open"
    /\ HasEvent(channel)
    /\ Receive(<<Head(Contents(channel))>>)
    /\ channel' = Taken(channel)
    /\ UNCHANGED <<mode, step, received, promptVars>>

EndTurn ==
    /\ step = "streaming" /\ result = "open"
    /\ AtEnd(channel)
    /\ IF channel.failure THEN Throw ELSE Return
    /\ UNCHANGED claudeVars

ClaudeNext ==
    \/ ClaudeCall \/ LookupAnswers \/ LookupFails
    \/ \E m \in Messages : StreamMessage(m)
    \/ StreamEnds \/ StreamBreaks
    \/ \E p \in Prompts : \/ SdkAsks(p) \/ PromptTimesOut(p) \/ SdkAborts(p)
                          \/ \E v \in {"allow", "deny"} : PhoneAnswers(p, v)
    \/ AwaitEvent \/ TakeEvent \/ EndTurn

\* The steps of the generator: at most one of them is possible.
Generator == ClaudeCall \/ LookupAnswers \/ AwaitEvent \/ TakeEvent \/ EndTurn

ClaudeProduced == taken \o Contents(channel)

-----------------------------------------------------------------------------
(* What must hold of the prompts and of the stream.                        *)

\* Where the events tell the phone of the prompt.
About(p) == {i \in DOMAIN ClaudeProduced :
                /\ ClaudeProduced[i].type = "approval.request"
                /\ ClaudeProduced[i].prompt = p}

\* Until the stream of a turn has ended, its events tell of a prompt and then,
\* once, of the very verdict the tool was told: never a prompt that is shown as
\* open although it was settled, nor as settled in another way.
VerdictIsTold ==
    \A p \in Prompts :
        CASE verdict[p] = "none" -> About(p) = {}
          [] verdict[p] = "asked" ->
               \E i \in About(p) : /\ About(p) = {i}
                                   /\ ClaudeProduced[i] = Ask(p)
          [] OTHER ->
               \E i \in About(p) :
                   /\ ClaudeProduced[i] = Ask(p)
                   /\ \/ channel.closed /\ About(p) = {i}
                      \/ \E j \in About(p) :
                            /\ i < j /\ About(p) = {i, j}
                            /\ ClaudeProduced[j] = Verdict(p, verdict[p])

\* When resolveApproval told the phone that its answer was taken, the tool
\* was told that answer, whatever the timer and the abort signal did.
AcceptedAnswerStands ==
    \A p \in Prompts : answered[p] # "none" => verdict[p] = answered[p]

\* The id of an item in a snapshot and the one it was streamed with: the same,
\* unless an id was made up for its message.
SameId(id, live) ==
    \/ live = id
    \/ \E m \in ToSet(received) : /\ m.uuid = id[1] /\ m.streamed # m.uuid
                                  /\ live = [id EXCEPT ![1] = m.streamed]

\* A tool whose result was streamed shows this result alone, where a snapshot
\* puts it behind the name of the tool; without a text it says so.
ShowsResultOnly(item, live) ==
    /\ item.kind = "tool" /\ item.status # "running"
    /\ \/ live.text = NoText
       \/ live.text # item.text /\ live.text # <<>> /\ IsSuffix(live.text, item.text)

\* The items streamed one message at a time, replaced by their ids as the
\* phone replaces them, are those a snapshot of the whole transcript has, none
\* missing, none twice, in the same order and with the same outcome.  Reading
\* the chat again changes what a finished tool shows, and the made-up ids (and
\* the time stamps, which are left out).
LiveMatchesSnapshot ==
    LET live == Timeline(ClaudeProduced)  snapshot == Normalize(received) IN
    provider = "claude" =>
        /\ Len(live) = Len(snapshot)
        /\ \A i \in DOMAIN snapshot :
              /\ SameId(snapshot[i].id, live[i].id)
              /\ live[i].kind = snapshot[i].kind /\ live[i].status = snapshot[i].status
              /\ live[i].text = snapshot[i].text \/ ShowsResultOnly(snapshot[i], live[i])

\* A prompt is settled even when nobody answers it, also when the turn has
\* ended meanwhile.
PromptsSettle ==
    \A p \in Prompts : (verdict[p] = "asked") ~> (verdict[p] \in {"allow", "deny"})
===============================================================================
