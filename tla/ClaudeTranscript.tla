--------------------------- MODULE ClaudeTranscript ---------------------------
(***************************************************************************)
(* normalizeClaudeMessages, and its two uses: on a whole transcript, for a *)
(* snapshot, and on each message of a live stream alone.  A message is     *)
(* [type, uuid, streamed, blocks]: its uuid in the transcript, and the one *)
(* it has in the stream, which is made up when the SDK gives none.  A      *)
(* block is [type, tool, error, text], where text is a sequence of lines,  *)
(* empty when it is blank.                                                 *)
(***************************************************************************)
EXTENDS Naturals, Sequences, SequencesExt

ToolId(tool) == <<tool, "tool", 0>>

Item(id, itemKind, status, text) ==
    [id |-> id, kind |-> itemKind, status |-> status, text |-> text]

\* flushText: the text blocks collected so far become one item; the first
\* of a message has the message's id.
Flushed(acc, m) ==
    IF acc.text # <<>> /\ m.type # "system"
    THEN [items |-> Append(acc.items, Item(<<m.uuid, "text", acc.texts>>,
                                           "message", "completed", acc.text)),
          text |-> <<>>, texts |-> acc.texts + 1]
    ELSE [acc EXCEPT !.text = <<>>]

WithItem(acc, item) == [acc EXCEPT !.items = Append(@, item)]

Outcome(block) == IF block.error THEN "failed" ELSE "completed"

\* What stands for a result without a text.
NoText == <<"tool result">>

\* A tool result is added to the tool it belongs to, or stands for itself when
\* the call is not among these messages.
WithResult(acc, block) ==
    LET known == {i \in DOMAIN acc.items : acc.items[i].id = ToolId(block.tool)}
        Updated(item) == [item EXCEPT !.status = Outcome(block),
                                      !.text = @ \o block.text]
    IN  IF known = {}
        THEN WithItem(acc, Item(ToolId(block.tool), "tool", Outcome(block),
                                IF block.text = <<>> THEN NoText ELSE block.text))
        ELSE [acc EXCEPT !.items = [i \in DOMAIN @ |->
                 IF i \in known THEN Updated(@[i]) ELSE @[i]]]

\* The index of a thinking block counts the blocks, not the items.
WithBlock(acc, m, i) ==
    LET block == m.blocks[i]  flushed == Flushed(acc, m)
    IN  CASE block.type = "text" -> [acc EXCEPT !.text = @ \o block.text]
          [] block.type = "thinking" ->
               WithItem(flushed, Item(<<m.uuid, "thinking", i>>, "reasoning",
                                      "completed", block.text))
          [] block.type = "tool_use" ->
               WithItem(flushed, Item(ToolId(block.tool), "tool", "running",
                                      block.text))
          [] block.type = "tool_result" -> WithResult(flushed, block)

WithMessage(items, m) ==
    LET start == [items |-> items, text |-> <<>>, texts |-> 0]
        Step(acc, i) == WithBlock(acc, m, i)
    IN  Flushed(FoldLeftDomain(Step, start, m.blocks), m).items

Normalize(messages) == FoldLeft(WithMessage, <<>>, messages)

-----------------------------------------------------------------------------
\* The message as mapClaudeStreamMessage takes it from the stream.
LiveMessage(m) == [m EXCEPT !.uuid = m.streamed]

\* mapClaudeStreamMessage when only the messages of the assistant are told:
\* the results of the tools arrive in messages of the user.
AssistantEvents(m) ==
    IF m.type = "assistant"
    THEN LET items == Normalize(<<LiveMessage(m)>>)
         IN  [i \in DOMAIN items |-> [type |-> "item.complete", item |-> items[i]]]
    ELSE <<>>

\* mapClaudeStreamMessage.
StreamEvents(m) ==
    CASE m.type \in {"assistant", "user"} ->
           LET items == Normalize(<<LiveMessage(m)>>)
           IN  [i \in DOMAIN items |->
                  [type |-> "item.complete", item |-> items[i]]]
      [] m.type = "result" -> <<[type |-> "turn.status"]>>
      [] OTHER -> <<>>

\* onTurnItem of the phone: an item replaces the one with its id.
Shown(timeline, item) ==
    IF \E i \in DOMAIN timeline : timeline[i].id = item.id
    THEN [i \in DOMAIN timeline |->
            IF timeline[i].id = item.id THEN item ELSE timeline[i]]
    ELSE Append(timeline, item)

\* What the phone shows of a stream of events.
Timeline(events) ==
    LET IsItem(e) == e.type = "item.complete"
        Add(timeline, e) == Shown(timeline, e.item)
    IN  FoldLeft(Add, <<>>, SelectSeq(events, IsItem))
===============================================================================
