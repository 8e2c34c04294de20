\* One call of either adapter: two prompts of parallel tools, a short stream.
CONSTANTS
  Messages <- MCMessages
  Prompts = {"p", "q"}
  Questions = {"q"}
  MaxMessages = 2
  MaxNotes = 3
SPECIFICATION FairSpec
INVARIANTS TypeOK VerdictIsTold AcceptedAnswerStands LiveMatchesSnapshot
  AnnouncedFirst NoChildLeft
PROPERTIES Contract PromptsSettle TurnsEnd
CHECK_DEADLOCK FALSE
