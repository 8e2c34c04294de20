-------------------------- MODULE ProviderTurnsProofs --------------------------
(***************************************************************************)
(* Theorems about a call of either adapter, for any messages, prompts and  *)
(* notifications: the safety invariants of the prompts, of the child and   *)
(* of the announcement, and that both adapters implement TurnStream.       *)
(***************************************************************************)
EXTENDS ProviderTurns, ClaudeTurnProofs, CodexTurnProofs

\* Of the two adapters only the one that is called is used.
ClaudeIsCalled == provider = "claude" => ClaudeInv /\ CodexInit
CodexIsCalled == provider = "codex" => CodexInv /\ ClaudeInit

IInv ==
    /\ provider \in {"claude", "codex"} /\ allowed \in BOOLEAN
    /\ ClaudeIsCalled /\ CodexIsCalled

-----------------------------------------------------------------------------
\* The initial states satisfy the invariant.
LEMMA InitInv == Init => IInv
BY ClaudeInitInv, CodexInitInv
   DEF Init, IInv, ClaudeIsCalled, CodexIsCalled, CallInit

\* A step of a call keeps the adapter, the kind and the setting.
LEMMA CallKept ==
    ASSUME \/ \E es \in Seq(TurnEvents) : Produces(es)
           \/ Closes \/ Waits \/ Takes \/ Leaves
           \/ \E es \in Seq(CodexEvents) : Tells(es)
           \/ Hands \/ Over
    PROVE  UNCHANGED <<provider, kind, allowed>>
BY DEF Produces, Closes, Waits, Takes, Leaves, Tells, Hands, Over, callVars

\* Every step keeps the invariant.
LEMMA NextInv == IInv /\ [Next]_vars => IInv'
<1> SUFFICES ASSUME IInv, [Next]_vars PROVE IInv'
    OBVIOUS
<1>1. CASE Claude(ClaudeNext)
  <2>1. provider = "claude" /\ ClaudeNext /\ UNCHANGED codexVars
        BY <1>1 DEF Claude
  <2>2. ClaudeInv /\ CodexInit
        BY <2>1 DEF IInv, ClaudeIsCalled
  <2>3. ClaudeInv' /\ UNCHANGED <<provider, kind, allowed>>
        BY <2>1, <2>2, ClaudeStep, CallKept
  <2>4. CodexInit'
        BY <2>1, <2>2 DEF CodexInit, RpcInit, codexVars, rpcVars
  <2> QED BY <2>1, <2>3, <2>4 DEF IInv, ClaudeIsCalled, CodexIsCalled
<1>2. CASE Codex(CodexNext)
  <2>1. provider = "codex" /\ CodexNext /\ UNCHANGED claudeVars
        BY <1>2 DEF Codex
  <2>2. CodexInv /\ ClaudeInit
        BY <2>1 DEF IInv, CodexIsCalled
  <2>3. CodexInv' /\ UNCHANGED <<provider, kind, allowed>>
        BY <2>1, <2>2, CodexStep, CallKept
  <2>4. ClaudeInit'
        BY <2>1, <2>2 DEF ClaudeInit, claudeVars
  <2> QED BY <2>1, <2>3, <2>4 DEF IInv, ClaudeIsCalled, CodexIsCalled
<1>3. CASE UNCHANGED vars
  <2> USE <1>3 DEF vars, callVars, claudeVars, codexVars, rpcVars
  <2>1. IInv' <=> IInv
    <3>1. ClaudeInv' <=> ClaudeInv
          BY DEF ClaudeInv, ClaudeTypeOK, StreamTypes, Idle, Ended, Bookkeeping,
                 AcceptedAnswerStands, VerdictIsTold, About, Announced, AnnouncedIn,
                 ClaudeProduced, Contents
    <3>2. CodexInv' <=> CodexInv
          BY DEF CodexInv, CodexTypeOK, RpcTypeOK, CallTypes, Requests, Place, Listens,
                 NoChildLeft, Handed, ItemsUpTo, TakenUpTo, Items, Opening,
                 CodexProduced, Streamed
    <3>3. (CodexInit' <=> CodexInit) /\ (ClaudeInit' <=> ClaudeInit)
          BY DEF CodexInit, RpcInit, ClaudeInit
    <3> QED BY <3>1, <3>2, <3>3 DEF IInv, ClaudeIsCalled, CodexIsCalled
  <2> QED BY <2>1
<1> QED BY <1>1, <1>2, <1>3 DEF Next

\* The invariant of either call holds in every reachable state: the channel,
\* its prompts and the bookkeeping of the Claude adapter; the one request at
\* a time, the replayed notifications and the child of the Codex adapter.
THEOREM Inductive == Spec => []IInv
BY InitInv, NextInv, PTL DEF Spec

-----------------------------------------------------------------------------
(* The invariants of the runs.                                             *)

\* What the adapter that is not called satisfies.
LEMMA ClaudeUnused == ClaudeInit => ClaudeTypeOK /\ AcceptedAnswerStands
BY DEF ClaudeInit, ClaudeTypeOK, AcceptedAnswerStands, Opened, Contents

\* An app-server that was not started.
LEMMA CodexUnused == CodexInit => CodexTypeOK /\ NoChildLeft
<1> SUFFICES ASSUME CodexInit PROVE CodexTypeOK /\ NoChildLeft
    OBVIOUS
<1>1. Cardinality(pending) = 0
      BY FS_EmptySet DEF CodexInit, RpcInit
<1>2. /\ killed \in BOOLEAN /\ listening \in BOOLEAN /\ late \in BOOLEAN
      /\ child = "none" /\ settled = "none" /\ pc = "ready"
      BY DEF CodexInit, RpcInit
<1>3. nextId \in 1 .. 4 /\ inbox \subseteq 1 .. nextId - 1 /\ pending \subseteq 1 .. nextId - 1
      BY DEF CodexInit, RpcInit
<1>4. RpcTypeOK
  <2>1. Cardinality(pending) <= 1
        BY <1>1
  <2> QED BY <1>2, <1>3, <2>1 DEF RpcTypeOK
<1> QED BY <1>2, <1>4 DEF CodexTypeOK, NoChildLeft

\* Type correctness of a call: the places, the channel with at most one value
\* on its way, one pending request at most.
THEOREM TypeCorrect == Spec => []TypeOK
<1>1. IInv => TypeOK
  <2> SUFFICES ASSUME IInv PROVE TypeOK
      OBVIOUS
  <2>1. CASE provider = "claude"
    <3>1. ClaudeInv /\ CodexTypeOK
          BY <2>1, CodexUnused DEF IInv, ClaudeIsCalled
    <3> QED BY <3>1 DEF IInv, TypeOK, ClaudeInv, StreamTypes
  <2>2. CASE provider = "codex"
    <3>1. CodexInv /\ ClaudeTypeOK
          BY <2>2, ClaudeUnused DEF IInv, CodexIsCalled
    <3> QED BY <3>1 DEF IInv, TypeOK, CodexInv, CallTypes
  <2> QED BY <2>1, <2>2 DEF IInv
<1> QED BY <1>1, Inductive, PTL

\* AcceptedAnswerStands: whatever order the answer of the phone, the timer,
\* the abort signal and the end of the turn come in, an answer that
\* resolveApproval accepted is what the tool was told.
THEOREM AnswerStands == Spec => []AcceptedAnswerStands
<1>1. IInv => AcceptedAnswerStands
      BY ClaudeUnused DEF IInv, ClaudeIsCalled, CodexIsCalled, ClaudeInv
<1> QED BY <1>1, Inductive, PTL

\* VerdictIsTold: the phone is told of every prompt once, and then once of
\* the verdict its tool was told, unless the channel was closed before.
THEOREM PhoneIsTold == Spec => []VerdictIsTold
<1>1. IInv => VerdictIsTold
  <2> SUFFICES ASSUME IInv PROVE VerdictIsTold
      OBVIOUS
  <2>1. CASE provider = "claude"
        BY <2>1 DEF IInv, ClaudeIsCalled, ClaudeInv
  <2>2. CASE provider = "codex"
    <3>1. /\ \A p \in Prompts : verdict[p] = "none"
          /\ channel = Opened /\ taken \in Seq(CodexEvents)
          BY <2>2 DEF IInv, CodexIsCalled, CodexInv, CallTypes, ClaudeInit
    <3>2. ClaudeProduced = taken
          BY <3>1, ConcatEmptySeq DEF ClaudeProduced, Contents, Opened
    <3>3. \A i \in DOMAIN taken : taken[i].type # "approval.request"
      <4>1. \A e \in CodexEvents : e.type # "approval.request"
            BY DEF CodexEvents, Announcement
      <4> QED BY <3>1, <4>1
    <3>4. \A p \in Prompts : About(p) = {}
          BY <3>2, <3>3 DEF About
    <3> QED BY <3>1, <3>4 DEF VerdictIsTold
  <2> QED BY <2>1, <2>2 DEF IInv
<1> QED BY <1>1, Inductive, PTL

\* AnnouncedFirst: of a call that makes a session the gateway is handed the
\* announcement once, before any item or status of the session, and before it
\* at most prompts.
THEOREM SessionAnnouncedFirst == Spec => []AnnouncedFirst
<1>1. AnnouncedIn(taken) => AnnouncedFirst
      BY DEF AnnouncedIn, AnnouncedFirst
<1>2. IInv => AnnouncedIn(taken)
  <2> SUFFICES ASSUME IInv PROVE AnnouncedIn(taken)
      OBVIOUS
  <2>1. CASE provider = "claude"
    <3>1. ClaudeInv
          BY <2>1 DEF IInv, ClaudeIsCalled
    <3>2. PICK t, c \in Seq(TurnEvents) : t = taken /\ c = Contents(channel)
          BY <3>1, ProducedType DEF ClaudeInv, StreamTypes
    <3>3. AnnouncedIn(t \o c)
          BY <3>1, <3>2 DEF ClaudeProduced, ClaudeInv, Announced
    <3>4. \A i \in DOMAIN t : /\ i \in DOMAIN (t \o c) /\ t[i] = (t \o c)[i]
                              /\ \A j \in 1 .. i - 1 : t[j] = (t \o c)[j]
          BY <3>2
    <3> QED BY <3>2, <3>3, <3>4 DEF AnnouncedIn
  <2>2. CASE provider = "codex"
    <3>1. \A i \in DOMAIN taken : (taken[i].type = "session.new") <=> (i = 1 /\ kind = "new")
          BY <2>2 DEF IInv, CodexIsCalled, CodexInv, Handed
    <3>2. PICK t \in Seq(CodexEvents) : t = taken
          BY <2>2 DEF IInv, CodexIsCalled, CodexInv, CallTypes
    <3>3. \A i \in DOMAIN t : i \in 1 .. Len(t) /\ (i # 1 => 1 \in 1 .. i - 1 /\ 1 \in DOMAIN t)
          OBVIOUS
    <3> QED BY <3>1, <3>2, <3>3 DEF AnnouncedIn
  <2> QED BY <2>1, <2>2 DEF IInv
<1> QED BY <1>1, <1>2, Inductive, PTL

\* NoChildLeft: however a Codex call ends, at whatever await, its app-server
\* was signalled or is gone.
THEOREM ChildIsReaped == Spec => []NoChildLeft
<1>1. IInv => NoChildLeft
      BY CodexUnused DEF IInv, ClaudeIsCalled, CodexIsCalled, CodexInv
<1> QED BY <1>1, Inductive, PTL

-----------------------------------------------------------------------------
(* Both adapters implement TurnStream.                                     *)

\* The operators of TurnStream are those of the sequences here.
LEMMA SamePrefix ==
    ASSUME NEW s, NEW t
    PROVE  Stream!IsPrefix(s, t) <=> IsPrefix(s, t)
BY DEF IsPrefix, Stream!IsPrefix

\* The initial states.
LEMMA StreamInit == Init => Stream!Init
<1> SUFFICES ASSUME Init PROVE Stream!Init
    OBVIOUS
<1>1. taken = <<>> /\ result = "open"
      BY DEF Init, CallInit
<1>2. CASE provider = "claude"
  <2>1. produced = <<>> /\ complete = FALSE
        BY <1>1, <1>2, ConcatEmptySeq, EmptySeq
           DEF Init, ClaudeInit, produced, complete, ClaudeProduced, Contents, Opened
  <2> QED BY <1>1, <2>1 DEF Stream!Init
<1>3. CASE provider = "codex"
  <2>1. produced = <<>> /\ complete \in BOOLEAN
        BY <1>1, <1>3 DEF Init, CodexInit, produced, complete, CodexProduced, CodexComplete
  <2> QED BY <1>1, <2>1 DEF Stream!Init
<1> QED BY <1>2, <1>3 DEF Init, CallInit

\* What the gateway has of a turn of Claude is the first of what was produced,
\* and all of it when nothing is in the channel.
Delivered ==
    /\ ClaudeProduced \in Seq(TurnEvents) /\ taken \in Seq(TurnEvents)
    /\ channel.closed \in BOOLEAN
    /\ IsPrefix(taken, ClaudeProduced)
    /\ Contents(channel) = <<>> => ClaudeProduced = taken

LEMMA DeliveredInOrder == ClaudeInv => Delivered
<1> SUFFICES ASSUME ClaudeInv PROVE Delivered
    OBVIOUS
<1>1. PICK t, c \in Seq(TurnEvents) : t = taken /\ c = Contents(channel)
      BY ProducedType DEF ClaudeInv, StreamTypes
<1>2. IsPrefix(t, t \o c) /\ t \o c \in Seq(TurnEvents) /\ t \o <<>> = t
      BY PrefixOfLonger, ConcatEmptySeq
<1>3. channel.closed \in BOOLEAN
      BY DEF ClaudeInv, StreamTypes, Channels
<1> QED BY <1>1, <1>2, <1>3 DEF Delivered, ClaudeProduced

\* A step of a turn of Claude is a step of the stream.
LEMMA ClaudeImplements ==
    ASSUME provider = "claude", provider' = "claude", ClaudeInv, ClaudeInv',
           \/ \E es \in Seq(TurnEvents) : Produces(es)
           \/ Closes \/ Waits \/ Takes \/ Leaves
    PROVE  [Stream!Next]_Stream!vars
<1>1. Delivered /\ Delivered'
      BY DeliveredInOrder, PTL
<1>2. /\ produced = ClaudeProduced /\ produced' = ClaudeProduced'
      /\ complete = channel.closed /\ complete' = channel'.closed
      BY DEF produced, complete
<1>3. IsPrefix(taken', produced') /\ complete' \in BOOLEAN
      BY <1>1, <1>2 DEF Delivered, ClaudeProduced
<1>4. IsPrefix(taken, taken) /\ IsPrefix(produced, produced) /\ Len(taken) \in Nat
      BY <1>1, <1>2, PrefixByElement DEF Delivered
<1> USE SamePrefix
<1>5. ASSUME NEW es \in Seq(TurnEvents), Produces(es), result = "open"
      PROVE  Stream!Pass
  <2>1. IsPrefix(produced, produced')
    <3>1. CASE channel.closed
          BY <1>2, <1>4, <1>5, <3>1 DEF Produces
    <3>2. CASE ~channel.closed
          BY <1>1, <1>2, <1>5, <3>2, PrefixOfLonger DEF Produces, Delivered
    <3> QED BY <3>1, <3>2
  <2>2. complete => complete' /\ produced' = produced
        BY <1>2, <1>5 DEF Produces
  <2>3. taken' = taken /\ result' = "open"
        BY <1>5 DEF Produces, callVars
  <2>4. Len(taken') <= Len(taken) + 1
        BY <1>4, <2>3
  <2> QED BY <1>3, <1>4, <1>5, <2>1, <2>2, <2>3, <2>4 DEF Stream!Pass
<1>6. ASSUME NEW es \in Seq(TurnEvents), Produces(es), result # "open"
      PROVE  UNCHANGED Stream!vars
  <2>1. taken' = taken /\ result' = result /\ channel'.closed = channel.closed
        BY <1>6 DEF Produces, callVars
  <2>2. Contents(channel) = <<>> /\ Contents(channel') = <<>>
        BY <1>6, <2>1 DEF ClaudeInv, Ended, Contents
  <2>3. produced = taken /\ produced' = taken'
        BY <1>1, <1>2, <2>2 DEF Delivered, Contents, ClaudeProduced
  <2> QED BY <1>2, <2>1, <2>3 DEF Stream!vars
<1>7. ASSUME Closes \/ Waits \/ Takes PROVE Stream!Pass
  <2>1. /\ result = "open" /\ result' = "open" /\ produced' = produced
        /\ complete => complete' /\ produced' = produced
        BY <1>2, <1>7 DEF Closes, Waits, Takes, callVars
  <2>2. IsPrefix(taken, taken') /\ Len(taken') <= Len(taken) + 1
    <3>1. CASE Closes \/ Waits
          BY <1>4, <3>1 DEF Closes, Waits, callVars
    <3>2. CASE Takes
      <4>1. PICK e \in TurnEvents : taken' = taken \o <<e>>
            BY <3>2 DEF Takes
      <4>2. <<e>> \in Seq(TurnEvents) /\ taken \in Seq(TurnEvents)
            BY <1>1 DEF Delivered
      <4>3. Len(taken \o <<e>>) = Len(taken) + 1
            BY <4>2
      <4>4. IsPrefix(taken, taken')
            BY <4>1, <4>2, PrefixOfLonger
      <4>5. Len(taken') <= Len(taken) + 1
            BY <1>4, <4>1, <4>3
      <4> QED BY <4>4, <4>5
    <3> QED BY <1>7, <3>1, <3>2
  <2> QED BY <1>3, <1>4, <2>1, <2>2 DEF Stream!Pass
<1>8. ASSUME Leaves PROVE Stream!Return \/ Stream!Throw
  <2>1. /\ result = "open" /\ result' \in {"done", "failed"}
        /\ taken' = taken /\ channel' = channel /\ Contents(channel) = <<>>
        /\ result' = "done" => channel.closed
        BY <1>8 DEF Leaves
  <2>2. produced = taken /\ produced' = taken /\ complete' = complete
        BY <1>1, <1>2, <2>1 DEF Delivered, Contents, ClaudeProduced
  <2>3. result' = "done" => complete
        BY <1>2, <2>1
  <2> QED BY <1>3, <2>1, <2>2, <2>3 DEF Stream!Return, Stream!Throw
<1> QED BY <1>5, <1>6, <1>7, <1>8 DEF Stream!Next

\* A step of a call of Codex is a step of the stream.
LEMMA CodexImplements ==
    ASSUME provider = "codex", provider' = "codex", CodexInv, CodexInv',
           (\E es \in Seq(CodexEvents) : Tells(es)) \/ Hands \/ Over
    PROVE  [Stream!Next]_Stream!vars
<1>1. TakenInOrder /\ TakenInOrder'
      BY InOrder, PTL
<1>2. /\ produced = CodexProduced /\ produced' = CodexProduced'
      /\ complete = CodexComplete /\ complete' = CodexComplete'
      BY DEF produced, complete
<1>3. IsPrefix(taken', produced') /\ complete' \in BOOLEAN
      BY <1>1, <1>2 DEF TakenInOrder, CodexComplete
<1>4. /\ taken \in Seq(CodexEvents) /\ produced \in Seq(CodexEvents) /\ Len(taken) \in Nat
      /\ IsPrefix(taken, taken) /\ IsPrefix(produced, produced)
      BY <1>1, <1>2, PrefixByElement DEF TakenInOrder, CodexInv, CallTypes
<1> USE SamePrefix
<1>5. ASSUME NEW es \in Seq(CodexEvents), Tells(es), result = "open"
      PROVE  Stream!Pass
  <2>1. IsPrefix(produced, produced')
        BY <1>2, <1>4, <1>5, PrefixOfLonger DEF Tells
  <2>2. complete => complete' /\ produced' = produced
    <3>1. ASSUME CodexComplete PROVE CodexComplete' /\ CodexProduced' = CodexProduced
      <4>1. es = <<>> /\ CodexComplete' /\ CodexProduced' = CodexProduced \o es
            BY <1>5, <3>1 DEF Tells
      <4> QED BY <1>2, <1>4, <4>1, ConcatEmptySeq
    <3> QED BY <1>2, <3>1
  <2>3. taken' = taken /\ result' = "open" /\ Len(taken') <= Len(taken) + 1
        BY <1>4, <1>5 DEF Tells, callVars
  <2> QED BY <1>3, <1>4, <1>5, <2>1, <2>2, <2>3 DEF Stream!Pass
<1>6. ASSUME NEW es \in Seq(CodexEvents), Tells(es), result # "open"
      PROVE  UNCHANGED Stream!vars
  <2>1. /\ UNCHANGED callVars /\ es = <<>> /\ CodexProduced' = CodexProduced \o es
        /\ CodexComplete' <=> CodexComplete
        BY <1>6 DEF Tells
  <2>2. produced' = produced
        BY <1>2, <1>4, <2>1, ConcatEmptySeq
  <2>3. complete' = complete
        BY <1>2, <2>1 DEF CodexComplete
  <2> QED BY <2>1, <2>2, <2>3 DEF Stream!vars, callVars
<1>7. ASSUME Hands PROVE Stream!Pass
  <2>1. PICK es \in Seq(CodexEvents) :
           /\ taken' = taken \o es /\ Len(es) <= 1
           /\ CodexProduced' = CodexProduced \/ (CodexProduced' = taken' /\ CodexProduced = taken)
        BY <1>7 DEF Hands
  <2>2. IsPrefix(taken, taken') /\ Len(taken') <= Len(taken) + 1
    <3>1. IsPrefix(taken, taken')
          BY <1>4, <2>1, PrefixOfLonger
    <3>2. Len(taken') = Len(taken) + Len(es) /\ Len(es) \in Nat
          BY <1>4, <2>1
    <3> QED BY <1>4, <2>1, <3>1, <3>2
  <2>3. IsPrefix(produced, produced')
        BY <1>2, <1>4, <2>1, <2>2
  <2>4. result = "open" /\ result' = "open" /\ (complete => complete' /\ produced' = produced)
        BY <1>2, <1>7 DEF Hands
  <2> QED BY <1>3, <2>2, <2>3, <2>4 DEF Stream!Pass
<1>8. ASSUME Over PROVE Stream!Return \/ Stream!Throw
  <2>1. /\ result = "open" /\ result' \in {"done", "failed"} /\ taken' = taken
        /\ taken = produced /\ produced' = produced
        BY <1>2, <1>8 DEF Over
  <2>2. ASSUME result' = "done" PROVE complete /\ complete' = complete
        BY <1>2, <1>8, <2>2 DEF Over, CodexComplete
  <2> QED BY <1>3, <2>1, <2>2 DEF Stream!Return, Stream!Throw
<1> QED BY <1>5, <1>6, <1>7, <1>8 DEF Stream!Next

\* Every step of a call is a step of the stream.
LEMMA StreamNext == IInv /\ IInv' /\ [Next]_vars => [Stream!Next]_Stream!vars
<1> SUFFICES ASSUME IInv, IInv', [Next]_vars PROVE [Stream!Next]_Stream!vars
    OBVIOUS
<1>1. CASE Claude(ClaudeNext)
  <2>1. provider = "claude" /\ ClaudeNext /\ ClaudeInv
        BY <1>1 DEF Claude, IInv, ClaudeIsCalled
  <2>2. /\ ClaudeInv' /\ provider' = "claude"
        /\ \/ \E es \in Seq(TurnEvents) : Produces(es)
           \/ Closes \/ Waits \/ Takes \/ Leaves
        BY <2>1, ClaudeStep, CallKept
  <2> QED BY <2>1, <2>2, ClaudeImplements
<1>2. CASE Codex(CodexNext)
  <2>1. provider = "codex" /\ CodexNext /\ CodexInv
        BY <1>2 DEF Codex, IInv, CodexIsCalled
  <2>2. /\ CodexInv' /\ provider' = "codex"
        /\ (\E es \in Seq(CodexEvents) : Tells(es)) \/ Hands \/ Over
        BY <2>1, CodexStep, CallKept
  <2> QED BY <2>1, <2>2, CodexImplements
<1>3. CASE UNCHANGED vars
  <2>1. produced' = produced /\ complete' = complete
        BY <1>3 DEF vars, callVars, claudeVars, codexVars, rpcVars, produced, complete,
                    ClaudeProduced, Contents, CodexProduced, Streamed, CodexComplete
  <2> QED BY <1>3, <2>1 DEF Stream!vars, vars, callVars
<1> QED BY <1>1, <1>2, <1>3 DEF Next

\* Contract: both adapters implement the stream the gateway relies on. What
\* was produced is handed over in order, nothing lost and nothing twice, and
\* the call returns or throws only when nothing produced is left.
THEOREM ImplementsStream == Spec => Contract
BY Inductive, StreamInit, StreamNext, PTL DEF Spec, Contract, Stream!Spec
===============================================================================
