--------------------------- MODULE ClaudeTurnProofs ---------------------------
(***************************************************************************)
(* Proofs about a turn of the Claude adapter, for any messages, any        *)
(* prompts and any length of the stream: what one step of ClaudeNext does  *)
(* to the produced events, to the prompts and to what was taken.           *)
(***************************************************************************)
EXTENDS ClaudeTurn, SequenceTheorems, TLAPS

-----------------------------------------------------------------------------
(* The invariant.                                                          *)

\* The events of a turn: of the session, of the messages, of the prompts.
OfMessages == UNION {ToSet(StreamEvents(m)) : m \in Messages}
Asks == {Ask(p) : p \in Prompts}
Verdicts == {Verdict(p, v) : p \in Prompts, v \in {"allow", "deny"}}
TurnEvents == {Announcement} \cup OfMessages \cup Asks \cup Verdicts

\* The channels a program can have: at most one value is on its way, and a
\* consumer that waits has nothing to get.
Channels(E) ==
    {c \in [queue : Seq(E), onTheWay : Seq(E), waiting : BOOLEAN,
            closed : BOOLEAN, failure : BOOLEAN] :
        /\ Len(c.onTheWay) <= 1
        /\ c.waiting => c.queue = <<>> /\ c.onTheWay = <<>> /\ ~c.closed}

StreamTypes ==
    /\ kind \in Turns /\ result \in {"open", "done", "failed"}
    /\ channel \in Channels(TurnEvents)
    /\ taken \in Seq(TurnEvents)

\* Before the turn runs there is nothing of it.
Idle ==
    step # "streaming" =>
        /\ channel = Opened /\ taken = <<>>
        /\ \A p \in Prompts : verdict[p] = "none"

\* When the call has ended nothing is left, and nothing can be produced.
Ended ==
    result # "open" =>
        /\ Contents(channel) = <<>>
        /\ result = "done" \/ step = "streaming" => channel.closed

\* A prompt can be settled exactly while its tool waits.
Bookkeeping ==
    /\ \A p \in Prompts : p \in pendingApprovals <=> verdict[p] = "asked"
    /\ timers = pendingApprovals

\* The events of a new session are announced: only prompts come before the
\* announcement, and only with it anything else.
AnnouncedIn(P) ==
    \A i \in DOMAIN P :
        /\ P[i].type = "session.new" =>
              kind = "new" /\ \A j \in 1 .. i - 1 : P[j].type = "approval.request"
        /\ P[i].type \notin {"session.new", "approval.request"} /\ kind = "new" =>
              \E j \in 1 .. i - 1 : P[j].type = "session.new"

\* The first message announces the session.
Announced ==
    /\ AnnouncedIn(ClaudeProduced)
    /\ received = <<>> =>
          \A i \in DOMAIN ClaudeProduced : ClaudeProduced[i].type = "approval.request"
    /\ kind = "new" /\ received # <<>> =>
          \E i \in DOMAIN ClaudeProduced : ClaudeProduced[i].type = "session.new"

ClaudeInv ==
    /\ ClaudeTypeOK /\ StreamTypes /\ Idle /\ Ended
    /\ Bookkeeping /\ AcceptedAnswerStands /\ VerdictIsTold /\ Announced

-----------------------------------------------------------------------------
(* The channel.                                                            *)

\* The laws of concatenation that the proofs below use.
LEMMA Associative ==
    ASSUME NEW E, NEW r \in Seq(E), NEW s \in Seq(E), NEW t \in Seq(E)
    PROVE  r \o (s \o t) = (r \o s) \o t
BY ConcatAssociative

\* Events put behind the queue are behind all that is there.
LEMMA BehindTheQueue ==
    ASSUME NEW E, NEW c \in Channels(E), NEW d, NEW es \in Seq(E),
           d.onTheWay = c.onTheWay, d.queue = c.queue \o es
    PROVE  Contents(d) = Contents(c) \o es
<1> SUFFICES \E q, w \in Seq(E) : Contents(c) = w \o q /\ Contents(d) = w \o (q \o es)
    BY Associative
<1> c.queue \in Seq(E) /\ c.onTheWay \in Seq(E)
    BY DEF Channels
<1> QED BY DEF Contents

\* What push does to an open channel: the value is behind all that is there.
LEMMA PushAppends ==
    ASSUME NEW E, NEW c \in Channels(E), NEW e \in E
    PROVE  /\ Pushed(c, e) \in Channels(E)
           /\ Pushed(c, e).closed = c.closed
           /\ c.closed => Pushed(c, e) = c
           /\ ~c.closed => Contents(Pushed(c, e)) = Contents(c) \o <<e>>
<1> <<e>> \in Seq(E) /\ Len(<<e>>) = 1
    OBVIOUS
<1>1. CASE c.closed
      BY <1>1 DEF Pushed
<1>2. CASE ~c.closed /\ c.waiting
  <2>1. c.queue = <<>> /\ c.onTheWay = <<>>
        BY <1>2 DEF Channels
  <2> DEFINE d == [c EXCEPT !.waiting = FALSE, !.onTheWay = <<e>>]
  <2>2. Pushed(c, e) = d
        BY <1>2 DEF Pushed
  <2>3. /\ d \in [queue : Seq(E), onTheWay : Seq(E), waiting : BOOLEAN,
                  closed : BOOLEAN, failure : BOOLEAN]
        /\ d.closed = c.closed /\ ~d.waiting
        /\ d.onTheWay = <<e>> /\ d.queue = <<>>
        BY <1>2, <2>1 DEF Channels
  <2> HIDE DEF d
  <2>4. Contents(d) = <<e>> /\ Contents(c) = <<>>
        BY <2>1, <2>3, ConcatEmptySeq, EmptySeq DEF Contents
  <2>5. Contents(c) \o <<e>> = <<e>>
        BY <2>4, ConcatEmptySeq
  <2>6. d \in Channels(E)
    <3>1. Len(d.onTheWay) <= 1
          BY <2>3
    <3> QED BY <2>3, <3>1 DEF Channels
  <2> QED BY <1>2, <2>2, <2>3, <2>4, <2>5, <2>6
<1>3. CASE ~c.closed /\ ~c.waiting
  <2> DEFINE d == [c EXCEPT !.queue = Append(@, e)]
  <2>1. Pushed(c, e) = d
        BY <1>3 DEF Pushed
  <2>2. /\ d \in Channels(E) /\ d.closed = c.closed
        /\ d.onTheWay = c.onTheWay /\ d.queue = Append(c.queue, e)
        BY <1>3 DEF Channels
  <2>3. c.queue \in Seq(E) /\ c.onTheWay \in Seq(E)
        BY DEF Channels
  <2>4. Append(c.queue, e) = c.queue \o <<e>>
        BY <2>3
  <2> HIDE DEF d
  <2>6. Contents(d) = Contents(c) \o <<e>>
        BY <2>2, <2>3, <2>4, BehindTheQueue
  <2> QED BY <1>3, <2>1, <2>2, <2>6
<1> QED BY <1>1, <1>2, <1>3

\* The same of several values.
LEMMA PushAllAppends ==
    ASSUME NEW E, NEW c \in Channels(E), NEW es \in Seq(E)
    PROVE  /\ PushedAll(c, es) \in Channels(E)
           /\ PushedAll(c, es).closed = c.closed
           /\ c.closed => PushedAll(c, es) = c
           /\ ~c.closed => Contents(PushedAll(c, es)) = Contents(c) \o es
<1>1. CASE c.closed \/ es = <<>>
  <2>1. PushedAll(c, es) = c
        BY <1>1 DEF PushedAll
  <2>2. Contents(c) \in Seq(E)
        BY ConcatProperties DEF Contents, Channels
  <2> QED BY <1>1, <2>1, <2>2, ConcatEmptySeq
<1>2. CASE ~c.closed /\ es # <<>>
  <2> DEFINE d == Pushed(c, Head(es))
             f == [d EXCEPT !.queue = @ \o Tail(es)]
  <2>1. Head(es) \in E /\ Tail(es) \in Seq(E)
        BY <1>2
  <2>2. d \in Channels(E) /\ ~d.closed /\ ~d.waiting
        BY <1>2, <2>1, PushAppends DEF Pushed, Channels
  <2>3. Contents(d) = Contents(c) \o <<Head(es)>>
        BY <1>2, <2>1, PushAppends
  <2>4. PushedAll(c, es) = f
        BY <1>2 DEF PushedAll
  <2> HIDE DEF d
  <2>5. /\ d.queue \in Seq(E) /\ d.onTheWay \in Seq(E)
        /\ c.queue \in Seq(E) /\ c.onTheWay \in Seq(E)
        BY <2>2 DEF Channels
  <2>6. /\ f \in Channels(E) /\ f.closed = c.closed
        /\ f.onTheWay = d.onTheWay /\ f.queue = d.queue \o Tail(es)
        BY <1>2, <2>1, <2>2, <2>5, ConcatProperties DEF Channels
  <2> HIDE DEF f
  <2>7. Contents(f) = Contents(d) \o Tail(es)
        BY <2>1, <2>2, <2>6, BehindTheQueue
  <2>8. <<Head(es)>> \o Tail(es) = es
        BY <1>2
  <2>9. Contents(f) = Contents(c) \o es
    <3>1. Contents(c) \in Seq(E) /\ <<Head(es)>> \in Seq(E)
          BY <2>1, <2>5, ConcatProperties DEF Contents
    <3>2. (Contents(c) \o <<Head(es)>>) \o Tail(es)
             = Contents(c) \o (<<Head(es)>> \o Tail(es))
          BY <2>1, <3>1, Associative
    <3> QED BY <2>3, <2>7, <2>8, <3>2
  <2> QED BY <1>2, <2>4, <2>6, <2>9
<1> QED BY <1>1, <1>2

\* Closing keeps what is there, and taking removes the head of it.
LEMMA CloseKeeps ==
    ASSUME NEW E, NEW c \in Channels(E), NEW failure \in BOOLEAN
    PROVE  /\ Closed(c, failure) \in Channels(E) /\ Closed(c, failure).closed
           /\ Contents(Closed(c, failure)) = Contents(c)
BY DEF Closed, Channels, Contents

\* Taking removes the head of what is left.
LEMMA TakeRemovesHead ==
    ASSUME NEW E, NEW c \in Channels(E), HasEvent(c)
    PROVE  /\ Contents(c) \in Seq(E) /\ Taken(c) \in Channels(E)
           /\ Taken(c).closed = c.closed
           /\ Contents(Taken(c)) = Tail(Contents(c))
<1>1. c.queue \in Seq(E) /\ c.onTheWay \in Seq(E) /\ Len(c.onTheWay) <= 1
      BY DEF Channels
<1>2. Contents(c) \in Seq(E)
      BY <1>1, ConcatProperties DEF Contents
<1>3. CASE c.onTheWay = <<>>
  <2>1. Contents(c) = c.queue /\ c.queue # <<>>
        BY <1>1, <1>3, ConcatEmptySeq DEF Contents, HasEvent
  <2>2. Tail(c.queue) \in Seq(E)
        BY <1>1, <2>1
  <2>3. /\ Taken(c) \in Channels(E) /\ Taken(c).closed = c.closed
        /\ Taken(c).onTheWay = <<>> /\ Taken(c).queue = Tail(c.queue)
        BY <1>3, <2>2 DEF Taken, Channels, HasEvent
  <2> QED BY <1>2, <2>1, <2>2, <2>3, ConcatEmptySeq DEF Contents
<1>4. CASE c.onTheWay # <<>>
  <2>1. PICK e \in E : c.onTheWay = <<e>>
        BY <1>1, <1>4
  <2>2. Tail(c.onTheWay) = <<>>
        BY <2>1
  <2>3. /\ Taken(c) \in Channels(E) /\ Taken(c).closed = c.closed
        /\ Taken(c).onTheWay = <<>> /\ Taken(c).queue = c.queue
        BY <1>4, <2>2, EmptySeq DEF Taken, Channels, HasEvent
  <2>4. Contents(Taken(c)) = c.queue
        BY <1>1, <2>3, ConcatEmptySeq DEF Contents
  <2>5. Tail(<<e>> \o c.queue) = c.queue
        BY <1>1
  <2> QED BY <1>2, <2>1, <2>3, <2>4, <2>5 DEF Contents
<1> QED BY <1>3, <1>4

-----------------------------------------------------------------------------
(* The events.                                                             *)

\* What a message is mapped to are events of the turn, none of which is about
\* the session or about a prompt.
LEMMA EventsOfMessage ==
    ASSUME NEW m \in Messages
    PROVE  /\ StreamEvents(m) \in Seq(TurnEvents)
           /\ \A i \in DOMAIN StreamEvents(m) :
                 StreamEvents(m)[i].type \in {"item.complete", "turn.status"}
<1> DEFINE items == Normalize(<<LiveMessage(m)>>)  es == StreamEvents(m)
<1>1. items \in Seq(ToSet(items))
      BY MessageAssumption
<1>2. CASE m.type \in {"assistant", "user"}
  <2>1. es = [i \in DOMAIN items |-> [type |-> "item.complete", item |-> items[i]]]
        BY <1>2 DEF StreamEvents
  <2>2. PICK n \in Nat : DOMAIN items = 1 .. n
        BY <1>1
  <2> HIDE DEF items, es
  <2>3. \A i \in DOMAIN es : es[i] \in TurnEvents /\ es[i].type = "item.complete"
        BY <2>1 DEF es, TurnEvents, OfMessages, ToSet
  <2>4. es \in [1 .. n -> TurnEvents]
        BY <2>1, <2>2, <2>3
  <2> QED BY <2>3, <2>4 DEF es
<1>3. CASE m.type = "result"
  <2>1. es = <<[type |-> "turn.status"]>>
        BY <1>3 DEF StreamEvents
  <2>2. [type |-> "turn.status"] \in TurnEvents
        BY <2>1 DEF TurnEvents, OfMessages, ToSet
  <2> QED BY <2>1, <2>2
<1>4. CASE m.type \notin {"assistant", "user", "result"}
      BY <1>4 DEF StreamEvents
<1> QED BY <1>2, <1>3, <1>4

\* The events of a message announce the session before anything else, when it
\* is the first of a new session.
LEMMA EventsAnnounce ==
    ASSUME NEW m \in Messages
    PROVE  LET es == MessageEvents(m)
           IN  /\ es \in Seq(TurnEvents)
               /\ \A i \in DOMAIN es : /\ es[i].type # "approval.request"
                                       /\ (es[i].type = "session.new")
                                            <=> (i = 1 /\ kind = "new" /\ received = <<>>)
               /\ kind = "new" /\ received = <<>> => es # <<>>
<1> DEFINE es == MessageEvents(m)  s == StreamEvents(m)
<1>1. s \in Seq(TurnEvents) /\ \A i \in 1 .. Len(s) : s[i].type \in {"item.complete", "turn.status"}
      BY EventsOfMessage
<1>2. Announcement \in TurnEvents /\ Announcement.type = "session.new"
      BY DEF TurnEvents, Announcement
<1>3. CASE kind = "new" /\ received = <<>>
  <2>1. es = <<Announcement>> \o s
        BY <1>3 DEF MessageEvents
  <2> HIDE DEF s, es
  <2>2. /\ es \in Seq(TurnEvents) /\ Len(es) = Len(s) + 1
        /\ es[1] = Announcement /\ \A i \in 2 .. Len(es) : es[i] = s[i - 1]
        BY <1>1, <1>2, <2>1
  <2>3. ASSUME NEW i \in DOMAIN es
        PROVE  /\ es[i].type # "approval.request"
               /\ (es[i].type = "session.new") <=> i = 1
    <3>1. CASE i = 1
          BY <1>2, <2>2, <3>1
    <3>2. CASE i # 1
      <4>1. i \in 2 .. Len(es) /\ i - 1 \in 1 .. Len(s)
            BY <1>1, <2>2, <3>2
      <4> QED BY <1>1, <2>2, <3>2, <4>1
    <3> QED BY <3>1, <3>2
  <2>4. es # <<>>
        BY <1>1, <2>2
  <2> QED BY <1>3, <2>2, <2>3, <2>4 DEF es
<1>4. CASE ~(kind = "new" /\ received = <<>>)
  <2>1. es = s
        BY <1>1, <1>4, ConcatEmptySeq DEF MessageEvents
  <2> QED BY <1>1, <1>4, <2>1
<1> QED BY <1>3, <1>4

\* Where a sequence of events tells of a prompt, and that it tells of the
\* prompt what it should.
AboutIn(P, p) == {i \in DOMAIN P : P[i].type = "approval.request" /\ P[i].prompt = p}

ToldIn(P, p, v) ==
    CASE v = "none" -> AboutIn(P, p) = {}
      [] v = "asked" -> \E i \in AboutIn(P, p) : AboutIn(P, p) = {i} /\ P[i] = Ask(p)
      [] OTHER -> \E i, j \in AboutIn(P, p) :
                     /\ i < j /\ AboutIn(P, p) = {i, j}
                     /\ P[i] = Ask(p) /\ P[j] = Verdict(p, v)

\* A verdict that comes too late is not told of.
Untold(p) == channel.closed /\ verdict[p] \notin {"none", "asked"}

\* The phone was told of every prompt what its tool was told.
Informed ==
    \A p \in Prompts : \/ ToldIn(ClaudeProduced, p, verdict[p])
                       \/ Untold(p) /\ ToldIn(ClaudeProduced, p, "asked")

\* It is VerdictIsTold, without the cases.
LEMMA ToldInProduced == VerdictIsTold <=> Informed
<1> DEFINE P == ClaudeProduced
           One(p) == \E i \in AboutIn(P, p) : AboutIn(P, p) = {i} /\ P[i] = Ask(p)
           Two(p) == \E i, j \in AboutIn(P, p) :
                        /\ i < j /\ AboutIn(P, p) = {i, j}
                        /\ P[i] = Ask(p) /\ P[j] = Verdict(p, verdict[p])
           Right(p) == CASE verdict[p] = "none" -> AboutIn(P, p) = {}
                         [] verdict[p] = "asked" -> One(p)
                         [] OTHER -> Two(p) \/ (channel.closed /\ One(p))
           Stated(p) == CASE verdict[p] = "none" -> About(p) = {}
                          [] verdict[p] = "asked" ->
                               \E i \in About(p) : /\ About(p) = {i}
                                                   /\ ClaudeProduced[i] = Ask(p)
                          [] OTHER ->
                               \E i \in About(p) :
                                 /\ ClaudeProduced[i] = Ask(p)
                                 /\ \/ channel.closed /\ About(p) = {i}
                                    \/ \E j \in About(p) :
                                          /\ i < j /\ About(p) = {i, j}
                                          /\ ClaudeProduced[j] = Verdict(p, verdict[p])
<1>1. VerdictIsTold <=> \A p \in Prompts : Right(p)
  <2>1. VerdictIsTold <=> \A p \in Prompts : Stated(p)
        BY DEF VerdictIsTold
  <2>2. \A p : About(p) = AboutIn(P, p)
        BY DEF About, AboutIn
  <2> HIDE DEF P
  <2>3. ASSUME NEW p PROVE Stated(p) <=> Right(p)
    <3>1. CASE verdict[p] = "none"
          BY <2>2, <3>1
    <3>2. CASE verdict[p] = "asked"
          BY <2>2, <3>2 DEF P
    <3>3. CASE verdict[p] \notin {"none", "asked"}
          BY <2>2, <3>3 DEF P
    <3> QED BY <3>1, <3>2, <3>3
  <2> QED BY <2>1, <2>3
<1>2. \A p : /\ verdict[p] = "none" => (ToldIn(P, p, verdict[p]) <=> AboutIn(P, p) = {})
             /\ verdict[p] = "asked" => (ToldIn(P, p, verdict[p]) <=> One(p))
             /\ verdict[p] \notin {"none", "asked"} => (ToldIn(P, p, verdict[p]) <=> Two(p))
             /\ ToldIn(P, p, "asked") <=> One(p)
      BY DEF ToldIn
<1> HIDE DEF One, Two, P
<1>3. \A p : Right(p) <=> \/ ToldIn(P, p, verdict[p])
                          \/ Untold(p) /\ ToldIn(P, p, "asked")
      BY <1>2 DEF Untold
<1> QED BY <1>1, <1>3 DEF P, Informed

\* The same of the state after a step.
LEMMA ToldAfter ==
    ASSUME NEW Q, Q = ClaudeProduced',
           \A p \in Prompts : \/ ToldIn(Q, p, verdict'[p])
                              \/ Untold(p)' /\ ToldIn(Q, p, "asked")
    PROVE  VerdictIsTold'
<1>1. Informed'
      BY DEF Informed, ToldIn, AboutIn
<1> QED BY <1>1, ToldInProduced, PTL

\* Events that are not about a prompt change nothing of what is told of it.
LEMMA OthersTellNothing ==
    ASSUME NEW E, NEW P \in Seq(E), NEW es \in Seq(E), NEW p, NEW v,
           \A i \in DOMAIN es : es[i].type = "approval.request" => es[i].prompt # p,
           ToldIn(P, p, v)
    PROVE  ToldIn(P \o es, p, v)
<1> DEFINE Q == P \o es
<1>1. /\ Q \in Seq(E) /\ Len(Q) = Len(P) + Len(es)
      /\ \A i \in 1 .. Len(P) : Q[i] = P[i]
      /\ \A i \in Len(P) + 1 .. Len(Q) : i - Len(P) \in DOMAIN es /\ Q[i] = es[i - Len(P)]
      OBVIOUS
<1> HIDE DEF Q
<1>2. AboutIn(Q, p) = AboutIn(P, p)
  <2>1. /\ DOMAIN P = 1 .. Len(P) /\ Len(P) \in Nat
        /\ DOMAIN Q = 1 .. Len(Q) /\ Len(Q) \in Nat /\ Len(P) <= Len(Q)
        BY <1>1
  <2>2. ASSUME NEW i \in DOMAIN Q, i > Len(P)
        PROVE  ~(Q[i].type = "approval.request" /\ Q[i].prompt = p)
        BY <1>1, <2>1, <2>2
  <2>3. ASSUME NEW i \in DOMAIN P PROVE i \in DOMAIN Q /\ Q[i] = P[i]
        BY <1>1, <2>1
  <2>4. ASSUME NEW i \in DOMAIN Q PROVE i \in DOMAIN P \/ i > Len(P)
        BY <2>1
  <2> QED BY <2>2, <2>3, <2>4 DEF AboutIn
<1>3. \A i \in AboutIn(P, p) : Q[i] = P[i]
      BY <1>1 DEF AboutIn
<1>4. ToldIn(Q, p, v)
      BY <1>2, <1>3 DEF ToldIn
<1> QED BY <1>4 DEF Q

\* A prompt is told of behind everything else.
LEMMA TellsOf ==
    ASSUME NEW E, NEW P \in Seq(E), NEW e \in E, NEW p,
           e.type = "approval.request", e.prompt = p
    PROVE  /\ AboutIn(P \o <<e>>, p) = AboutIn(P, p) \cup {Len(P) + 1}
           /\ (P \o <<e>>)[Len(P) + 1] = e
<1> DEFINE Q == P \o <<e>>
<1>1. /\ Q \in Seq(E) /\ Len(Q) = Len(P) + 1 /\ Q[Len(P) + 1] = e
      /\ \A i \in 1 .. Len(P) : Q[i] = P[i]
      OBVIOUS
<1> HIDE DEF Q
<1>2. AboutIn(Q, p) = AboutIn(P, p) \cup {Len(P) + 1}
      BY <1>1 DEF AboutIn
<1> QED BY <1>1, <1>2 DEF Q

\* The question is told first.
LEMMA AskTells ==
    ASSUME NEW E, NEW P \in Seq(E), NEW p, Ask(p) \in E, ToldIn(P, p, "none")
    PROVE  ToldIn(P \o <<Ask(p)>>, p, "asked")
<1>1. Ask(p).type = "approval.request" /\ Ask(p).prompt = p
      BY DEF Ask
<1>2. AboutIn(P, p) = {}
      BY DEF ToldIn
<1>3. AboutIn(P \o <<Ask(p)>>, p) = {Len(P) + 1}
      BY <1>1, <1>2, TellsOf
<1>4. (P \o <<Ask(p)>>)[Len(P) + 1] = Ask(p)
      BY <1>1, TellsOf
<1> QED BY <1>3, <1>4 DEF ToldIn

\* The verdict is told behind it.
LEMMA VerdictTells ==
    ASSUME NEW E, NEW P \in Seq(E), NEW p, NEW v \in {"allow", "deny"},
           NEW e \in E, e = Verdict(p, v), ToldIn(P, p, "asked")
    PROVE  ToldIn(P \o <<e>>, p, v)
<1>1. e.type = "approval.request" /\ e.prompt = p
      BY DEF Verdict
<1>2. PICK i \in AboutIn(P, p) : AboutIn(P, p) = {i} /\ P[i] = Ask(p)
      BY DEF ToldIn
<1> DEFINE Q == P \o <<e>>
<1>3. AboutIn(Q, p) = AboutIn(P, p) \cup {Len(P) + 1}
      BY <1>1, TellsOf
<1>4. /\ \A k \in AboutIn(P, p) : k < Len(P) + 1 /\ Q[k] = P[k]
      /\ Q[Len(P) + 1] = e
      BY DEF AboutIn
<1> HIDE DEF Q
<1>5. /\ AboutIn(Q, p) = {i, Len(P) + 1} /\ Q[Len(P) + 1] = e
      /\ i < Len(P) + 1 /\ Q[i] = Ask(p)
      BY <1>2, <1>3, <1>4
<1>6. ToldIn(Q, p, v)
      BY <1>5 DEF ToldIn
<1> QED BY <1>6 DEF Q

-----------------------------------------------------------------------------
(* What the steps do to the stream.                                        *)

\* The produced events are events of the turn.
LEMMA ProducedType ==
    ASSUME StreamTypes
    PROVE  /\ Contents(channel) \in Seq(TurnEvents)
           /\ ClaudeProduced \in Seq(TurnEvents)
<1>1. Contents(channel) \in Seq(TurnEvents)
      BY ConcatProperties DEF StreamTypes, Channels, Contents
<1> QED BY <1>1, ConcatProperties DEF StreamTypes, ClaudeProduced

\* A step of the SDK or of a prompt: the events are produced behind all that
\* were, none of them when the channel is closed.
Produces(es) ==
    /\ UNCHANGED callVars
    /\ channel' \in Channels(TurnEvents) /\ channel'.closed = channel.closed
    /\ IF channel.closed
       THEN channel' = channel /\ ClaudeProduced' = ClaudeProduced
       ELSE ClaudeProduced' = ClaudeProduced \o es

Closes ==
    /\ UNCHANGED callVars /\ result = "open"
    /\ channel' \in Channels(TurnEvents) /\ channel'.closed
    /\ ClaudeProduced' = ClaudeProduced

\* A step of the gateway: it asks, it takes the next event, it ends.
Waits ==
    /\ UNCHANGED callVars /\ result = "open" /\ step = "streaming"
    /\ channel' \in Channels(TurnEvents) /\ channel'.closed = channel.closed
    /\ ClaudeProduced' = ClaudeProduced

Takes ==
    /\ result = "open" /\ result' = "open" /\ step = "streaming"
    /\ UNCHANGED <<provider, kind, allowed>>
    /\ channel' \in Channels(TurnEvents) /\ channel'.closed = channel.closed
    /\ \E e \in TurnEvents : taken' = taken \o <<e>>
    /\ ClaudeProduced' = ClaudeProduced

Leaves ==
    /\ result = "open" /\ result' \in {"done", "failed"}
    /\ UNCHANGED <<provider, kind, allowed, taken, channel>>
    /\ Contents(channel) = <<>>
    /\ result' = "done" \/ step = "streaming" => channel.closed

\* Pushing produces.
LEMMA PushProduces ==
    ASSUME StreamTypes, NEW es \in Seq(TurnEvents), UNCHANGED callVars,
           \/ channel' = PushedAll(channel, es)
           \/ \E e \in TurnEvents : es = <<e>> /\ channel' = Pushed(channel, e)
    PROVE  Produces(es)
<1>1. channel \in Channels(TurnEvents) /\ taken \in Seq(TurnEvents) /\ taken' = taken
      BY DEF StreamTypes, callVars
<1>2. /\ channel' \in Channels(TurnEvents) /\ channel'.closed = channel.closed
      /\ channel.closed => channel' = channel
      /\ ~channel.closed => Contents(channel') = Contents(channel) \o es
  <2>1. CASE channel' = PushedAll(channel, es)
        BY <1>1, <2>1, PushAllAppends
  <2>2. CASE \E e \in TurnEvents : es = <<e>> /\ channel' = Pushed(channel, e)
        BY <1>1, <2>2, PushAppends
  <2> QED BY <2>1, <2>2
<1>3. ClaudeProduced' = taken \o Contents(channel')
      BY <1>1 DEF ClaudeProduced, Contents
<1>4. CASE channel.closed
      BY <1>2, <1>3, <1>4 DEF Produces, ClaudeProduced
<1>5. CASE ~channel.closed
  <2>1. Contents(channel) \in Seq(TurnEvents)
        BY ProducedType
  <2>2. taken \o (Contents(channel) \o es) = (taken \o Contents(channel)) \o es
        BY <1>1, <2>1, Associative
  <2> QED BY <1>2, <1>3, <1>5, <2>2 DEF Produces, ClaudeProduced
<1> QED BY <1>4, <1>5

\* Closing closes.
LEMMA CloseCloses ==
    ASSUME StreamTypes, NEW failure \in BOOLEAN, UNCHANGED callVars,
           result = "open", channel' = Closed(channel, failure)
    PROVE  Closes
<1>1. channel \in Channels(TurnEvents) /\ taken' = taken
      BY DEF StreamTypes, callVars
<1>2. /\ channel' \in Channels(TurnEvents) /\ channel'.closed
      /\ Contents(channel') = Contents(channel)
      BY <1>1, CloseKeeps
<1>3. ClaudeProduced' = taken \o Contents(channel')
      BY <1>1 DEF ClaudeProduced, Contents
<1> QED BY <1>2, <1>3 DEF Closes, ClaudeProduced

\* The gateway takes the event at the head of what is left.
LEMMA TakeTakes ==
    ASSUME StreamTypes, TakeEvent
    PROVE  Takes
<1>1. /\ channel \in Channels(TurnEvents) /\ taken \in Seq(TurnEvents)
      /\ HasEvent(channel) /\ channel' = Taken(channel)
      /\ taken' = taken \o <<Head(Contents(channel))>>
      BY DEF StreamTypes, TakeEvent, Receive
<1>2. PICK s \in Seq(TurnEvents) :
         /\ s = Contents(channel) /\ s # <<>>
         /\ channel' \in Channels(TurnEvents) /\ channel'.closed = channel.closed
         /\ Contents(channel') = Tail(s)
      BY <1>1, TakeRemovesHead DEF HasEvent
<1>3. /\ Head(s) \in TurnEvents /\ Tail(s) \in Seq(TurnEvents)
      /\ <<Head(s)>> \o Tail(s) = s /\ <<Head(s)>> \in Seq(TurnEvents)
      BY <1>2
<1>4. ClaudeProduced' = taken' \o Contents(channel')
      BY DEF ClaudeProduced, Contents
<1>5. taken \o (<<Head(s)>> \o Tail(s)) = (taken \o <<Head(s)>>) \o Tail(s)
      BY <1>1, <1>3, Associative
<1>6. ClaudeProduced' = ClaudeProduced
      BY <1>1, <1>2, <1>3, <1>4, <1>5 DEF ClaudeProduced
<1> QED BY <1>1, <1>2, <1>3, <1>6 DEF Takes, TakeEvent, Receive

\* The consumer that finds nothing waits.
LEMMA AwaitWaits ==
    ASSUME StreamTypes, AwaitEvent
    PROVE  Waits
<1>1. /\ channel \in Channels(TurnEvents) /\ MustWait(channel)
      /\ channel' = [channel EXCEPT !.waiting = TRUE]
      BY DEF StreamTypes, AwaitEvent, Awaited
<1>2. channel.queue = <<>> /\ channel.onTheWay = <<>>
      BY <1>1, ConcatEqualIffEmpty DEF MustWait, Contents, Channels
<1>3. /\ channel' \in Channels(TurnEvents) /\ channel'.closed = channel.closed
      /\ channel'.queue = channel.queue /\ channel'.onTheWay = channel.onTheWay
      BY <1>1, <1>2 DEF Channels, MustWait
<1>4. ClaudeProduced' = ClaudeProduced
      BY <1>3 DEF ClaudeProduced, Contents, AwaitEvent, callVars
<1> QED BY <1>3, <1>4 DEF Waits, AwaitEvent

\* The gateway leaves when nothing is left.
LEMMA EndLeaves ==
    ASSUME EndTurn
    PROVE  Leaves
BY DEF EndTurn, AtEnd, Throw, Return, Leaves, claudeVars

-----------------------------------------------------------------------------
(* The invariant holds in the initial states and is kept by every step.    *)

\* The initial states.
LEMMA ClaudeInitInv ==
    CallInit /\ ClaudeInit /\ kind \in Turns => ClaudeInv
<1> SUFFICES ASSUME CallInit, ClaudeInit, kind \in Turns PROVE ClaudeInv
    OBVIOUS
<1>1. /\ taken = <<>> /\ channel = Opened /\ result = "open"
      /\ \A p \in Prompts : verdict[p] = "none" /\ answered[p] = "none"
      BY DEF CallInit, ClaudeInit
<1>2. StreamTypes
      BY <1>1 DEF StreamTypes, Opened, Channels, CallInit
<1>3. Contents(channel) = <<>> /\ ClaudeProduced = <<>>
      BY <1>1 DEF Contents, ClaudeProduced, Opened
<1>4. ClaudeTypeOK
      BY <1>1 DEF ClaudeTypeOK, ClaudeInit, Opened
<1>5. Idle /\ Ended /\ Bookkeeping /\ AcceptedAnswerStands
      BY <1>1 DEF Idle, Ended, Bookkeeping, AcceptedAnswerStands, ClaudeInit
<1>6. VerdictIsTold /\ Announced
      BY <1>1, <1>3 DEF VerdictIsTold, About, Announced, AnnouncedIn, ClaudeInit
<1> QED BY <1>2, <1>4, <1>5, <1>6 DEF ClaudeInv

\* The types, after a step of any kind.
LEMMA TypesAfter ==
    ASSUME StreamTypes, ClaudeTypeOK, mode' = mode,
           step' \in {"ready", "lookup", "streaming"},
           verdict' \in [Prompts -> {"none", "asked", "allow", "deny"}],
           pendingApprovals' \subseteq Prompts, timers' \subseteq Prompts,
           answered' \in [Prompts -> {"none", "allow", "deny"}],
           \/ \E es \in Seq(TurnEvents) : Produces(es)
           \/ Closes \/ Waits \/ Takes \/ Leaves
    PROVE  StreamTypes' /\ ClaudeTypeOK'
<1>1. /\ channel' \in Channels(TurnEvents) /\ taken' \in Seq(TurnEvents)
      /\ kind' \in Turns /\ result' \in {"open", "done", "failed"}
  <2>1. CASE Takes
    <3>1. PICK e \in TurnEvents : taken' = taken \o <<e>>
          BY <2>1 DEF Takes
    <3>2. taken' \in Seq(TurnEvents)
          BY <3>1 DEF StreamTypes
    <3> QED BY <2>1, <3>2 DEF Takes, StreamTypes
  <2>2. CASE Leaves
        BY <2>2 DEF Leaves, StreamTypes
  <2>3. CASE Closes \/ Waits
        BY <2>3 DEF Closes, Waits, StreamTypes, callVars
  <2>4. CASE \E es \in Seq(TurnEvents) : Produces(es)
    <3>1. UNCHANGED callVars /\ channel' \in Channels(TurnEvents)
          BY <2>4 DEF Produces
    <3> QED BY <3>1 DEF StreamTypes, callVars
  <2> QED BY <2>1, <2>2, <2>3, <2>4
<1>2. channel'.waiting => channel'.onTheWay \o channel'.queue = <<>> /\ ~channel'.closed
      BY <1>1, ConcatEmptySeq, EmptySeq DEF Channels
<1>3. Len(channel'.onTheWay) <= 1
      BY <1>1 DEF Channels
<1> QED BY <1>1, <1>2, <1>3 DEF StreamTypes, ClaudeTypeOK, Contents

\* What may come behind events that are announced.
LEMMA AnnouncedBehind ==
    ASSUME NEW E, NEW P \in Seq(E), NEW es \in Seq(E), AnnouncedIn(P),
           \A i \in DOMAIN es :
              \/ es[i].type = "approval.request"
              \/ /\ es[i].type = "session.new" /\ i = 1 /\ kind = "new"
                 /\ \A j \in DOMAIN P : P[j].type = "approval.request"
              \/ /\ es[i].type \notin {"session.new", "approval.request"}
                 /\ kind = "new" => \/ \E j \in DOMAIN P : P[j].type = "session.new"
                                    \/ \E j \in 1 .. i - 1 : es[j].type = "session.new"
    PROVE  AnnouncedIn(P \o es)
<1> DEFINE Q == P \o es
<1>1. /\ Len(Q) = Len(P) + Len(es) /\ Len(P) \in Nat /\ Len(es) \in Nat
      /\ DOMAIN Q = 1 .. Len(Q) /\ DOMAIN P = 1 .. Len(P) /\ DOMAIN es = 1 .. Len(es)
      /\ \A i \in 1 .. Len(P) : Q[i] = P[i]
      /\ \A i \in 1 .. Len(es) : Q[Len(P) + i] = es[i]
      OBVIOUS
<1> HIDE DEF Q
<1>2. ASSUME NEW i \in DOMAIN Q
      PROVE  /\ Q[i].type = "session.new" =>
                   kind = "new" /\ \A j \in 1 .. i - 1 : Q[j].type = "approval.request"
             /\ Q[i].type \notin {"session.new", "approval.request"} /\ kind = "new" =>
                   \E j \in 1 .. i - 1 : Q[j].type = "session.new"
  <2>1. CASE i <= Len(P)
    <3>1. i \in DOMAIN P /\ \A j \in 1 .. i - 1 : Q[j] = P[j]
          BY <1>1, <2>1
    <3> QED BY <1>1, <3>1 DEF AnnouncedIn
  <2>2. CASE i > Len(P)
    <3>1. PICK k \in DOMAIN es : i = Len(P) + k
      <4>1. i - Len(P) \in DOMAIN es /\ i = Len(P) + (i - Len(P))
            BY <1>1, <2>2
      <4> QED BY <4>1
    <3>2. Q[i] = es[k] /\ k \in 1 .. Len(es)
          BY <1>1, <3>1
    <3>3. CASE es[k].type = "approval.request"
          BY <3>2, <3>3
    <3>4. CASE es[k].type = "session.new"
      <4>1. /\ k = 1 /\ kind = "new"
            /\ \A j \in DOMAIN P : P[j].type = "approval.request"
            BY <3>4
      <4>2. 1 .. i - 1 = DOMAIN P
            BY <1>1, <3>1, <4>1
      <4> QED BY <1>1, <3>2, <3>4, <4>1, <4>2
    <3>5. CASE es[k].type \notin {"session.new", "approval.request"} /\ kind = "new"
      <4>1. CASE \E j \in DOMAIN P : P[j].type = "session.new"
        <5>1. PICK j \in DOMAIN P : P[j].type = "session.new"
              BY <4>1
        <5>2. j \in 1 .. i - 1 /\ Q[j].type = "session.new"
              BY <1>1, <2>2, <5>1
        <5> QED BY <3>2, <3>5, <5>2
      <4>2. CASE \E j \in 1 .. k - 1 : es[j].type = "session.new"
        <5>1. PICK j \in 1 .. k - 1 : es[j].type = "session.new"
              BY <4>2
        <5>2. Len(P) + j \in 1 .. i - 1 /\ Q[Len(P) + j].type = "session.new"
              BY <1>1, <3>1, <3>2, <5>1
        <5> QED BY <3>2, <3>5, <5>2
      <4> QED BY <3>5, <4>1, <4>2
    <3>6. CASE es[k].type \notin {"session.new", "approval.request"} /\ kind # "new"
          BY <3>2, <3>6
    <3> QED BY <3>3, <3>4, <3>5, <3>6
  <2> QED BY <1>1, <2>1, <2>2
<1> QED BY <1>2 DEF AnnouncedIn, Q

\* A prompt and its verdict may come at any time.
LEMMA AnnouncedWithPrompts ==
    ASSUME StreamTypes, Announced, NEW es \in Seq(TurnEvents),
           kind' = kind, received' = received,
           ClaudeProduced' = ClaudeProduced \o es,
           \A i \in DOMAIN es : es[i].type = "approval.request"
    PROVE  Announced'
<1>1. PICK P, Q : P = ClaudeProduced /\ Q = ClaudeProduced'
      OBVIOUS
<1>2. P \in Seq(TurnEvents) /\ Q = P \o es
      BY <1>1, ProducedType
<1>3. /\ AnnouncedIn(P)
      /\ received = <<>> => \A i \in DOMAIN P : P[i].type = "approval.request"
      /\ kind = "new" /\ received # <<>> => \E i \in DOMAIN P : P[i].type = "session.new"
      BY <1>1 DEF Announced
<1>4. AnnouncedIn(Q)
      BY <1>2, <1>3, AnnouncedBehind
<1>5. /\ \A i \in DOMAIN P : i \in DOMAIN Q /\ Q[i] = P[i]
      /\ \A i \in DOMAIN Q : \/ i \in DOMAIN P
                             \/ i - Len(P) \in DOMAIN es /\ Q[i] = es[i - Len(P)]
      BY <1>2
<1>6. received = <<>> => \A i \in DOMAIN Q : Q[i].type = "approval.request"
      BY <1>3, <1>5
<1>7. kind = "new" /\ received # <<>> => \E i \in DOMAIN Q : Q[i].type = "session.new"
      BY <1>3, <1>5
<1>8. AnnouncedIn(ClaudeProduced)'
      BY <1>1, <1>4 DEF AnnouncedIn
<1> QED BY <1>1, <1>6, <1>7, <1>8 DEF Announced

\* The first message of a new session announces it.
LEMMA AnnouncedWithMessage ==
    ASSUME StreamTypes, Announced, NEW es \in Seq(TurnEvents),
           kind' = kind, received' # <<>>,
           ClaudeProduced' = ClaudeProduced \o es,
           \A i \in DOMAIN es : /\ es[i].type # "approval.request"
                                /\ (es[i].type = "session.new")
                                      <=> (i = 1 /\ kind = "new" /\ received = <<>>),
           kind = "new" /\ received = <<>> => es # <<>>
    PROVE  Announced'
<1>1. PICK P, Q : P = ClaudeProduced /\ Q = ClaudeProduced'
      OBVIOUS
<1>2. P \in Seq(TurnEvents) /\ Q = P \o es
      BY <1>1, ProducedType
<1>3. /\ AnnouncedIn(P)
      /\ received = <<>> => \A i \in DOMAIN P : P[i].type = "approval.request"
      /\ kind = "new" /\ received # <<>> => \E i \in DOMAIN P : P[i].type = "session.new"
      BY <1>1 DEF Announced
<1>4. kind = "new" /\ received = <<>> => 1 \in DOMAIN es /\ es[1].type = "session.new"
  <2>1. es # <<>> => 1 \in DOMAIN es
        OBVIOUS
  <2> QED BY <2>1
<1>5. ASSUME NEW i \in DOMAIN es, es[i].type # "session.new", kind = "new"
      PROVE  \/ \E j \in DOMAIN P : P[j].type = "session.new"
             \/ \E j \in 1 .. i - 1 : es[j].type = "session.new"
  <2>1. CASE received # <<>>
        BY <1>3, <1>5, <2>1
  <2>2. CASE received = <<>>
    <3>1. i # 1 /\ i \in 1 .. Len(es)
          BY <1>5, <2>2
    <3>2. 1 \in 1 .. i - 1
          BY <3>1
    <3> QED BY <1>4, <1>5, <2>2, <3>2
  <2> QED BY <2>1, <2>2
<1>6. AnnouncedIn(Q)
  <2>1. ASSUME NEW i \in DOMAIN es
        PROVE  \/ /\ es[i].type = "session.new" /\ i = 1 /\ kind = "new"
                  /\ \A j \in DOMAIN P : P[j].type = "approval.request"
               \/ /\ es[i].type \notin {"session.new", "approval.request"}
                  /\ kind = "new" => \/ \E j \in DOMAIN P : P[j].type = "session.new"
                                     \/ \E j \in 1 .. i - 1 : es[j].type = "session.new"
    <3>1. CASE es[i].type = "session.new"
      <4>1. i = 1 /\ kind = "new" /\ received = <<>>
            BY <3>1
      <4> QED BY <1>3, <3>1, <4>1
    <3>2. CASE es[i].type # "session.new"
      <4>1. es[i].type # "approval.request"
            OBVIOUS
      <4> QED BY <1>5, <3>2, <4>1
    <3> QED BY <3>1, <3>2
  <2> QED BY <1>2, <1>3, <2>1, AnnouncedBehind
<1>7. kind = "new" => \E i \in DOMAIN Q : Q[i].type = "session.new"
  <2>1. CASE received # <<>>
    <3>1. \A i \in DOMAIN P : i \in DOMAIN Q /\ Q[i] = P[i]
          BY <1>2
    <3> QED BY <1>3, <2>1, <3>1
  <2>2. CASE received = <<>> /\ kind = "new"
    <3>1. 1 \in DOMAIN es => Len(P) + 1 \in DOMAIN Q /\ Q[Len(P) + 1] = es[1]
          BY <1>2
    <3> QED BY <1>4, <2>2, <3>1
  <2> QED BY <2>1, <2>2
<1>8. AnnouncedIn(ClaudeProduced)'
      BY <1>1, <1>6 DEF AnnouncedIn
<1> QED BY <1>1, <1>7, <1>8 DEF Announced

\* Before the turn runs: the call is refused, the session is looked up.
LEMMA CallKeeps ==
    ASSUME ClaudeInv, ClaudeCall \/ LookupAnswers \/ LookupFails
    PROVE  /\ ClaudeInv'
           /\ Produces(<<>>) \/ Leaves
<1>1. /\ step \in {"ready", "lookup"} /\ result = "open"
      /\ UNCHANGED <<provider, kind, allowed, taken, mode, channel, received, promptVars>>
      /\ \/ step' \in {"lookup", "streaming"} /\ result' = result
         \/ step' = step /\ result' = "failed"
      BY DEF ClaudeCall, LookupAnswers, LookupFails, Throw, callVars, claudeVars, promptVars
<1> USE DEF ClaudeInv
<1>2. channel = Opened /\ taken = <<>> /\ \A p \in Prompts : verdict[p] = "none"
      BY <1>1 DEF Idle
<1>3. Contents(channel) = <<>> /\ ClaudeProduced' = ClaudeProduced
      BY <1>1, <1>2 DEF Contents, ClaudeProduced, Opened
<1>4. Produces(<<>>) \/ Leaves
  <2>1. CASE result' = result
    <3>1. ClaudeProduced \o <<>> = ClaudeProduced
          BY ProducedType, ConcatEmptySeq
    <3> QED BY <1>1, <1>3, <2>1, <3>1 DEF Produces, StreamTypes, callVars
  <2>2. CASE result' = "failed"
        BY <1>1, <1>3, <2>2 DEF Leaves
  <2> QED BY <1>1, <2>1, <2>2
<1>5. StreamTypes' /\ ClaudeTypeOK'
  <2>1. \/ \E es \in Seq(TurnEvents) : Produces(es)
        \/ Leaves
        BY <1>4, EmptySeq
  <2> QED BY <1>1, <2>1, TypesAfter DEF ClaudeTypeOK, promptVars
<1>6. Idle' /\ Ended' /\ Bookkeeping' /\ AcceptedAnswerStands'
      BY <1>1, <1>2, <1>3
         DEF Idle, Ended, Bookkeeping, AcceptedAnswerStands, promptVars, Contents
<1>7. VerdictIsTold' /\ Announced'
      BY <1>1, <1>3 DEF VerdictIsTold, About, Announced, AnnouncedIn, promptVars
<1> QED BY <1>4, <1>5, <1>6, <1>7

\* A message: its events are behind what was produced, a first one announces.
LEMMA MessageKeeps ==
    ASSUME ClaudeInv, NEW m \in Messages, StreamMessage(m)
    PROVE  /\ ClaudeInv'
           /\ \E es \in Seq(TurnEvents) : Produces(es)
<1> USE DEF ClaudeInv
<1> DEFINE es == MessageEvents(m)
<1>1. /\ step = "streaming" /\ ~channel.closed /\ received' = Append(received, m)
      /\ channel' = PushedAll(channel, es)
      /\ UNCHANGED <<provider, kind, allowed, taken, result>>
      /\ UNCHANGED <<mode, step, verdict, pendingApprovals, timers, answered>>
      BY DEF StreamMessage, Running, callVars, promptVars
<1>2. /\ es \in Seq(TurnEvents)
      /\ \A i \in DOMAIN es : /\ es[i].type # "approval.request"
                              /\ (es[i].type = "session.new")
                                    <=> (i = 1 /\ kind = "new" /\ received = <<>>)
      /\ kind = "new" /\ received = <<>> => es # <<>>
      BY EventsAnnounce
<1> HIDE DEF es
<1>3. Produces(es)
      BY <1>1, <1>2, PushProduces DEF callVars
<1>4. ClaudeProduced' = ClaudeProduced \o es /\ ~channel'.closed
      BY <1>1, <1>3 DEF Produces
<1>5. StreamTypes' /\ ClaudeTypeOK'
      BY <1>1, <1>2, <1>3, TypesAfter DEF ClaudeTypeOK
<1>6. Idle' /\ Ended' /\ Bookkeeping' /\ AcceptedAnswerStands'
      BY <1>1 DEF Idle, Ended, Bookkeeping, AcceptedAnswerStands
<1>7. VerdictIsTold'
  <2>1. PICK P, Q : P = ClaudeProduced /\ Q = ClaudeProduced'
        OBVIOUS
  <2>2. Q = P \o es /\ P \in Seq(TurnEvents)
        BY <1>4, <2>1, ProducedType
  <2>3. ASSUME NEW p \in Prompts PROVE ToldIn(Q, p, verdict[p])
    <3>1. ToldIn(P, p, verdict[p])
          BY <1>1, <2>1, ToldInProduced DEF Informed, Untold
    <3> QED BY <1>2, <2>2, <3>1, OthersTellNothing
  <2> QED BY <1>1, <2>1, <2>3, ToldAfter
<1>8. Announced'
  <2>1. received' # <<>>
        BY <1>1
  <2> QED BY <1>1, <1>2, <1>4, <2>1, AnnouncedWithMessage
<1> QED BY <1>2, <1>3, <1>5, <1>6, <1>7, <1>8

\* The stream ends or breaks: what was produced stays.
LEMMA EndKeeps ==
    ASSUME ClaudeInv, StreamEnds \/ StreamBreaks
    PROVE  ClaudeInv' /\ Closes
<1> USE DEF ClaudeInv
<1>1. /\ step = "streaming" /\ ~channel.closed
      /\ channel' = Closed(channel, FALSE) \/ channel' = Closed(channel, TRUE)
      /\ UNCHANGED <<provider, kind, allowed, taken, result>>
      /\ UNCHANGED <<mode, step, received, verdict, pendingApprovals, timers, answered>>
      BY DEF StreamEnds, StreamBreaks, Running, callVars, promptVars
<1>2. result = "open"
      BY <1>1 DEF Ended, StreamTypes
<1>3. Closes
      BY <1>1, <1>2, CloseCloses DEF callVars
<1>4. StreamTypes' /\ ClaudeTypeOK'
      BY <1>1, <1>3, TypesAfter DEF ClaudeTypeOK
<1>5. Idle' /\ Ended' /\ Bookkeeping' /\ AcceptedAnswerStands' /\ Announced'
      BY <1>1, <1>2, <1>3
         DEF Idle, Ended, Bookkeeping, AcceptedAnswerStands, Announced,
             AnnouncedIn, Closes
<1>6. VerdictIsTold'
      BY <1>1, <1>3 DEF VerdictIsTold, About, Closes
<1> QED BY <1>3, <1>4, <1>5, <1>6

\* The waiting, the taking and the leaving of the gateway change nothing of
\* what was produced, nor of the prompts.
LEMMA GatewayKeeps ==
    ASSUME ClaudeInv, AwaitEvent \/ TakeEvent \/ EndTurn
    PROVE  ClaudeInv' /\ (Waits \/ Takes \/ Leaves)
<1> USE DEF ClaudeInv
<1>1. /\ step = "streaming" /\ result = "open"
      /\ UNCHANGED <<provider, kind, allowed>>
      /\ UNCHANGED <<mode, step, received, verdict, pendingApprovals, timers, answered>>
      BY DEF AwaitEvent, TakeEvent, EndTurn, Receive, Throw, Return, callVars,
             claudeVars, promptVars
<1>2. Waits \/ Takes \/ Leaves
      BY AwaitWaits, TakeTakes, EndLeaves
<1>3. StreamTypes' /\ ClaudeTypeOK'
      BY <1>1, <1>2, TypesAfter DEF ClaudeTypeOK
<1>4. ClaudeProduced' = ClaudeProduced /\ channel'.closed = channel.closed
      BY <1>2 DEF Waits, Takes, Leaves, ClaudeProduced, Contents
<1>5. Ended'
      BY <1>1, <1>2 DEF Ended, Waits, Takes, Leaves, Contents, callVars
<1>6. Idle' /\ Bookkeeping' /\ AcceptedAnswerStands' /\ Announced' /\ VerdictIsTold'
      BY <1>1, <1>4 DEF Idle, Bookkeeping, AcceptedAnswerStands, Announced,
                        AnnouncedIn, VerdictIsTold, About
<1> QED BY <1>2, <1>3, <1>5, <1>6

\* A prompt is raised while the channel is open: it is told of at once.
LEMMA AskKeeps ==
    ASSUME ClaudeInv, NEW p \in Prompts, SdkAsks(p)
    PROVE  ClaudeInv' /\ Produces(<<Ask(p)>>)
<1> USE DEF ClaudeInv
<1> DEFINE es == <<Ask(p)>>
<1>1. /\ step = "streaming" /\ ~channel.closed /\ verdict[p] = "none"
      /\ channel' = Pushed(channel, Ask(p))
      /\ verdict' = [verdict EXCEPT ![p] = "asked"]
      /\ timers' = timers \cup {p} /\ pendingApprovals' = pendingApprovals \cup {p}
      /\ UNCHANGED <<provider, kind, allowed, taken, result>>
      /\ UNCHANGED <<mode, step, received, answered>>
      BY DEF SdkAsks, AwaitPhoneAnswer, Running, callVars
<1>2. Ask(p) \in TurnEvents /\ es \in Seq(TurnEvents)
      BY DEF TurnEvents, Asks
<1>3. Produces(es)
      BY <1>1, <1>2, PushProduces DEF callVars
<1>4. ClaudeProduced' = ClaudeProduced \o es /\ ~channel'.closed
      BY <1>1, <1>3 DEF Produces
<1>5. verdict \in [Prompts -> {"none", "asked", "allow", "deny"}]
      BY DEF ClaudeTypeOK
<1>6. StreamTypes' /\ ClaudeTypeOK'
      BY <1>1, <1>2, <1>3, <1>5, TypesAfter DEF ClaudeTypeOK
<1>7. Idle' /\ Ended' /\ Bookkeeping'
      BY <1>1, <1>5 DEF Idle, Ended, Bookkeeping
<1>8. AcceptedAnswerStands'
      BY <1>1, <1>5 DEF AcceptedAnswerStands, ClaudeTypeOK
<1>9. VerdictIsTold'
  <2>1. PICK P, Q : P = ClaudeProduced /\ Q = ClaudeProduced'
        OBVIOUS
  <2>2. Q = P \o es /\ P \in Seq(TurnEvents)
        BY <1>4, <2>1, ProducedType
  <2>3. ASSUME NEW q \in Prompts PROVE ToldIn(Q, q, verdict'[q])
    <3>1. ToldIn(P, q, verdict[q])
          BY <1>1, <2>1, ToldInProduced DEF Informed, Untold
    <3>2. CASE q = p
      <4>1. verdict'[q] = "asked"
            BY <1>1, <1>5, <3>2
      <4> QED BY <1>1, <1>2, <2>2, <3>1, <3>2, <4>1, AskTells
    <3>3. CASE q # p
      <4>1. \A i \in DOMAIN es : es[i].type = "approval.request" => es[i].prompt # q
            BY <3>3 DEF Ask
      <4>2. verdict'[q] = verdict[q]
            BY <1>1, <1>5, <3>3
      <4> QED BY <1>2, <2>2, <3>1, <4>1, <4>2, OthersTellNothing
    <3> QED BY <3>2, <3>3
  <2> QED BY <2>1, <2>3, ToldAfter
<1>10. Announced'
  <2>1. \A i \in DOMAIN es : es[i].type = "approval.request"
        BY DEF Ask
  <2> QED BY <1>1, <1>2, <1>4, <2>1, AnnouncedWithPrompts
<1> QED BY <1>3, <1>6, <1>7, <1>8, <1>9, <1>10

\* A prompt is settled while its tool waits: its verdict is told once, after
\* it, or not at all when the stream has ended.
LEMMA SettleKeeps ==
    ASSUME ClaudeInv, NEW p \in Prompts, NEW v \in {"allow", "deny"},
           verdict[p] = "asked", Settle(p, v), UNCHANGED callVars,
           mode' = mode, step' = step, received' = received,
           answered' = answered \/ answered' = [answered EXCEPT ![p] = v]
    PROVE  ClaudeInv' /\ Produces(<<Verdict(p, v)>>)
<1> USE DEF ClaudeInv
<1> DEFINE es == <<Verdict(p, v)>>
<1>1. /\ channel' = Pushed(channel, Verdict(p, v))
      /\ timers' = timers \ {p} /\ pendingApprovals' = pendingApprovals \ {p}
      /\ UNCHANGED <<provider, kind, allowed, taken, result>>
      BY DEF Settle, callVars
<1>2. verdict \in [Prompts -> {"none", "asked", "allow", "deny"}]
      BY DEF ClaudeTypeOK
<1>3. verdict' = [verdict EXCEPT ![p] = v]
      BY <1>2 DEF Settle, Told
<1>4. step = "streaming"
      BY DEF Idle
<1>5. Verdict(p, v) \in TurnEvents /\ es \in Seq(TurnEvents)
      BY DEF TurnEvents, Verdicts
<1>6. Produces(es)
      BY <1>1, <1>5, PushProduces
<1>7. /\ channel'.closed = channel.closed
      /\ channel.closed => channel' = channel /\ ClaudeProduced' = ClaudeProduced
      /\ ~channel.closed => ClaudeProduced' = ClaudeProduced \o es
      BY <1>6 DEF Produces
<1>8. StreamTypes' /\ ClaudeTypeOK'
      BY <1>1, <1>2, <1>3, <1>5, <1>6, TypesAfter DEF ClaudeTypeOK
<1>9. Idle' /\ Bookkeeping'
      BY <1>1, <1>2, <1>3, <1>4 DEF Idle, Bookkeeping
<1>10. Ended'
      BY <1>1, <1>4, <1>7 DEF Ended, StreamTypes, Contents
<1>11. AcceptedAnswerStands'
      BY <1>1, <1>2, <1>3 DEF AcceptedAnswerStands, ClaudeTypeOK
<1>12. ClaudeProduced \in Seq(TurnEvents)
      BY ProducedType
<1>13. VerdictIsTold'
  <2>1. PICK P, Q, w : /\ P = ClaudeProduced /\ Q = ClaudeProduced'
                       /\ w = Verdict(p, v)
        OBVIOUS
  <2>2. /\ P \in Seq(TurnEvents) /\ <<w>> \in Seq(TurnEvents) /\ w \in TurnEvents
        /\ w.type = "approval.request" /\ w.prompt = p
        BY <1>5, <1>12, <2>1 DEF Verdict
  <2>3. ToldIn(P, p, "asked")
        BY <2>1, ToldInProduced DEF Informed, Untold
  <2>4. \A q \in Prompts \ {p} : verdict'[q] = verdict[q]
        BY <1>2, <1>3
  <2>5. verdict'[p] = v
        BY <1>2, <1>3
  <2>6. CASE channel.closed
    <3>1. Q = P /\ channel'.closed
          BY <1>7, <2>1, <2>6
    <3>2. \A q \in Prompts \ {p} : \/ ToldIn(P, q, verdict[q])
                                   \/ Untold(q) /\ ToldIn(P, q, "asked")
          BY <2>1, ToldInProduced DEF Informed
    <3> QED BY <2>1, <2>3, <2>4, <2>5, <3>1, <3>2, ToldAfter DEF Untold
  <2>7. CASE ~channel.closed
    <3>1. Q = P \o <<w>>
          BY <1>7, <2>1, <2>7
    <3>2. ToldIn(Q, p, v)
          BY <2>1, <2>2, <2>3, <3>1, VerdictTells
    <3>3. ASSUME NEW q \in Prompts \ {p} PROVE ToldIn(Q, q, verdict'[q])
      <4>1. ToldIn(P, q, verdict[q])
            BY <2>1, <2>7, ToldInProduced DEF Informed, Untold
      <4>2. \A i \in DOMAIN <<w>> :
               <<w>>[i].type = "approval.request" => <<w>>[i].prompt # q
            BY <2>2
      <4> QED BY <2>2, <2>4, <3>1, <4>1, <4>2, OthersTellNothing
    <3> QED BY <2>1, <2>5, <3>2, <3>3, ToldAfter
  <2> QED BY <2>6, <2>7
<1>14. Announced'
  <2>1. CASE channel.closed
        BY <1>1, <1>7, <2>1 DEF Announced, AnnouncedIn
  <2>2. CASE ~channel.closed
    <3>1. \A i \in DOMAIN es : es[i].type = "approval.request"
          BY DEF Verdict
    <3> QED BY <1>1, <1>5, <1>7, <2>2, <3>1, AnnouncedWithPrompts
  <2> QED BY <2>1, <2>2
<1> QED BY <1>6, <1>8, <1>9, <1>10, <1>11, <1>13, <1>14

\* Of the phone, the timer and the abort signal only one settles a prompt.
LEMMA PromptKeeps ==
    ASSUME ClaudeInv, NEW p \in Prompts, NEW v \in {"allow", "deny"},
           PromptTimesOut(p) \/ SdkAborts(p) \/ PhoneAnswers(p, v)
    PROVE  ClaudeInv' /\ \E es \in Seq(TurnEvents) : Produces(es)
<1>1. /\ verdict[p] = "asked"
      /\ \E w \in {"allow", "deny"} :
            Settle(p, w) /\ (answered' = answered \/ answered' = [answered EXCEPT ![p] = w])
      /\ UNCHANGED callVars /\ UNCHANGED <<mode, step, received>>
      BY DEF ClaudeInv, Bookkeeping, PromptTimesOut, SdkAborts, PhoneAnswers
<1>2. PICK w \in {"allow", "deny"} :
         Settle(p, w) /\ (answered' = answered \/ answered' = [answered EXCEPT ![p] = w])
      BY <1>1
<1>3. ClaudeInv' /\ Produces(<<Verdict(p, w)>>)
      BY <1>1, <1>2, SettleKeeps
<1>4. <<Verdict(p, w)>> \in Seq(TurnEvents)
      BY DEF TurnEvents, Verdicts
<1> QED BY <1>3, <1>4

\* Every step of the turn keeps the invariant, and is one of five kinds.
LEMMA ClaudeStep ==
    ASSUME ClaudeInv, ClaudeNext
    PROVE  /\ ClaudeInv'
           /\ \/ \E es \in Seq(TurnEvents) : Produces(es)
              \/ Closes \/ Waits \/ Takes \/ Leaves
<1>1. CASE ClaudeCall \/ LookupAnswers \/ LookupFails
      BY <1>1, CallKeeps, EmptySeq
<1>2. CASE \E m \in Messages : StreamMessage(m)
      BY <1>2, MessageKeeps
<1>3. CASE StreamEnds \/ StreamBreaks
      BY <1>3, EndKeeps
<1>4. ASSUME NEW p \in Prompts, SdkAsks(p)
      PROVE  ClaudeInv' /\ \E es \in Seq(TurnEvents) : Produces(es)
  <2>1. <<Ask(p)>> \in Seq(TurnEvents)
        BY DEF TurnEvents, Asks
  <2> QED BY <1>4, <2>1, AskKeeps
<1>5. ASSUME NEW p \in Prompts, PromptTimesOut(p) \/ SdkAborts(p)
      PROVE  ClaudeInv' /\ \E es \in Seq(TurnEvents) : Produces(es)
      BY <1>5, PromptKeeps
<1>6. ASSUME NEW p \in Prompts, NEW v \in {"allow", "deny"}, PhoneAnswers(p, v)
      PROVE  ClaudeInv' /\ \E es \in Seq(TurnEvents) : Produces(es)
      BY <1>6, PromptKeeps
<1>7. CASE AwaitEvent \/ TakeEvent \/ EndTurn
      BY <1>7, GatewayKeeps
<1> QED BY <1>1, <1>2, <1>3, <1>4, <1>5, <1>6, <1>7 DEF ClaudeNext
===============================================================================
