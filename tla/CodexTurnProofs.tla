--------------------------- MODULE CodexTurnProofs ---------------------------
(***************************************************************************)
(* Proofs about a call of the Codex adapter, for any number of             *)
(* notifications: what a step of CodexNext does to the requests, to the    *)
(* child and to the stream of events.                                      *)
(***************************************************************************)
EXTENDS CodexTurn, FiniteSetTheorems, SequenceTheorems, TLAPS

-----------------------------------------------------------------------------
(* The invariant.                                                          *)

\* What the child writes, and what the gateway is handed.
Notes == [id : {0}, ok : {TRUE}, item : Nat,
          method : {"item", "turn/completed", "turn/failed"}]
Replies == [id : Nat \ {0}, ok : BOOLEAN, method : {"none"}, item : {0}]
CodexEvents == {Announcement, [type |-> "turn.status"]}
               \cup [type : {"item.complete"}, item : Nat]

CallTypes ==
    /\ kind \in Turns \cup {"call"} /\ result \in {"open", "done", "failed"}
    /\ taken \in Seq(CodexEvents)
    /\ stdout \in Seq(Notes \cup Replies)
    /\ notifications \in Seq(Notes) /\ queue \in Seq(Notes)

\* One request at a time: each await has the next id, and the request of the
\* await is pending until it is settled.
Requests ==
    /\ pc \in {"ready", "spawn"} => nextId = 1
    /\ pc = "initialize" => nextId = 2
    /\ pc \in {"request", "thread", "announced"} => nextId = 3
    /\ pc \in {"turn/start", "streaming", "finishing"} => nextId = 4
    /\ IF pc \in Awaiting
       THEN \/ pending = {nextId - 1} /\ settled = "none"
            \/ pending = {} /\ settled # "none"
       ELSE pending = {} /\ settled = "none"

\* What the call is at fits what is called, and says whether it is over.
Place ==
    /\ pc = "request" => kind = "call"
    /\ pc \in {"thread", "announced", "turn/start", "streaming", "finishing"}
         => kind \in Turns
    /\ pc = "announced" => kind = "new"
    /\ pc = "over" <=> result # "open"
    /\ pc \in {"ready", "spawn"} => child = "none"

\* A listener is given everything from the first notification on.
Listens ==
    /\ listening <=> pc \in {"turn/start", "streaming", "finishing"}
    /\ ~listening => queue = <<>>
    /\ pc = "turn/start" => queue = notifications

\* The notifications up to the e-th are items, the next one ends the turn.
ItemsUpTo(notes, e) ==
    /\ e \in 0 .. Len(notes)
    /\ \A i \in 1 .. e : notes[i].method = "item"
    /\ e < Len(notes) => Ends(notes[e + 1])

Items(notes, k) == [i \in 1 .. k |-> [type |-> "item.complete", item |-> notes[i].item]]

Opening == IF kind = "new" THEN <<Announcement>> ELSE <<>>

\* The first k notifications were taken, the others are in the queue.
TakenUpTo(k) ==
    /\ k + Len(queue) = Len(notifications)
    /\ \A i \in 1 .. Len(queue) : queue[i] = notifications[k + i]
    /\ \A i \in 1 .. k : notifications[i].method = "item"
    /\ taken = Opening \o Items(notifications, k)

\* What was handed over, at each place.
Handed ==
    /\ \E e \in Nat : ItemsUpTo(notifications, e)
    /\ pc \in {"ready", "spawn", "initialize", "request", "thread"} => taken = <<>>
    /\ pc \in {"announced", "turn/start"} => taken = Opening
    /\ pc = "streaming" => \E k \in Nat : TakenUpTo(k)
    /\ pc = "finishing" \/ (result = "done" /\ kind # "call") =>
          /\ \E i \in DOMAIN notifications : Ends(notifications[i])
          /\ taken = CodexProduced
    /\ \A i \in DOMAIN taken :
          (taken[i].type = "session.new") <=> (i = 1 /\ kind = "new")

CodexInv ==
    /\ CodexTypeOK /\ CallTypes
    /\ Requests /\ Place /\ Listens /\ NoChildLeft /\ Handed

-----------------------------------------------------------------------------
(* Sequences.                                                              *)

\* A prefix, element by element.
LEMMA PrefixByElement ==
    ASSUME NEW E, NEW s \in Seq(E), NEW t \in Seq(E), Len(s) <= Len(t),
           \A i \in 1 .. Len(s) : s[i] = t[i]
    PROVE  IsPrefix(s, t)
<1>1. SubSeq(s, 1, Len(s)) = s
      OBVIOUS
<1>2. SubSeq(t, 1, Len(s)) = s
      OBVIOUS
<1> QED BY <1>1, <1>2 DEF IsPrefix

\* What is put behind a sequence leaves it a prefix.
LEMMA PrefixOfLonger ==
    ASSUME NEW E, NEW s \in Seq(E), NEW t \in Seq(E)
    PROVE  IsPrefix(s, s \o t)
<1>1. s \o t \in Seq(E) /\ Len(s) <= Len(s \o t) /\ \A i \in 1 .. Len(s) : s[i] = (s \o t)[i]
      OBVIOUS
<1> QED BY <1>1, PrefixByElement

-----------------------------------------------------------------------------
(* What the notifications tell.                                            *)

ToldOf(notes) ==
    [i \in {j \in DOMAIN notes : /\ Mapped(notes[j]) # <<>>
                                 /\ \A k \in 1 .. j - 1 : ~Ends(notes[k])}
       |-> Head(Mapped(notes[i]))]

\* The event of a notification: an item, the end, or none for a failed turn.
LEMMA MappedEvents ==
    ASSUME NEW n \in Notes
    PROVE  /\ Mapped(n) \in Seq(CodexEvents)
           /\ n.method = "item" => Mapped(n) = <<[type |-> "item.complete", item |-> n.item]>>
           /\ n.method = "item" => Mapped(n) # <<>>
           /\ n.method = "turn/completed" => Mapped(n) # <<>>
           /\ n.method = "turn/completed" => Mapped(n) = <<[type |-> "turn.status"]>>
           /\ n.method = "turn/failed" => Mapped(n) = <<>>
           /\ Ends(n) <=> n.method # "item"
           /\ \A i \in DOMAIN Mapped(n) : Mapped(n)[i].type # "session.new"
<1>1. CASE n.method = "item"
  <2>1. n.item \in Nat /\ Mapped(n) = <<[type |-> "item.complete", item |-> n.item]>>
        BY <1>1 DEF Mapped, Notes
  <2>2. [type |-> "item.complete", item |-> n.item] \in CodexEvents
        BY <2>1 DEF CodexEvents
  <2> QED BY <1>1, <2>1, <2>2 DEF Ends
<1>2. CASE n.method = "turn/completed"
  <2>1. Mapped(n) = <<[type |-> "turn.status"]>> /\ [type |-> "turn.status"] \in CodexEvents
        BY <1>2 DEF Mapped, CodexEvents
  <2> QED BY <1>2, <2>1 DEF Ends
<1>3. CASE n.method = "turn/failed"
  <2>1. Mapped(n) = <<>>
        BY <1>3 DEF Mapped
  <2> QED BY <1>3, <2>1 DEF Ends
<1> QED BY <1>1, <1>2, <1>3 DEF Notes

\* The items of the first notifications are a sequence of events.
LEMMA ItemsSeq ==
    ASSUME NEW notes \in Seq(Notes), NEW k \in 0 .. Len(notes)
    PROVE  /\ Items(notes, k) \in Seq(CodexEvents) /\ Len(Items(notes, k)) = k
           /\ \A i \in 1 .. k : /\ Items(notes, k)[i] =
                                     [type |-> "item.complete", item |-> notes[i].item]
                                /\ Items(notes, k)[i].type # "session.new"
<1>1. ASSUME NEW i \in 1 .. k PROVE notes[i].item \in Nat
  <2>1. notes[i] \in Notes
        OBVIOUS
  <2> QED BY <2>1 DEF Notes
<1>2. \A i \in 1 .. k : [type |-> "item.complete", item |-> notes[i].item] \in CodexEvents
      BY <1>1 DEF CodexEvents
<1>3. Items(notes, k) \in [1 .. k -> CodexEvents]
      BY <1>2 DEF Items
<1>4. Items(notes, k) \in Seq(CodexEvents) /\ Len(Items(notes, k)) = k
      BY <1>3
<1> QED BY <1>4 DEF Items

\* One more item.
LEMMA ItemsNext ==
    ASSUME NEW notes \in Seq(Notes), NEW k \in Nat, k + 1 <= Len(notes),
           notes[k + 1].method = "item"
    PROVE  Items(notes, k + 1) = Items(notes, k) \o Mapped(notes[k + 1])
<1> DEFINE e == [type |-> "item.complete", item |-> notes[k + 1].item]
           a == Items(notes, k + 1)
           b == Items(notes, k)
<1>1. Mapped(notes[k + 1]) = <<e>> /\ e \in CodexEvents
  <2>1. notes[k + 1] \in Notes
        OBVIOUS
  <2>2. notes[k + 1].item \in Nat
        BY <2>1 DEF Notes
  <2> QED BY <2>1, <2>2, MappedEvents DEF CodexEvents
<1>2. /\ a \in Seq(CodexEvents) /\ Len(a) = k + 1
      /\ b \in Seq(CodexEvents) /\ Len(b) = k
      /\ \A i \in 1 .. k : a[i] = b[i]
      /\ a[k + 1] = e
  <2>1. k \in 0 .. Len(notes) /\ k + 1 \in 0 .. Len(notes)
        OBVIOUS
  <2>2. /\ a \in Seq(CodexEvents) /\ Len(a) = k + 1
        /\ b \in Seq(CodexEvents) /\ Len(b) = k
        BY <2>1, ItemsSeq
  <2>3. (\A i \in 1 .. k : a[i] = b[i]) /\ a[k + 1] = e
        BY DEF Items
  <2> QED BY <2>2, <2>3
<1> HIDE DEF a, b, e
<1>3. b \o <<e>> \in Seq(CodexEvents) /\ Len(b \o <<e>>) = k + 1
      BY <1>1, <1>2
<1>4. \A i \in 1 .. k + 1 : a[i] = (b \o <<e>>)[i]
      BY <1>1, <1>2
<1>5. a = b \o <<e>>
      BY <1>2, <1>3, <1>4, SeqEqual
<1> QED BY <1>1, <1>5 DEF a, b

\* What a stream of notifications tells: its items up to the end of the turn,
\* and the end.
LEMMA ToldShape ==
    ASSUME NEW notes \in Seq(Notes), NEW e \in Nat, ItemsUpTo(notes, e)
    PROVE  ToldOf(notes) = Items(notes, e) \o
               IF e < Len(notes) THEN Mapped(notes[e + 1]) ELSE <<>>
<1> DEFINE S == {j \in DOMAIN notes : /\ Mapped(notes[j]) # <<>>
                                      /\ \A k \in 1 .. j - 1 : ~Ends(notes[k])}
           I == Items(notes, e)
           T == ToldOf(notes)
<1>1. e \in 0 .. Len(notes) /\ DOMAIN notes = 1 .. Len(notes) /\ Len(notes) \in Nat
      BY DEF ItemsUpTo
<1>2. ASSUME NEW j \in 1 .. e
      PROVE  /\ Mapped(notes[j]) = <<[type |-> "item.complete", item |-> notes[j].item]>>
             /\ Mapped(notes[j]) # <<>>
             /\ ~Ends(notes[j])
  <2>1. notes[j] \in Notes /\ notes[j].method = "item"
        BY <1>1 DEF ItemsUpTo
  <2> QED BY <2>1, MappedEvents
<1>3. 1 .. e \subseteq S
  <2>1. ASSUME NEW j \in 1 .. e PROVE j \in S
    <3>1. j \in DOMAIN notes /\ \A k \in 1 .. j - 1 : k \in 1 .. e
          BY <1>1
    <3>2. Mapped(notes[j]) # <<>>
          BY <1>2
    <3> QED BY <1>2, <3>1, <3>2
  <2> QED BY <2>1
<1>4. I \in Seq(CodexEvents) /\ Len(I) = e
      BY <1>1, ItemsSeq
<1>5. T = [i \in S |-> Head(Mapped(notes[i]))]
      BY DEF ToldOf
<1>6. \A i \in 1 .. e : T[i] = I[i]
  <2>1. ASSUME NEW i \in 1 .. e PROVE T[i] = I[i]
    <3>1. i \in S
      BY <1>3
    <3>2. T[i] = Head(Mapped(notes[i]))
          BY <1>5, <3>1
    <3>3. I[i] = [type |-> "item.complete", item |-> notes[i].item]
          BY <1>1, ItemsSeq
    <3> QED BY <1>2, <3>2, <3>3
  <2> QED BY <2>1
<1>7. ASSUME S = 1 .. e PROVE T = I /\ I \o <<>> = I
  <2>1. T = [i \in 1 .. e |-> T[i]]
        BY <1>5, <1>7
  <2>2. I = [i \in 1 .. e |-> I[i]]
        BY DEF Items
  <2> HIDE DEF T, I
  <2>3. T = I
        BY <1>6, <2>1, <2>2
  <2> QED BY <1>4, <2>3, ConcatEmptySeq
<1>8. CASE e = Len(notes)
  <2>1. S = 1 .. e
        BY <1>1, <1>3, <1>8
  <2>2. T = I /\ I \o <<>> = I
        BY <1>7, <2>1
  <2>3. ~(e < Len(notes))
        BY <1>1, <1>8
  <2> HIDE DEF S
  <2> QED BY <2>2, <2>3
<1>9. CASE e < Len(notes)
  <2>1. /\ e + 1 \in 1 .. Len(notes) /\ notes[e + 1] \in Notes
        /\ Ends(notes[e + 1])
        BY <1>1, <1>9 DEF ItemsUpTo
  <2>2. S \subseteq 1 .. e + 1
    <3>1. ASSUME NEW j \in S PROVE j <= e + 1
      <4>1. j \in 1 .. Len(notes) /\ \A k \in 1 .. j - 1 : ~Ends(notes[k])
            BY <1>1
      <4> HIDE DEF S
      <4>2. j > e + 1 => e + 1 \in 1 .. j - 1
            BY <1>1, <4>1
      <4> QED BY <1>1, <2>1, <4>1, <4>2
    <3>2. S \subseteq 1 .. Len(notes)
          BY <1>1
    <3> HIDE DEF S
    <3> QED BY <1>1, <3>1, <3>2
  <2>3. CASE notes[e + 1].method = "turn/failed"
    <3>1. Mapped(notes[e + 1]) = <<>>
          BY <2>1, <2>3, MappedEvents
    <3>2. e + 1 \notin S
          BY <3>1
    <3>3. S = 1 .. e
      <4> HIDE DEF S
      <4>1. ASSUME NEW j \in S PROVE j \in 1 .. e
        <5>1. j \in 1 .. e + 1 /\ j # e + 1
              BY <2>2, <3>2
        <5> QED BY <1>1, <5>1
      <4> QED BY <1>3, <4>1
    <3> QED BY <1>7, <1>9, <3>1, <3>3
  <2>4. CASE notes[e + 1].method = "turn/completed"
    <3> DEFINE s == [type |-> "turn.status"]
    <3>1. Mapped(notes[e + 1]) = <<s>>
          BY <2>1, <2>4, MappedEvents
    <3>2. e + 1 \in S
      <4>1. \A k \in 1 .. (e + 1) - 1 : ~Ends(notes[k])
        <5>1. (e + 1) - 1 = e
              OBVIOUS
        <5> QED BY <1>2, <5>1
      <4>2. Mapped(notes[e + 1]) # <<>>
            BY <3>1
      <4> QED BY <1>1, <2>1, <4>1, <4>2
    <3>3. S = 1 .. e + 1
      <4> HIDE DEF S
      <4>1. ASSUME NEW j \in 1 .. e + 1 PROVE j \in S
        <5>1. j \in 1 .. e \/ j = e + 1
              BY <1>1
        <5> QED BY <1>3, <3>2, <5>1
      <4> QED BY <2>2, <4>1
    <3>4. s \in CodexEvents
          BY DEF CodexEvents
    <3>5. T[e + 1] = s
      <4>1. T[e + 1] = Head(Mapped(notes[e + 1]))
            BY <1>5, <3>2
      <4> QED BY <3>1, <4>1
    <3>6. T = [i \in 1 .. e + 1 |-> T[i]]
          BY <1>5, <3>3
    <3> HIDE DEF T, I, s, S
    <3>7. \A i \in 1 .. e + 1 : T[i] = (I \o <<s>>)[i]
          BY <1>1, <1>4, <1>6, <3>4, <3>5
    <3>8. I \o <<s>> \in Seq(CodexEvents) /\ Len(I \o <<s>>) = e + 1
          BY <1>1, <1>4, <3>4
    <3>9. I \o <<s>> = [i \in 1 .. e + 1 |-> (I \o <<s>>)[i]]
          BY <3>8
    <3>10. T = I \o <<s>>
          BY <3>6, <3>7, <3>9
    <3> QED BY <1>9, <3>1, <3>10 DEF T, I
  <2>5. notes[e + 1].method \in {"turn/failed", "turn/completed"}
        BY <2>1 DEF Ends
  <2> QED BY <2>3, <2>4, <2>5
<1>10. e = Len(notes) \/ e < Len(notes)
  <2>1. \A n \in Nat : \A k \in 0 .. n : k = n \/ k < n
        OBVIOUS
  <2> HIDE DEF S
  <2> QED BY <1>1, <2>1
<1> HIDE DEF S
<1> QED BY <1>8, <1>9, <1>10

\* Told events are events, and none announces the session.
LEMMA ToldSeq ==
    ASSUME NEW notes \in Seq(Notes), NEW e \in Nat, ItemsUpTo(notes, e)
    PROVE  /\ ToldOf(notes) \in Seq(CodexEvents)
           /\ e = Len(notes) => ToldOf(notes) = Items(notes, e)
<1>1. e \in 0 .. Len(notes) /\ Items(notes, e) \in Seq(CodexEvents)
      BY ItemsSeq DEF ItemsUpTo
<1>2. CASE e = Len(notes)
      BY <1>1, <1>2, ToldShape, ConcatEmptySeq
<1>3. CASE e < Len(notes)
  <2>1. notes[e + 1] \in Notes
        BY <1>1, <1>3
  <2>2. Mapped(notes[e + 1]) \in Seq(CodexEvents)
        BY <2>1, MappedEvents
  <2>3. ToldOf(notes) = Items(notes, e) \o Mapped(notes[e + 1])
        BY <1>3, ToldShape
  <2> HIDE DEF Items, ToldOf
  <2> QED BY <1>1, <1>3, <2>2, <2>3, ConcatProperties
<1> QED BY <1>1, <1>2, <1>3

\* A notification behind the end of the turn tells nothing, any other is told
\* behind all that was.
LEMMA ToldNext ==
    ASSUME NEW notes \in Seq(Notes), NEW e \in Nat, ItemsUpTo(notes, e),
           NEW n \in Notes
    PROVE  LET more == Append(notes, n)
           IN  /\ e < Len(notes) => ToldOf(more) = ToldOf(notes) /\ ItemsUpTo(more, e)
               /\ e = Len(notes) => /\ ToldOf(more) = ToldOf(notes) \o Mapped(n)
                                    /\ \E f \in Nat : ItemsUpTo(more, f)
<1> DEFINE more == Append(notes, n)
<1>1. /\ more \in Seq(Notes) /\ Len(more) = Len(notes) + 1 /\ Len(notes) \in Nat
      /\ \A i \in 1 .. Len(notes) : more[i] = notes[i]
      /\ more[Len(notes) + 1] = n
      OBVIOUS
<1> HIDE DEF more
<1>2. e \in 0 .. Len(notes) /\ \A i \in 1 .. e : notes[i].method = "item"
      BY DEF ItemsUpTo
<1>3. Items(more, e) = Items(notes, e)
      BY <1>1, <1>2 DEF Items
<1>4. CASE e < Len(notes)
  <2>1. e + 1 \in 1 .. Len(notes) /\ Ends(notes[e + 1])
        BY <1>2, <1>4 DEF ItemsUpTo
  <2>2. ItemsUpTo(more, e) /\ more[e + 1] = notes[e + 1] /\ e < Len(more)
    <3>1. more[e + 1] = notes[e + 1] /\ e < Len(more) /\ e \in 0 .. Len(more)
          BY <1>1, <1>2, <1>4, <2>1
    <3>2. \A i \in 1 .. e : i \in 1 .. Len(notes)
          BY <1>1, <1>2
    <3>3. \A i \in 1 .. e : more[i].method = "item"
          BY <1>1, <1>2, <3>2
    <3> QED BY <2>1, <3>1, <3>3 DEF ItemsUpTo
  <2>3. ToldOf(more) = Items(notes, e) \o Mapped(notes[e + 1])
        BY <1>1, <1>3, <2>2, ToldShape
  <2>4. ToldOf(notes) = Items(notes, e) \o Mapped(notes[e + 1])
        BY <1>4, ToldShape
  <2> QED BY <1>4, <2>2, <2>3, <2>4 DEF more
<1>5. CASE e = Len(notes)
  <2>1. ToldOf(notes) = Items(notes, e)
        BY <1>5, ToldSeq
  <2>2. CASE n.method = "item"
    <3>1. ItemsUpTo(more, e + 1) /\ e + 1 = Len(more)
          BY <1>1, <1>2, <1>5, <2>2 DEF ItemsUpTo
    <3>2. ToldOf(more) = Items(more, e + 1)
          BY <1>1, <3>1, ToldSeq
    <3>3. Items(more, e + 1) = Items(more, e) \o Mapped(more[e + 1])
      <4>1. more[e + 1].method = "item" /\ e + 1 <= Len(more) /\ more \in Seq(Notes)
            BY <1>1, <1>5, <2>2
      <4> QED BY <4>1, ItemsNext
    <3> QED BY <1>1, <1>3, <1>5, <2>1, <3>1, <3>2, <3>3 DEF more
  <2>3. CASE n.method # "item"
    <3>1. Ends(n)
          BY <2>3, MappedEvents
    <3>2. ItemsUpTo(more, e) /\ e < Len(more)
          BY <1>1, <1>2, <1>5, <3>1 DEF ItemsUpTo
    <3>3. ToldOf(more) = Items(more, e) \o Mapped(more[e + 1])
          BY <1>1, <3>2, ToldShape
    <3> QED BY <1>1, <1>3, <1>5, <2>1, <3>2, <3>3 DEF more
  <2> QED BY <2>2, <2>3
<1> QED BY <1>2, <1>4, <1>5 DEF more

-----------------------------------------------------------------------------
(* What the steps do to the stream.                                        *)

\* The turn streams, or has ended well: its events are those of the
\* notifications.
InTurn == pc \in {"streaming", "finishing"} \/ (result = "done" /\ kind # "call")

\* The produced events, by what the notifications tell.
LEMMA ProducedIs ==
    CodexProduced = IF InTurn THEN Opening \o ToldOf(notifications) ELSE taken
BY DEF CodexProduced, InTurn, Opening, Streamed, ToldOf

\* A new session opens with its announcement, another turn with nothing.
LEMMA OpeningSeq ==
    ASSUME TRUE
    PROVE  /\ Opening \in Seq(CodexEvents)
           /\ \A i \in DOMAIN Opening : (Opening[i].type = "session.new")
                                           <=> (i = 1 /\ kind = "new")
           /\ kind = "new" => Opening = <<Announcement>>
           /\ kind # "new" => Opening = <<>>
<1>1. Announcement \in CodexEvents /\ Announcement.type = "session.new"
      BY DEF CodexEvents, Announcement
<1>2. CASE kind = "new"
      BY <1>1, <1>2 DEF Opening
<1>3. CASE kind # "new"
      BY <1>3 DEF Opening
<1> QED BY <1>2, <1>3

\* Events are produced behind all that were, none when the stream is complete
\* or the call is over.
Tells(es) ==
    /\ UNCHANGED callVars
    /\ CodexProduced' = CodexProduced \o es
    /\ CodexComplete => es = <<>> /\ CodexComplete'
    /\ result # "open" => es = <<>> /\ (CodexComplete' <=> CodexComplete)

\* The gateway is handed the next event, or a notification without one.
Hands ==
    /\ result = "open" /\ result' = "open"
    /\ UNCHANGED <<provider, kind, allowed>>
    /\ \E es \in Seq(CodexEvents) :
          /\ taken' = taken \o es /\ Len(es) <= 1
          /\ CodexProduced' = CodexProduced \/ (CodexProduced' = taken' /\ CodexProduced = taken)
    /\ CodexComplete => CodexComplete' /\ CodexProduced' = CodexProduced
    /\ CodexProduced' \in Seq(CodexEvents) /\ IsPrefix(taken', CodexProduced')

\* The call is over, when nothing is left.
Over ==
    /\ result = "open" /\ result' \in {"done", "failed"}
    /\ UNCHANGED <<provider, kind, allowed, taken>>
    /\ taken = CodexProduced /\ CodexProduced' = CodexProduced
    /\ result' = "done" => CodexComplete /\ CodexComplete'

\* All produced events are events, and what was taken is the first of them.
LEMMA TakenIsPrefix ==
    CodexInv => CodexProduced \in Seq(CodexEvents) /\ IsPrefix(taken, CodexProduced)
<1> SUFFICES ASSUME CodexInv
             PROVE  CodexProduced \in Seq(CodexEvents) /\ IsPrefix(taken, CodexProduced)
    OBVIOUS
<1> USE DEF CodexInv
<1>1. taken \in Seq(CodexEvents) /\ notifications \in Seq(Notes)
      BY DEF CallTypes
<1>2. IsPrefix(taken, taken)
      BY <1>1, PrefixByElement
<1>3. CASE ~InTurn
      BY <1>1, <1>2, <1>3, ProducedIs
<1>4. CASE pc = "finishing" \/ (result = "done" /\ kind # "call")
      BY <1>1, <1>2, <1>4 DEF Handed
<1>5. CASE pc = "streaming"
  <2>1. PICK k \in Nat : TakenUpTo(k)
        BY <1>5 DEF Handed
  <2>2. PICK e \in Nat : ItemsUpTo(notifications, e)
        BY DEF Handed
  <2>3. k <= e
    <3>1. Len(queue) \in Nat /\ Len(notifications) \in Nat /\ e \in 0 .. Len(notifications)
          /\ k \in 0 .. Len(notifications)
          BY <1>1, <2>1, <2>2 DEF CallTypes, TakenUpTo, ItemsUpTo
    <3>2. ASSUME e < k PROVE FALSE
      <4>1. e + 1 \in 1 .. k /\ e < Len(notifications) /\ e + 1 \in 1 .. Len(notifications)
            BY <3>1, <3>2
      <4>2. notifications[e + 1].method = "item" /\ Ends(notifications[e + 1])
            BY <2>1, <2>2, <4>1 DEF TakenUpTo, ItemsUpTo
      <4> QED BY <4>2 DEF Ends
    <3> QED BY <3>1, <3>2
  <2> DEFINE A == Items(notifications, k)
             B == ToldOf(notifications)
             C == Items(notifications, e)
  <2>4. B \in Seq(CodexEvents) /\ A \in Seq(CodexEvents) /\ Len(A) = k
    <3>1. k \in 0 .. Len(notifications)
          BY <1>1, <2>2, <2>3 DEF ItemsUpTo
    <3> QED BY <1>1, <2>2, <3>1, ToldSeq, ItemsSeq
  <2>5. Len(A) <= Len(B) /\ \A i \in 1 .. k : A[i] = B[i]
    <3>1. C \in Seq(CodexEvents) /\ Len(C) = e
          BY <1>1, <2>2, ItemsSeq DEF ItemsUpTo
    <3>2. \A i \in 1 .. k : A[i] = C[i]
          BY <2>3 DEF Items
    <3>3. PICK rest \in Seq(CodexEvents) : B = C \o rest
      <4>1. CASE e < Len(notifications)
        <5>1. notifications[e + 1] \in Notes
              BY <1>1, <4>1
        <5> QED BY <1>1, <2>2, <4>1, <5>1, ToldShape, MappedEvents
      <4>2. CASE ~(e < Len(notifications))
        <5>1. B = C \o <<>>
              BY <1>1, <2>2, <4>2, ToldShape
        <5> QED BY <5>1, EmptySeq
      <4> QED BY <4>1, <4>2
    <3> HIDE DEF A, B, C
    <3>4. Len(C \o rest) = e + Len(rest) /\ \A i \in 1 .. e : (C \o rest)[i] = C[i]
          BY <3>1
    <3> QED BY <2>3, <2>4, <3>2, <3>3, <3>4
  <2>6. taken = Opening \o A /\ CodexProduced = Opening \o B
        BY <1>5, <2>1, ProducedIs DEF TakenUpTo, InTurn
  <2> HIDE DEF A, B
  <2>7. PICK o \in Seq(CodexEvents) : o = Opening
        BY OpeningSeq
  <2>8. /\ o \o A \in Seq(CodexEvents) /\ o \o B \in Seq(CodexEvents)
        /\ Len(o \o A) <= Len(o \o B)
        BY <2>4, <2>5, <2>7
  <2>9. \A i \in 1 .. Len(o \o A) : (o \o A)[i] = (o \o B)[i]
        BY <2>4, <2>5, <2>7, <2>8
  <2> QED BY <2>6, <2>7, <2>8, <2>9, PrefixByElement
<1> QED BY <1>3, <1>4, <1>5 DEF InTurn

\* The same of a state by name.
TakenInOrder == CodexProduced \in Seq(CodexEvents) /\ IsPrefix(taken, CodexProduced)

\* The invariant has them in order.
LEMMA InOrder == CodexInv => TakenInOrder
BY TakenIsPrefix DEF TakenInOrder

-----------------------------------------------------------------------------
(* The invariant holds in the initial states and is kept by every step.    *)

\* The types of the client, from the discipline of its requests.
ClientFacts ==
    /\ child \in {"none", "running", "gone", "closed"}
    /\ killed \in BOOLEAN /\ listening \in BOOLEAN
    /\ nextId \in 1 .. 4 /\ inbox \subseteq 1 .. nextId - 1
    /\ settled \in {"none", "ok", "error", "rejected"}

\* They are the type invariant of the client.
LEMMA ClientTypes == Requests /\ ClientFacts => RpcTypeOK
<1> SUFFICES ASSUME Requests, ClientFacts PROVE RpcTypeOK
    OBVIOUS
<1> USE DEF ClientFacts
<1>1. pending = {} \/ (pending = {nextId - 1} /\ pc \in Awaiting /\ settled = "none")
      BY DEF Requests
<1>2. pc \in Awaiting => nextId - 1 \in 1 .. nextId - 1
      BY DEF Requests, Awaiting
<1>3. CASE pending = {}
      BY <1>3, FS_EmptySet DEF RpcTypeOK
<1>4. CASE pending = {nextId - 1} /\ pc \in Awaiting /\ settled = "none"
  <2>1. Cardinality(pending) = 1
        BY <1>4, FS_Singleton
  <2> QED BY <1>2, <1>4, <2>1 DEF RpcTypeOK
<1> QED BY <1>1, <1>3, <1>4

\* The initial states.
LEMMA CodexInitInv == CallInit /\ CodexInit => CodexInv
<1> SUFFICES ASSUME CallInit, CodexInit PROVE CodexInv
    OBVIOUS
<1> USE DEF CallInit, CodexInit, RpcInit
<1>1. CallTypes
      BY EmptySeq DEF CallTypes
<1>2. Requests /\ Place /\ Listens /\ NoChildLeft
      BY DEF Requests, Place, Listens, NoChildLeft, Awaiting
<1>3. CodexTypeOK
  <2>1. ClientFacts
    <3>1. killed \in BOOLEAN /\ listening \in BOOLEAN
          OBVIOUS
    <3>2. nextId \in 1 .. 4 /\ inbox \subseteq 1 .. nextId - 1
          OBVIOUS
    <3> QED BY <3>1, <3>2 DEF ClientFacts
  <2> QED BY <1>2, <2>1, ClientTypes DEF CodexTypeOK
<1>4. Handed
  <2>1. ItemsUpTo(notifications, 0)
        BY EmptySeq DEF ItemsUpTo
  <2> QED BY <2>1 DEF Handed
<1> QED BY <1>1, <1>2, <1>3, <1>4 DEF CodexInv

\* A call that is over: nothing is left, the child was signalled or is gone.
LEMMA CallEnds ==
    ASSUME CodexInv, result = "open", pc' = "over", result' \in {"done", "failed"},
           UNCHANGED <<provider, kind, allowed, taken, late>>,
           UNCHANGED <<child, inbox, stdout, nextId, pending, notifications>>,
           pending = {}, settled' = "none", ~listening', listening' \in BOOLEAN,
           queue' = <<>>, killed' \in BOOLEAN,
           child \in {"none", "gone", "closed"} \/ killed',
           taken = CodexProduced,
           result' = "done" => CodexComplete /\ (kind = "call" \/ pc = "finishing")
    PROVE  CodexInv' /\ Over
<1> USE DEF CodexInv
<1>1. CallTypes'
      BY EmptySeq DEF CallTypes
<1>2. Requests' /\ Place' /\ Listens' /\ NoChildLeft'
      BY DEF Requests, Place, Listens, NoChildLeft, Awaiting
<1>3. CodexTypeOK'
  <2>1. RpcTypeOK'
    <3>1. ClientFacts'
          BY DEF ClientFacts, CodexTypeOK, RpcTypeOK
    <3> QED BY <1>2, <3>1, ClientTypes, PTL
  <2> QED BY <2>1 DEF CodexTypeOK
<1>4. CodexProduced' = CodexProduced
  <2>1. CodexProduced' = IF result' = "done" /\ kind # "call"
                         THEN Opening \o ToldOf(notifications) ELSE taken
        BY DEF CodexProduced, Opening, Streamed, ToldOf
  <2> QED BY <2>1, ProducedIs DEF InTurn
<1>5. Handed'
  <2>1. CASE result' = "done" /\ kind # "call"
    <3>1. /\ \E i \in DOMAIN notifications : Ends(notifications[i])
          /\ taken' = CodexProduced'
          BY <1>4, <2>1 DEF Handed
    <3> QED BY <3>1 DEF Handed, ItemsUpTo
  <2>2. CASE ~(result' = "done" /\ kind # "call")
        BY <2>2 DEF Handed, ItemsUpTo
  <2> QED BY <2>1, <2>2
<1> QED BY <1>1, <1>2, <1>3, <1>4, <1>5 DEF Over, CodexComplete

\* Steps of the child and of the timer that no notification comes with.
LEMMA QuietKeeps ==
    ASSUME CodexInv,
           UNCHANGED <<provider, kind, allowed, taken, result, pc>>,
           UNCHANGED <<killed, nextId, notifications, listening, queue>>,
           late' \in BOOLEAN,
           child' \in {"none", "running", "gone", "closed"},
           child' = child \/ (child # "none" /\ child' \in {"gone", "closed"}),
           inbox' \subseteq inbox, stdout' \in Seq(Notes \cup Replies),
           \/ UNCHANGED <<pending, settled>>
           \/ pending # {} /\ pending' = {} /\ settled' \in {"ok", "error", "rejected"}
    PROVE  CodexInv' /\ Tells(<<>>)
<1> USE DEF CodexInv
<1>1. CallTypes'
      BY DEF CallTypes
<1>2. Requests' /\ Place' /\ Listens' /\ NoChildLeft'
      BY DEF Requests, Place, Listens, NoChildLeft
<1>3. CodexTypeOK'
  <2>1. RpcTypeOK'
    <3>1. ClientFacts'
          BY DEF ClientFacts, CodexTypeOK, RpcTypeOK
    <3> QED BY <1>2, <3>1, ClientTypes, PTL
  <2>2. pc \in {"ready", "spawn"} => child' = "none"
        BY DEF Place
  <2> QED BY <2>1, <2>2 DEF CodexTypeOK
<1>4. CodexProduced' = CodexProduced
      BY DEF CodexProduced, Streamed
<1>5. Handed'
      BY <1>4 DEF Handed, ItemsUpTo, TakenUpTo, Opening
<1>6. Tells(<<>>)
  <2>1. CodexProduced \o <<>> = CodexProduced
        BY TakenIsPrefix, ConcatEmptySeq
  <2>2. CodexComplete => CodexComplete'
        BY DEF CodexComplete, Requests, Awaiting
  <2>3. result # "open" => (CodexComplete' <=> CodexComplete)
        BY DEF CodexComplete, Place
  <2> QED BY <1>4, <2>1, <2>2, <2>3 DEF Tells, callVars
<1> QED BY <1>1, <1>2, <1>3, <1>5, <1>6

\* The steps of the child and of the timer, apart from the reading of a line.
LEMMA ChildKeeps ==
    ASSUME CodexInv,
           \/ /\ \/ TimeoutFires \/ ChildCloses \/ ChildDies
                 \/ \E id \in inbox, ok \in BOOLEAN : ChildAnswers(id, ok)
                 \/ \E method \in {"item", "turn/completed", "turn/failed"} :
                       ChildNotifies(method)
              /\ UNCHANGED <<callVars, pc, late>>
           \/ DeadlinePasses
    PROVE  CodexInv' /\ Tells(<<>>)
<1>1. /\ child \in {"none", "running", "gone", "closed"} /\ late \in BOOLEAN
      /\ stdout \in Seq(Notes \cup Replies) /\ inbox \subseteq 1 .. nextId - 1
      /\ nextId \in 1 .. 4
      BY DEF CodexInv, CodexTypeOK, RpcTypeOK, CallTypes
<1>2. ASSUME TimeoutFires \/ ChildCloses \/ ChildDies, UNCHANGED <<callVars, pc, late>>
      PROVE  CodexInv' /\ Tells(<<>>)
      BY <1>1, <1>2, QuietKeeps DEF TimeoutFires, ChildCloses, ChildDies, callVars
<1>3. ASSUME NEW id \in inbox, NEW ok \in BOOLEAN, ChildAnswers(id, ok),
             UNCHANGED <<callVars, pc, late>>
      PROVE  CodexInv' /\ Tells(<<>>)
  <2>1. Reply(id, ok) \in Replies
        BY <1>1 DEF Reply, Replies
  <2>2. stdout' \in Seq(Notes \cup Replies)
        BY <1>1, <1>3, <2>1 DEF ChildAnswers
  <2> QED BY <1>1, <1>3, <2>2, QuietKeeps DEF ChildAnswers, callVars
<1>4. ASSUME NEW method \in {"item", "turn/completed", "turn/failed"},
             ChildNotifies(method), UNCHANGED <<callVars, pc, late>>
      PROVE  CodexInv' /\ Tells(<<>>)
  <2> DEFINE unread == {i \in DOMAIN stdout : stdout[i].id = 0}
             count == Len(notifications) + Cardinality(unread)
  <2>1. count \in Nat
    <3>1. DOMAIN stdout = 1 .. Len(stdout) /\ Len(stdout) \in Nat
          BY <1>1
    <3>2. IsFiniteSet(1 .. Len(stdout)) /\ unread \subseteq 1 .. Len(stdout)
          BY <3>1, FS_Interval
    <3>3. IsFiniteSet(unread)
          BY <3>2, FS_Subset
    <3>4. Cardinality(unread) \in Nat
          BY <3>3, FS_CardinalityType
    <3>5. Len(notifications) \in Nat
          BY DEF CodexInv, CallTypes
    <3> QED BY <3>4, <3>5
  <2>2. stdout' = Append(stdout, Note(method, count + 1))
        BY <1>4 DEF ChildNotifies
  <2> HIDE DEF count
  <2>3. Note(method, count + 1) \in Notes
        BY <2>1 DEF Note, Notes
  <2>4. stdout' \in Seq(Notes \cup Replies)
        BY <1>1, <2>2, <2>3
  <2>5. UNCHANGED <<child, killed, inbox, nextId, pending, settled, notifications,
                    listening, queue>>
        BY <1>4 DEF ChildNotifies
  <2> QED BY <1>1, <1>4, <2>4, <2>5, QuietKeeps DEF callVars
<1>5. ASSUME DeadlinePasses PROVE CodexInv' /\ Tells(<<>>)
      BY <1>1, <1>5, QuietKeeps DEF DeadlinePasses, callVars, rpcVars
<1> QED BY <1>2, <1>3, <1>4, <1>5

\* A line: an answer settles the awaited request, a notification is told
\* unless the turn has ended.
LEMMA ReadKeeps ==
    ASSUME CodexInv, ReadLine, UNCHANGED <<callVars, pc, late>>
    PROVE  CodexInv' /\ \E es \in Seq(CodexEvents) : Tells(es)
<1> USE DEF CodexInv
<1> DEFINE line == Head(stdout)
<1>1. /\ line \in Notes \cup Replies /\ stdout' \in Seq(Notes \cup Replies)
      /\ late \in BOOLEAN /\ child \in {"none", "running", "gone", "closed"}
      BY DEF ReadLine, CallTypes, CodexTypeOK, RpcTypeOK
<1>2. /\ UNCHANGED <<provider, kind, allowed, taken, result, pc, late>>
      /\ UNCHANGED <<child, killed, inbox, nextId, listening>>
      BY DEF ReadLine, callVars
<1>3. CASE line.id # 0
  <2>1. /\ pending' = pending \ {line.id}
        /\ settled' = IF line.id \notin pending THEN settled
                      ELSE IF line.ok THEN "ok" ELSE "error"
        /\ UNCHANGED <<notifications, queue>>
        BY <1>3 DEF ReadLine
  <2>2. \/ UNCHANGED <<pending, settled>>
        \/ pending # {} /\ pending' = {} /\ settled' \in {"ok", "error", "rejected"}
    <3>1. CASE line.id \notin pending
          BY <2>1, <3>1
    <3>2. CASE line.id \in pending
          BY <2>1, <3>2 DEF Requests
    <3> QED BY <3>1, <3>2
  <2> QED BY <1>1, <1>2, <2>1, <2>2, QuietKeeps, EmptySeq
<1>4. CASE line.id = 0
  <2> DEFINE n == line  notes == notifications
  <2>1. n \in Notes
        BY <1>1, <1>4 DEF Replies
  <2>2. /\ notifications' = Append(notes, n)
        /\ queue' = IF listening THEN Append(queue, n) ELSE queue
        /\ UNCHANGED <<pending, settled>>
        BY <1>4 DEF ReadLine
  <2> HIDE DEF line
  <2>3. notes \in Seq(Notes) /\ queue \in Seq(Notes)
        BY DEF CallTypes
  <2>4. PICK e \in Nat : ItemsUpTo(notes, e)
        BY DEF Handed
  <2>5. /\ e < Len(notes) => ToldOf(notifications') = ToldOf(notes)
        /\ e < Len(notes) => ItemsUpTo(notifications', e)
        /\ e = Len(notes) => ToldOf(notifications') = ToldOf(notes) \o Mapped(n)
        /\ e = Len(notes) => \E f \in Nat : ItemsUpTo(notifications', f)
        BY <2>1, <2>2, <2>3, <2>4, ToldNext
  <2>6. e \in 0 .. Len(notes) /\ (e = Len(notes) \/ e < Len(notes))
        BY <2>3, <2>4 DEF ItemsUpTo
  <2>7. e < Len(notes) <=> \E i \in DOMAIN notes : Ends(notes[i])
    <3>1. ASSUME e < Len(notes) PROVE \E i \in DOMAIN notes : Ends(notes[i])
      <4>1. e + 1 \in DOMAIN notes /\ Ends(notes[e + 1])
            BY <2>3, <2>4, <3>1 DEF ItemsUpTo
      <4> QED BY <4>1
    <3>2. ASSUME e = Len(notes), NEW i \in DOMAIN notes PROVE ~Ends(notes[i])
      <4>1. i \in 1 .. e
            BY <2>3, <3>2
      <4>2. notes[i].method = "item"
            BY <2>4, <4>1 DEF ItemsUpTo
      <4> QED BY <4>2 DEF Ends
    <3> QED BY <2>6, <3>1, <3>2
  <2>8. /\ notifications' \in Seq(Notes) /\ Len(notifications') = Len(notes) + 1
        /\ \A i \in 1 .. Len(notes) : notifications'[i] = notes[i]
        /\ notifications'[Len(notes) + 1] = n
        BY <2>1, <2>2, <2>3
  <2>9. CodexProduced' = IF InTurn THEN Opening \o ToldOf(notifications') ELSE taken
        BY <1>2 DEF CodexProduced, Opening, Streamed, ToldOf, InTurn
  <2>10. \E es \in Seq(CodexEvents) : Tells(es)
    <3>1. CodexProduced \in Seq(CodexEvents) /\ CodexProduced \o <<>> = CodexProduced
          BY TakenIsPrefix, ConcatEmptySeq
    <3>2. CodexComplete => CodexComplete'
      <4>1. ASSUME NEW i \in DOMAIN notes, Ends(notes[i])
            PROVE  i \in DOMAIN notifications' /\ Ends(notifications'[i])
            BY <2>3, <2>8, <4>1
      <4> QED BY <1>2, <2>2, <4>1 DEF CodexComplete
    <3>3. result # "open" => (CodexComplete' <=> CodexComplete)
          BY <1>2 DEF CodexComplete, Place
    <3>4. CASE ~InTurn \/ e < Len(notes)
      <4>1. CodexProduced' = CodexProduced
            BY <2>5, <2>9, <3>4, ProducedIs
      <4>2. Tells(<<>>)
            BY <1>2, <3>1, <3>2, <3>3, <4>1 DEF Tells, callVars
      <4> QED BY <4>2, EmptySeq
    <3>5. CASE InTurn /\ e = Len(notes)
      <4>1. pc = "streaming" /\ ~CodexComplete /\ result = "open"
        <5>1. ~(\E i \in DOMAIN notes : Ends(notes[i]))
              BY <2>3, <2>7, <3>5
        <5>2. pc = "streaming" /\ result = "open"
              BY <3>5, <5>1 DEF InTurn, Handed, Place
        <5> QED BY <5>1, <5>2 DEF CodexComplete
      <4>2. Mapped(n) \in Seq(CodexEvents) /\ ToldOf(notes) \in Seq(CodexEvents)
            BY <2>1, <2>3, <2>4, MappedEvents, ToldSeq
      <4>3. PICK o, t, m \in Seq(CodexEvents) :
               o = Opening /\ t = ToldOf(notes) /\ m = Mapped(n)
            BY <4>2, OpeningSeq
      <4>4. o \o (t \o m) = (o \o t) \o m
            BY <4>3, ConcatAssociative
      <4>5. CodexProduced' = o \o (t \o m)
            BY <2>5, <2>9, <3>5, <4>3
      <4>6. CodexProduced = o \o t
            BY <3>5, <4>3, ProducedIs
      <4>7. Tells(m)
            BY <1>2, <4>1, <4>4, <4>5, <4>6 DEF Tells, callVars
      <4> QED BY <4>3, <4>7
    <3> QED BY <2>6, <3>4, <3>5
  <2>11. CallTypes'
         BY <1>1, <1>2, <2>1, <2>2, <2>3, <2>8 DEF CallTypes
  <2>12. Requests' /\ Place' /\ Listens' /\ NoChildLeft'
         BY <1>2, <2>2 DEF Requests, Place, Listens, NoChildLeft
  <2>13. CodexTypeOK'
         BY <1>2, <2>2 DEF CodexTypeOK, RpcTypeOK
  <2>14. Handed'
    <3>1. \E f \in Nat : ItemsUpTo(notifications', f)
          BY <2>4, <2>5, <2>6
    <3>2. ASSUME pc = "streaming" PROVE \E k \in Nat : TakenUpTo(k)'
      <4>1. PICK k \in Nat : TakenUpTo(k)
            BY <3>2 DEF Handed
      <4>2. listening /\ queue' = Append(queue, n)
            BY <2>2, <3>2 DEF Listens
      <4>3. k + Len(queue) = Len(notes) /\ Len(queue) \in Nat
            BY <2>3, <4>1 DEF TakenUpTo
      <4>4. Len(queue') = Len(queue) + 1 /\ k + Len(queue') = Len(notifications')
        <5>1. Len(queue') = Len(queue) + 1
              BY <2>1, <2>3, <4>2
        <5>2. Len(notifications') = Len(notes) + 1
              BY <2>8
        <5> HIDE DEF n, notes
        <5> QED BY <4>3, <5>1, <5>2
      <4>5. ASSUME NEW i \in 1 .. Len(queue') PROVE queue'[i] = notifications'[k + i]
        <5>1. CASE i <= Len(queue)
          <6>1. queue'[i] = queue[i] /\ queue[i] = notes[k + i] /\ k + i \in 1 .. Len(notes)
                BY <2>3, <4>1, <4>2, <4>3, <5>1 DEF TakenUpTo
          <6> QED BY <2>8, <6>1
        <5>2. CASE i = Len(queue) + 1
          <6>1. queue'[i] = n
                BY <2>1, <2>3, <4>2, <5>2
          <6>2. k + i = Len(notes) + 1
                BY <4>3, <5>2
          <6> QED BY <2>8, <6>1, <6>2
        <5> QED BY <4>3, <4>4, <5>1, <5>2
      <4>6. \A i \in 1 .. k : i \in 1 .. Len(notes)
            BY <4>3
      <4>7. \A i \in 1 .. k : notifications'[i] = notes[i]
            BY <2>8, <4>6
      <4>8. Items(notifications', k) = Items(notes, k)
            BY <4>7 DEF Items
      <4>9. taken' = Opening \o Items(notifications', k)
            BY <1>2, <4>1, <4>8 DEF TakenUpTo
      <4>10. \A i \in 1 .. k : notifications'[i].method = "item"
            BY <4>1, <4>7 DEF TakenUpTo
      <4>11. TakenUpTo(k)'
            BY <1>2, <4>4, <4>5, <4>9, <4>10 DEF TakenUpTo, Opening, Items
      <4> QED BY <4>11
    <3>3. ASSUME pc = "finishing" \/ (result = "done" /\ kind # "call")
          PROVE  /\ \E i \in DOMAIN notifications' : Ends(notifications'[i])
                 /\ taken' = CodexProduced'
      <4>1. PICK i \in DOMAIN notes : Ends(notes[i])
            BY <3>3 DEF Handed
      <4>2. i \in DOMAIN notifications' /\ Ends(notifications'[i])
            BY <2>3, <2>8, <4>1
      <4>3. e < Len(notes)
            BY <2>7, <4>1
      <4>4. CodexProduced' = CodexProduced
            BY <2>5, <2>9, <4>3, ProducedIs
      <4> QED BY <1>2, <3>3, <4>2, <4>4 DEF Handed
    <3> QED BY <1>2, <3>1, <3>2, <3>3 DEF Handed, Opening
  <2> QED BY <2>10, <2>11, <2>12, <2>13, <2>14
<1> QED BY <1>3, <1>4

\* The places before the turn streams.
Before == {"ready", "spawn", "initialize", "request", "thread", "announced",
           "turn/start"}

\* From one await to the next before the turn streams: nothing is produced.
LEMMA MovesOn ==
    ASSUME CodexInv, pc \in Before, pc' \in Before, settled' = "none",
           pc = "request" => settled # "ok",
           UNCHANGED callVars, UNCHANGED <<late, notifications>>,
           stdout' = stdout, queue' \in {queue, notifications},
           ClientFacts', Requests', Place', Listens',
           pc' \in {"announced", "turn/start"} => taken = Opening,
           pc' \notin {"announced", "turn/start"} => taken = <<>>
    PROVE  CodexInv' /\ Tells(<<>>)
<1> USE DEF CodexInv
<1>1. UNCHANGED <<provider, kind, allowed, taken, result>> /\ result = "open"
      BY DEF callVars, Place, Before
<1>2. CallTypes'
      BY <1>1 DEF CallTypes
<1>3. NoChildLeft'
      BY <1>1 DEF NoChildLeft
<1>4. CodexTypeOK'
  <2>1. RpcTypeOK'
        BY ClientTypes, PTL
  <2> QED BY <2>1 DEF CodexTypeOK, Before, Awaiting, Place
<1>5. Handed'
      BY <1>1 DEF Handed, ItemsUpTo, Opening, Before
<1>6. Tells(<<>>)
  <2>1. CodexProduced = taken /\ CodexProduced' = taken
        BY <1>1 DEF CodexProduced, Before
  <2>2. taken \o <<>> = taken
        BY ConcatEmptySeq DEF CallTypes
  <2>3. ~CodexComplete
        BY <1>1 DEF CodexComplete, Before
  <2> QED BY <1>1, <2>1, <2>2, <2>3 DEF Tells
<1> QED BY <1>2, <1>3, <1>4, <1>5, <1>6

\* The call is refused, or the app-server is to be started for it.
LEMMA RefusedOrStarts ==
    ASSUME CodexInv, CodexCall
    PROVE  CodexInv' /\ (Tells(<<>>) \/ Over)
<1> USE DEF CodexInv
<1>1. /\ pc = "ready" /\ child = "none" /\ pending = {} /\ settled = "none" /\ ~listening
      /\ result = "open" /\ taken = <<>> /\ queue = <<>> /\ taken = CodexProduced
      BY DEF CodexCall, Place, Requests, Listens, Handed, CodexProduced, Awaiting
<1>2. UNCHANGED rpcVars /\ late' = late /\ killed \in BOOLEAN /\ listening \in BOOLEAN
      BY DEF CodexCall, CodexTypeOK, RpcTypeOK
<1>3. CASE Refused
  <2>1. Throw /\ pc' = "over"
        BY <1>3 DEF CodexCall
  <2> QED BY <1>1, <1>2, <2>1, CallEnds DEF Throw, rpcVars
<1>4. CASE ~Refused
  <2>1. UNCHANGED callVars /\ pc' = "spawn"
        BY <1>4 DEF CodexCall
  <2>2. ClientFacts'
        BY <1>2 DEF rpcVars, ClientFacts, CodexTypeOK, RpcTypeOK
  <2>3. Requests'
        BY <1>1, <1>2, <2>1 DEF rpcVars, Requests, Awaiting
  <2>4. Place' /\ Listens'
        BY <1>1, <1>2, <2>1 DEF rpcVars, callVars, Place, Listens
  <2> QED BY <1>1, <1>2, <2>1, <2>2, <2>3, <2>4, MovesOn DEF rpcVars, Before
<1> QED BY <1>3, <1>4

\* The process starts.
LEMMA SpawnKeeps ==
    ASSUME CodexInv, Spawned
    PROVE  CodexInv' /\ Tells(<<>>)
<1> USE DEF CodexInv
<1>1. /\ pc = "spawn" /\ pending = {} /\ settled = "none" /\ ~listening /\ nextId = 1
      /\ result = "open" /\ taken = <<>> /\ inbox = {}
      BY DEF Spawned, Place, Requests, Listens, Handed, Awaiting, CodexTypeOK, RpcTypeOK
<1>2. /\ UNCHANGED callVars /\ late' = late /\ pc' = "initialize" /\ child' = "running"
      /\ nextId' = 2 /\ pending' = {1} /\ inbox' = {1} /\ settled' = "none"
      /\ UNCHANGED <<killed, stdout, notifications, listening, queue>>
      BY <1>1 DEF Spawned, StartAndRequest
<1>3. ClientFacts'
      BY <1>2 DEF ClientFacts, CodexTypeOK, RpcTypeOK
<1>4. Requests'
      BY <1>2 DEF Requests, Awaiting
<1>5. Place' /\ Listens'
      BY <1>1, <1>2 DEF Place, Listens, callVars
<1> QED BY <1>1, <1>2, <1>3, <1>4, <1>5, MovesOn DEF Before

\* It does not start: nothing is left to close.
LEMMA SpawnFailsKeeps ==
    ASSUME CodexInv, SpawnFails
    PROVE  CodexInv' /\ Over
<1> USE DEF CodexInv
<1>1. /\ pc = "spawn" /\ child = "none" /\ pending = {} /\ settled = "none" /\ ~listening
      /\ result = "open" /\ taken = <<>> /\ queue = <<>> /\ taken = CodexProduced
      BY DEF SpawnFails, Place, Requests, Listens, Handed, CodexProduced, Awaiting
<1>2. UNCHANGED rpcVars /\ late' = late /\ killed \in BOOLEAN /\ listening \in BOOLEAN
      BY DEF SpawnFails, CodexTypeOK, RpcTypeOK
<1>3. Throw /\ pc' = "over"
      BY DEF SpawnFails
<1> QED BY <1>1, <1>2, <1>3, CallEnds DEF Throw, rpcVars

\* The finally clauses, at a place where nothing is pending: the listener is
\* gone, the child has its signal.
LEMMA ChildIsClosed ==
    ASSUME CodexInv, pc \notin {"ready", "spawn", "over"}, pending = {}, late' = late,
           taken = CodexProduced,
           CloseAndThrow \/ (CloseAndReturn /\ CodexComplete
                             /\ (kind = "call" \/ pc = "finishing"))
    PROVE  CodexInv' /\ Over
<1> USE DEF CodexInv
<1>1. result = "open" /\ child \in {"none", "running", "gone", "closed"} /\ killed \in BOOLEAN
      BY DEF Place, CodexTypeOK, RpcTypeOK
<1>2. /\ UnsubscribeAndClose /\ pc' = "over" /\ result' \in {"done", "failed"}
      /\ UNCHANGED <<provider, kind, allowed, taken>>
      /\ result' = "done" => CodexComplete /\ (kind = "call" \/ pc = "finishing")
      BY DEF CloseAndThrow, CloseAndReturn, Throw, Return
<1>3. /\ UNCHANGED <<child, inbox, stdout, nextId, pending, notifications>>
      /\ settled' = "none" /\ ~listening' /\ listening' \in BOOLEAN /\ queue' = <<>>
      /\ killed' \in BOOLEAN /\ (child \in {"none", "gone", "closed"} \/ killed')
      BY <1>1, <1>2 DEF UnsubscribeAndClose
<1> QED BY <1>1, <1>2, <1>3, CallEnds

\* The next request of the call, or its end when the process is closed.
LEMMA SendsKeep ==
    ASSUME CodexInv, NEW name, RequestNext(name), pending = {}, late' = late,
           \/ pc = "initialize" /\ name = "request" /\ kind = "call"
           \/ pc = "initialize" /\ name = "thread" /\ kind \in Turns
           \/ pc = "thread" /\ name = "turn/start" /\ kind = "turn"
           \/ pc = "announced" /\ name = "turn/start" /\ kind = "new"
    PROVE  CodexInv' /\ (Tells(<<>>) \/ Over)
<1> USE DEF CodexInv
<1>1. result = "open" /\ taken = CodexProduced
      BY DEF Place, CodexProduced
<1>2. CASE child = "closed"
      BY <1>1, <1>2, ChildIsClosed DEF RequestNext
<1>3. CASE child # "closed"
  <2>1. /\ pc' = name /\ SendRequest
        /\ IF name = "turn/start" THEN Subscribe ELSE UNCHANGED <<listening, queue>>
        /\ UNCHANGED callVars
        /\ UNCHANGED <<child, killed, stdout, notifications>>
        BY <1>3 DEF RequestNext
  <2>2. /\ nextId \in {2, 3} /\ nextId' = nextId + 1 /\ pending' = {nextId}
        /\ inbox' \subseteq inbox \cup {nextId} /\ settled' = "none"
        BY <2>1 DEF SendRequest, Requests
  <2>3. inbox \subseteq 1 .. nextId - 1
        BY DEF CodexTypeOK, RpcTypeOK
  <2>4. nextId' \in 1 .. 4 /\ inbox' \subseteq 1 .. nextId' - 1 /\ nextId' - 1 = nextId
        BY <2>2, <2>3
  <2>5. listening \in BOOLEAN /\ listening' \in BOOLEAN
        BY <2>1 DEF Subscribe, CodexTypeOK, RpcTypeOK
  <2>6. ClientFacts'
        BY <2>1, <2>2, <2>4, <2>5 DEF ClientFacts, CodexTypeOK, RpcTypeOK
  <2>7. Requests'
    <3>1. name \in Awaiting /\ pending' = {nextId' - 1}
          BY <2>2, <2>4 DEF Awaiting
    <3>2. /\ name = "request" => nextId' = 3
          /\ name = "thread" => nextId' = 3
          /\ name = "turn/start" => nextId' = 4
          /\ name \in {"request", "thread", "turn/start"}
          BY <2>2 DEF Requests
    <3> QED BY <2>1, <2>2, <3>1, <3>2 DEF Requests
  <2>8. Place'
        BY <1>1, <2>1 DEF Place, callVars
  <2>9. Listens' /\ queue' \in {queue, notifications}
    <3>1. CASE name = "turn/start"
          BY <2>1, <3>1 DEF Subscribe, Listens
    <3>2. CASE name # "turn/start"
          BY <2>1, <3>2 DEF Listens
    <3> QED BY <3>1, <3>2
  <2>10. /\ name = "turn/start" => taken = Opening
         /\ name # "turn/start" => taken = <<>>
         BY DEF Handed, Opening
  <2> QED BY <2>1, <2>2, <2>6, <2>7, <2>8, <2>9, <2>10, MovesOn DEF Before
<1> QED BY <1>2, <1>3

\* The answer to a listing, a snapshot or the models ends the call.
LEMMA AnsweredKeeps ==
    ASSUME CodexInv, CallAnswered
    PROVE  CodexInv' /\ Over
<1> USE DEF CodexInv
<1>1. pc = "request" /\ settled = "ok" /\ CloseAndReturn /\ late' = late
      BY DEF CallAnswered
<1>2. /\ pending = {} /\ kind = "call" /\ result = "open"
      /\ taken = CodexProduced /\ CodexComplete
      BY <1>1 DEF Requests, Place, Awaiting, CodexProduced, CodexComplete
<1> QED BY <1>1, <1>2, ChildIsClosed

\* Whatever a request fails for ends the call.
LEMMA FailsKeeps ==
    ASSUME CodexInv, RequestFails
    PROVE  CodexInv' /\ Over
<1> USE DEF CodexInv
<1>1. pc \in Awaiting /\ settled \in {"error", "rejected"} /\ CloseAndThrow /\ late' = late
      BY DEF RequestFails
<1>2. pending = {} /\ result = "open" /\ taken = CodexProduced
      BY <1>1 DEF Requests, Place, Awaiting, CodexProduced
<1> QED BY <1>1, <1>2, ChildIsClosed DEF Awaiting

\* After the notification that ends the turn.
LEMMA FinishKeeps ==
    ASSUME CodexInv, FinishTurn
    PROVE  CodexInv' /\ Over
<1> USE DEF CodexInv
<1>1. pc = "finishing" /\ CloseAndReturn /\ late' = late
      BY DEF FinishTurn
<1>2. pending = {} /\ taken = CodexProduced /\ CodexComplete
      BY <1>1 DEF Requests, Handed, Awaiting, CodexComplete
<1> QED BY <1>1, <1>2, ChildIsClosed

\* With nothing queued all that was told is handed over.
LEMMA AllTaken ==
    ASSUME CodexInv, pc = "streaming", queue = <<>>
    PROVE  taken = CodexProduced
<1> USE DEF CodexInv
<1>1. PICK k \in Nat : TakenUpTo(k)
      BY DEF Handed
<1>2. PICK e \in Nat : ItemsUpTo(notifications, e)
      BY DEF Handed
<1>3. notifications \in Seq(Notes) /\ Len(notifications) \in Nat
      BY DEF CallTypes
<1>4. k = Len(notifications)
  <2>1. Len(queue) = 0 /\ k + Len(queue) = Len(notifications)
        BY <1>1 DEF TakenUpTo
  <2> QED BY <2>1
<1>5. e = Len(notifications)
  <2>1. e \in 0 .. Len(notifications)
        BY <1>2 DEF ItemsUpTo
  <2>2. ASSUME e < Len(notifications) PROVE FALSE
    <3>1. e + 1 \in 1 .. k /\ Ends(notifications[e + 1])
          BY <1>2, <1>3, <1>4, <2>1, <2>2 DEF ItemsUpTo
    <3>2. notifications[e + 1].method = "item"
          BY <1>1, <3>1 DEF TakenUpTo
    <3> QED BY <3>1, <3>2 DEF Ends
  <2> QED BY <1>3, <2>1, <2>2
<1>6. ToldOf(notifications) = Items(notifications, k)
      BY <1>2, <1>3, <1>4, <1>5, ToldSeq
<1> QED BY <1>1, <1>6, ProducedIs DEF TakenUpTo, InTurn

\* The deadline of the turn is thrown only then.
LEMMA DeadlineKeeps ==
    ASSUME CodexInv, DeadlineThrows
    PROVE  CodexInv' /\ Over
<1> USE DEF CodexInv
<1>1. pc = "streaming" /\ queue = <<>> /\ CloseAndThrow /\ late' = late
      BY DEF DeadlineThrows
<1>2. pending = {} /\ taken = CodexProduced
      BY <1>1, AllTaken DEF Requests, Awaiting
<1> QED BY <1>1, <1>2, ChildIsClosed

\* The new session is announced.
LEMMA ThreadKeeps ==
    ASSUME CodexInv, ThreadStarted
    PROVE  CodexInv' /\ Hands
<1> USE DEF CodexInv
<1>1. /\ pc = "thread" /\ kind = "new" /\ settled = "ok" /\ pending = {} /\ nextId = 3
      /\ taken = <<>> /\ result = "open" /\ ~listening
      BY DEF ThreadStarted, Requests, Place, Listens, Handed, Awaiting
<1>2. /\ UNCHANGED <<provider, kind, allowed, result>>
      /\ pc' = "announced" /\ settled' = "none"
      /\ UNCHANGED <<late, child, killed, inbox, stdout, nextId, pending,
                     notifications, listening, queue>>
      BY DEF ThreadStarted, Receive
<1>3. Announcement \in CodexEvents /\ Announcement.type = "session.new"
      BY DEF CodexEvents, Announcement
<1>4. taken' = <<Announcement>> /\ taken' = taken \o <<Announcement>>
  <2>1. taken' = taken \o <<Announcement>>
        BY DEF ThreadStarted, Receive
  <2>2. <<>> \o <<Announcement>> = <<Announcement>>
        BY <1>3
  <2> QED BY <1>1, <2>1, <2>2
<1>5. CallTypes'
      BY <1>2, <1>3, <1>4 DEF CallTypes
<1>6. Requests' /\ Place' /\ Listens' /\ NoChildLeft'
      BY <1>1, <1>2 DEF Requests, Place, Listens, NoChildLeft, Awaiting
<1>7. CodexTypeOK'
  <2>1. RpcTypeOK'
    <3>1. ClientFacts'
          BY <1>2 DEF ClientFacts, CodexTypeOK, RpcTypeOK
    <3> QED BY <1>6, <3>1, ClientTypes, PTL
  <2> QED BY <1>2, <2>1 DEF CodexTypeOK
<1>8. Handed'
  <2>1. \A i \in DOMAIN taken' : (taken'[i].type = "session.new") <=> (i = 1 /\ kind' = "new")
        BY <1>1, <1>2, <1>3, <1>4
  <2>2. taken' = Opening'
        BY <1>1, <1>2, <1>4 DEF Opening
  <2> QED BY <1>1, <1>2, <2>1, <2>2 DEF Handed, ItemsUpTo
<1>9. Hands
  <2>1. CodexProduced = taken /\ CodexProduced' = taken'
        BY <1>1, <1>2 DEF CodexProduced
  <2>2. taken' \in Seq(CodexEvents) /\ <<Announcement>> \in Seq(CodexEvents)
        /\ Len(<<Announcement>>) <= 1
        BY <1>3, <1>4
  <2>3. IsPrefix(taken', taken')
        BY <2>2, PrefixByElement
  <2>4. ~CodexComplete
        BY <1>1 DEF CodexComplete
  <2> QED BY <1>1, <1>2, <1>4, <2>1, <2>2, <2>3, <2>4 DEF Hands
<1> QED BY <1>5, <1>6, <1>7, <1>8, <1>9 DEF CodexInv

\* The turn streams: all that was notified so far is told.
LEMMA StartedKeeps ==
    ASSUME CodexInv, TurnStarted
    PROVE  CodexInv' /\ \E es \in Seq(CodexEvents) : Tells(es)
<1> USE DEF CodexInv
<1>1. /\ pc = "turn/start" /\ settled = "ok" /\ pending = {} /\ nextId = 4
      /\ taken = Opening /\ result = "open" /\ kind \in Turns
      /\ queue = notifications /\ listening
      BY DEF TurnStarted, Requests, Place, Listens, Handed, Awaiting
<1>2. /\ UNCHANGED <<provider, kind, allowed, taken, result>> /\ UNCHANGED callVars
      /\ pc' = "streaming" /\ settled' = "none"
      /\ UNCHANGED <<late, child, killed, inbox, stdout, nextId, pending,
                     notifications, listening, queue>>
      BY DEF TurnStarted, callVars
<1>3. CallTypes'
      BY <1>2 DEF CallTypes
<1>4. Requests' /\ Place' /\ Listens' /\ NoChildLeft'
      BY <1>1, <1>2 DEF Requests, Place, Listens, NoChildLeft, Awaiting
<1>5. CodexTypeOK'
  <2>1. RpcTypeOK'
    <3>1. ClientFacts'
          BY <1>2 DEF ClientFacts, CodexTypeOK, RpcTypeOK
    <3> QED BY <1>4, <3>1, ClientTypes, PTL
  <2> QED BY <1>2, <2>1 DEF CodexTypeOK
<1>6. notifications \in Seq(Notes)
      BY DEF CallTypes
<1>7. Handed'
  <2>1. TakenUpTo(0)'
    <3>1. Items(notifications, 0) = <<>>
          BY DEF Items
    <3>2. taken = Opening \o Items(notifications, 0)
          BY <1>1, <3>1, OpeningSeq, ConcatEmptySeq
    <3>3. 0 + Len(queue) = Len(notifications)
          /\ \A i \in 1 .. Len(queue) : queue[i] = notifications[0 + i]
          BY <1>1, <1>6
    <3> QED BY <1>2, <3>2, <3>3 DEF TakenUpTo, Items, Opening
  <2> QED BY <1>1, <1>2, <2>1 DEF Handed, ItemsUpTo
<1>8. \E es \in Seq(CodexEvents) : Tells(es)
  <2>1. CodexProduced = Opening
        BY <1>1 DEF CodexProduced
  <2>2. CodexProduced' = Opening \o ToldOf(notifications)
        BY <1>2 DEF CodexProduced, Opening, Streamed, ToldOf
  <2>3. PICK e \in Nat : ItemsUpTo(notifications, e)
        BY DEF Handed
  <2>4. ToldOf(notifications) \in Seq(CodexEvents)
        BY <1>6, <2>3, ToldSeq
  <2>5. ~CodexComplete
        BY <1>1 DEF CodexComplete
  <2>6. Tells(ToldOf(notifications))
        BY <1>1, <1>2, <2>1, <2>2, <2>5 DEF Tells
  <2> QED BY <2>4, <2>6
<1> QED BY <1>3, <1>4, <1>5, <1>7, <1>8

\* The next notification is handed over, with its event or without; the one
\* that ends the turn is the last that tells anything.
LEMMA TakeKeeps ==
    ASSUME CodexInv, TakeNotification
    PROVE  CodexInv' /\ Hands
<1> USE DEF CodexInv
<1> DEFINE n == Head(queue)
           notes == notifications
<1>1. PICK k \in Nat : TakenUpTo(k)
      BY DEF TakeNotification, Handed
<1>2. PICK e \in Nat : ItemsUpTo(notes, e)
      BY DEF Handed
<1>3. /\ pc = "streaming" /\ queue # <<>> /\ result = "open" /\ kind \in Turns
      /\ pending = {} /\ settled = "none" /\ nextId = 4 /\ listening
      BY DEF TakeNotification, Requests, Place, Listens, Awaiting
<1>4. /\ UNCHANGED <<provider, kind, allowed, result>>
      /\ taken' = taken \o Mapped(n) /\ queue' = Tail(queue)
      /\ pc' = IF Ends(n) THEN "finishing" ELSE pc
      /\ UNCHANGED <<late, child, killed, inbox, stdout, nextId, pending,
                     settled, notifications, listening>>
      BY DEF TakeNotification, Receive
<1>5. /\ notes \in Seq(Notes) /\ queue \in Seq(Notes) /\ taken \in Seq(CodexEvents)
      /\ Len(queue) \in Nat \ {0} /\ Len(notes) \in Nat /\ n \in Notes
      /\ n = queue[1] /\ queue' \in Seq(Notes) /\ Len(queue') = Len(queue) - 1
      /\ \A i \in 1 .. Len(queue') : queue'[i] = queue[i + 1]
      BY <1>3, <1>4 DEF CallTypes
<1>6. k + Len(queue) = Len(notes) /\ k + 1 \in 1 .. Len(notes) /\ k \in 0 .. Len(notes)
      BY <1>1, <1>5 DEF TakenUpTo
<1>7. n = notes[k + 1]
  <2>1. 1 \in 1 .. Len(queue)
        BY <1>5
  <2> QED BY <1>1, <1>5, <2>1 DEF TakenUpTo
<1> HIDE DEF n
<1>8. e \in 0 .. Len(notes) /\ e >= k
  <2>1. e \in 0 .. Len(notes)
        BY <1>2 DEF ItemsUpTo
  <2>2. ASSUME e < k PROVE FALSE
    <3>1. e + 1 \in 1 .. k /\ e < Len(notes)
          BY <1>6, <2>1, <2>2
    <3>2. notes[e + 1].method = "item" /\ Ends(notes[e + 1])
          BY <1>1, <1>2, <3>1 DEF TakenUpTo, ItemsUpTo
    <3> QED BY <3>2 DEF Ends
  <2> QED BY <2>1, <2>2
<1>9. /\ Mapped(n) \in Seq(CodexEvents) /\ Len(Mapped(n)) <= 1
      /\ \A i \in DOMAIN Mapped(n) : Mapped(n)[i].type # "session.new"
  <2>1. Mapped(n) \in Seq(CodexEvents)
        /\ \A i \in DOMAIN Mapped(n) : Mapped(n)[i].type # "session.new"
        BY <1>5, MappedEvents
  <2>2. Len(Mapped(n)) <= 1
        BY DEF Mapped
  <2> QED BY <2>1, <2>2
<1>10. PICK o, it, m \in Seq(CodexEvents) :
          o = Opening /\ it = Items(notes, k) /\ m = Mapped(n)
       BY <1>5, <1>6, <1>9, OpeningSeq, ItemsSeq
<1>11. taken = o \o it /\ taken' = (o \o it) \o m /\ (o \o it) \o m = o \o (it \o m)
  <2>1. (o \o it) \o m = o \o (it \o m)
        BY <1>10, ConcatAssociative
  <2> QED BY <1>1, <1>4, <1>10, <2>1 DEF TakenUpTo
<1>12. CodexProduced = Opening \o ToldOf(notes) /\ CodexProduced' = CodexProduced
  <2>1. CodexProduced = Opening \o ToldOf(notes)
        BY <1>3, ProducedIs DEF InTurn
  <2>2. pc' \in {"streaming", "finishing"}
        BY <1>3, <1>4
  <2>3. CodexProduced' = Opening \o ToldOf(notes)
        BY <1>4, <2>2 DEF CodexProduced, Opening, Streamed, ToldOf
  <2> QED BY <2>1, <2>3
<1>13. ASSUME Ends(n) PROVE taken' = CodexProduced
  <2>1. e = k
    <3>1. ASSUME e > k PROVE FALSE
      <4>1. k + 1 \in 1 .. e
            BY <1>8, <3>1
      <4>2. notes[k + 1].method = "item"
            BY <1>2, <4>1 DEF ItemsUpTo
      <4> QED BY <1>7, <1>13, <4>2 DEF Ends
    <3> QED BY <1>8, <3>1
  <2>2. e < Len(notes)
        BY <1>6, <2>1
  <2>3. ToldOf(notes) = Items(notes, e) \o Mapped(notes[e + 1])
        BY <1>2, <1>5, <2>2, ToldShape
  <2>4. ToldOf(notes) = it \o m
        BY <1>7, <1>10, <2>1, <2>3
  <2> QED BY <1>10, <1>11, <1>12, <2>4
<1>14. ASSUME ~Ends(n) PROVE TakenUpTo(k + 1)'
  <2>1. n.method = "item"
        BY <1>5, <1>14 DEF Ends, Notes
  <2>2. Items(notes, k + 1) = Items(notes, k) \o Mapped(notes[k + 1])
    <3>1. k + 1 <= Len(notes) /\ notes[k + 1].method = "item"
          BY <1>6, <1>7, <2>1
    <3> QED BY <1>5, <3>1, ItemsNext
  <2>3. taken' = Opening \o Items(notes, k + 1)
        BY <1>7, <1>10, <1>11, <2>2
  <2>4. (k + 1) + Len(queue') = Len(notes)
    <3>1. Len(queue') = Len(queue) - 1 /\ Len(queue) \in Nat
          BY <1>5
    <3>2. k + Len(queue) = Len(notes)
          BY <1>6
    <3> HIDE DEF notes
    <3> QED BY <3>1, <3>2
  <2>5. ASSUME NEW i \in 1 .. Len(queue') PROVE queue'[i] = notes[(k + 1) + i]
    <3>1. i + 1 \in 1 .. Len(queue) /\ k + (i + 1) = (k + 1) + i
          BY <1>5
    <3>2. queue[i + 1] = notes[k + (i + 1)]
          BY <1>1, <3>1 DEF TakenUpTo
    <3> QED BY <1>5, <3>1, <3>2
  <2>6. ASSUME NEW i \in 1 .. k + 1 PROVE notes[i].method = "item"
    <3>1. i \in 1 .. k \/ i = k + 1
          OBVIOUS
    <3> QED BY <1>1, <1>7, <2>1, <3>1 DEF TakenUpTo
  <2> QED BY <1>4, <2>3, <2>4, <2>5, <2>6 DEF TakenUpTo, Items, Opening
<1>15. ASSUME NEW i \in DOMAIN taken'
       PROVE  (taken'[i].type = "session.new") <=> (i = 1 /\ kind' = "new")
  <2>1. taken' = taken \o m /\ i \in 1 .. Len(taken) + Len(m)
        BY <1>5, <1>10, <1>11, <1>15
  <2>2. CASE i <= Len(taken)
    <3>1. i \in DOMAIN taken /\ taken'[i] = taken[i]
          BY <1>5, <1>10, <2>1, <2>2
    <3> QED BY <1>4, <3>1 DEF Handed
  <2>3. CASE i > Len(taken)
    <3>1. i - Len(taken) \in DOMAIN m /\ taken'[i] = m[i - Len(taken)]
          BY <1>5, <1>10, <2>1, <2>3
    <3>2. ASSUME kind = "new" PROVE i # 1
      <4>1. Len(o) = 1
            BY <1>10, <3>2, OpeningSeq
      <4>2. Len(taken) = Len(o) + Len(it)
            BY <1>10, <1>11
      <4>3. Len(it) \in Nat /\ Len(taken) \in Nat
            BY <1>5, <1>10
      <4> QED BY <2>3, <4>1, <4>2, <4>3
    <3> QED BY <1>4, <1>9, <1>10, <3>1, <3>2
  <2> QED BY <1>5, <2>1, <2>2, <2>3
<1>16. CallTypes'
       BY <1>4, <1>5, <1>9, ConcatProperties DEF CallTypes
<1>17. Requests' /\ Place' /\ Listens' /\ NoChildLeft'
       BY <1>3, <1>4 DEF Requests, Place, Listens, NoChildLeft, Awaiting
<1>18. CodexTypeOK'
       BY <1>3, <1>4 DEF CodexTypeOK, RpcTypeOK
<1>19. Handed'
  <2>1. pc' \in {"streaming", "finishing"} /\ result' # "done"
        BY <1>3, <1>4
  <2>2. ASSUME pc' = "streaming" PROVE \E j \in Nat : TakenUpTo(j)'
    <3>1. ~Ends(n) /\ k + 1 \in Nat
          BY <1>4, <2>2
    <3> QED BY <1>14, <3>1
  <2>3. ASSUME pc' = "finishing"
        PROVE  /\ \E i \in DOMAIN notifications' : Ends(notifications'[i])
               /\ taken' = CodexProduced'
    <3>1. Ends(n)
          BY <1>3, <1>4, <2>3
    <3>2. k + 1 \in DOMAIN notes /\ Ends(notes[k + 1])
          BY <1>5, <1>6, <1>7, <3>1
    <3> QED BY <1>4, <1>12, <1>13, <3>1, <3>2
  <2>4. \E f \in Nat : ItemsUpTo(notifications', f)
        BY <1>2, <1>4
  <2> QED BY <1>15, <2>1, <2>2, <2>3, <2>4 DEF Handed
<1>20. CodexInv'
       BY <1>16, <1>17, <1>18, <1>19
<1>21. Hands
  <2> HIDE DEF CodexInv
  <2>1. CodexProduced' \in Seq(CodexEvents) /\ IsPrefix(taken', CodexProduced')
    <3>1. TakenInOrder'
          BY <1>20, InOrder, PTL
    <3> QED BY <3>1 DEF TakenInOrder
  <2>2. CodexComplete => CodexComplete'
    <3>1. ASSUME CodexComplete PROVE \E i \in DOMAIN notes : Ends(notes[i])
          BY <1>3, <3>1 DEF CodexComplete
    <3>2. pc' \in {"streaming", "finishing"}
          BY <1>3, <1>4
    <3> QED BY <1>4, <3>1, <3>2 DEF CodexComplete
  <2>3. taken' = taken \o Mapped(n)
        BY <1>4
  <2> QED BY <1>3, <1>4, <1>9, <1>12, <2>1, <2>2, <2>3 DEF Hands
<1> QED BY <1>20, <1>21

-----------------------------------------------------------------------------
\* The reports of the step are a stream that grows, an event handed over, or
\* the end of the call.
LEMMA CodexStep ==
    ASSUME CodexInv, CodexNext
    PROVE  CodexInv' /\ ((\E es \in Seq(CodexEvents) : Tells(es)) \/ Hands \/ Over)
<1> DEFINE Report == (\E es \in Seq(CodexEvents) : Tells(es)) \/ Hands \/ Over
<1>1. Tells(<<>>) => Report
      BY EmptySeq
<1>2. CASE CodexCall
      BY <1>1, <1>2, RefusedOrStarts
<1>3. CASE Spawned
      BY <1>1, <1>3, SpawnKeeps
<1>4. CASE SpawnFails
      BY <1>4, SpawnFailsKeeps
<1>5. CASE Initialized
  <2>1. /\ pc = "initialize" /\ settled = "ok" /\ late' = late
        /\ RequestNext(IF kind = "call" THEN "request" ELSE "thread")
        BY <1>5 DEF Initialized
  <2>2. pending = {} /\ kind \in Turns \cup {"call"}
        BY <2>1 DEF CodexInv, Requests, CallTypes, Awaiting
  <2>3. CASE kind = "call"
        BY <1>1, <2>1, <2>2, <2>3, SendsKeep
  <2>4. CASE kind # "call"
        BY <1>1, <2>1, <2>2, <2>4, SendsKeep
  <2> QED BY <2>3, <2>4
<1>6. CASE CallAnswered
      BY <1>6, AnsweredKeeps
<1>7. CASE Resumed
  <2>1. /\ pc = "thread" /\ kind = "turn" /\ settled = "ok" /\ late' = late
        /\ RequestNext("turn/start")
        BY <1>7 DEF Resumed
  <2>2. pending = {}
        BY <2>1 DEF CodexInv, Requests, Awaiting
  <2> QED BY <1>1, <2>1, <2>2, SendsKeep
<1>8. CASE ThreadStarted
      BY <1>8, ThreadKeeps
<1>9. CASE BeginTurn
  <2>1. pc = "announced" /\ late' = late /\ RequestNext("turn/start")
        BY <1>9 DEF BeginTurn
  <2>2. pending = {} /\ kind = "new"
        BY <2>1 DEF CodexInv, Requests, Place, Awaiting
  <2> QED BY <1>1, <2>1, <2>2, SendsKeep
<1>10. CASE TurnStarted
       BY <1>10, StartedKeeps
<1>11. CASE RequestFails
       BY <1>11, FailsKeeps
<1>12. CASE TakeNotification
       BY <1>12, TakeKeeps
<1>13. CASE FinishTurn
       BY <1>13, FinishKeeps
<1>14. CASE DeadlineThrows
       BY <1>14, DeadlineKeeps
<1>15. CASE DeadlinePasses
       BY <1>1, <1>15, ChildKeeps
<1>16. CASE ProcessSteps
  <2>1. CASE ReadLine
        BY <1>16, <2>1, ReadKeeps DEF ProcessSteps
  <2>2. CASE ~ReadLine
        BY <1>1, <1>16, <2>2, ChildKeeps DEF ProcessSteps
  <2> QED BY <2>1, <2>2
<1> QED BY <1>2, <1>3, <1>4, <1>5, <1>6, <1>7, <1>8, <1>9, <1>10, <1>11,
           <1>12, <1>13, <1>14, <1>15, <1>16 DEF CodexNext, Caller
===============================================================================
