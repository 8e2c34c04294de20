------------------------------ MODULE QrPenalty ------------------------------
(***************************************************************************)
(* penaltyScore of qr.ts: the runs of a row are followed with a history of *)
(* the last seven of them, newest first.                                   *)
(***************************************************************************)
EXTENDS QrLayout

AddHistory(history, length) == <<length>> \o SubSeq(history, 1, 6)

\* The 1:1:3:1:1 patterns, once for each side that has four light units.
FinderPenalty(history) ==
    LET n == history[2]
        core == /\ n > 0
                /\ history[3] = n /\ history[4] = 3 * n
                /\ history[5] = n /\ history[6] = n
        Side(length) == IF core /\ length >= 4 * n THEN 1 ELSE 0
    IN  Side(history[1]) + Side(history[7])

NewRow == [dark |-> FALSE, length |-> 0, history |-> Zeros(7), result |-> 0]

\* Without the light border a row begins with.
SeenBorderless(run, module, size) ==
    IF module = run.dark
    THEN [run EXCEPT !.length = @ + 1,
                     !.result = @ + (IF run.length = 4 THEN 3
                                     ELSE IF run.length > 4 THEN 1 ELSE 0)]
    ELSE LET history == AddHistory(run.history, run.length)
         IN  [dark |-> module, length |-> 1, history |-> history,
              result |-> run.result
                         + (IF run.dark THEN 0 ELSE 40 * FinderPenalty(history))]

\* One module of a row.  The first light run, also an empty one, is extended
\* by the border.
Seen(run, module, size) ==
    IF module = run.dark
    THEN [run EXCEPT !.length = @ + 1,
                     !.result = @ + (IF run.length = 4 THEN 3
                                     ELSE IF run.length > 4 THEN 1 ELSE 0)]
    ELSE LET border == IF run.history[1] = 0 /\ ~run.dark THEN size ELSE 0
             history == AddHistory(run.history, run.length + border)
         IN  [dark |-> module, length |-> 1, history |-> history,
              result |-> run.result
                         + (IF run.dark THEN 0 ELSE 40 * FinderPenalty(history))]

\* finderPenaltyEnd: the last run, and the light border after it.
EndPenalty(run, size) ==
    IF run.dark
    THEN FinderPenalty(AddHistory(AddHistory(run.history, run.length), size))
    ELSE FinderPenalty(AddHistory(run.history, run.length + size))

LinePenalty(line) ==
    LET size == Len(line)
        seen[i \in 0 .. size] ==
            IF i = 0 THEN NewRow ELSE Seen(seen[i - 1], line[i], size)
        last == seen[size]
    IN  last.result + 40 * EndPenalty(last, size)

Row(modules, y, size) == Computed([i \in 1 .. size |-> modules[<<i - 1, y>>]])
Column(modules, x, size) == Computed([i \in 1 .. size |-> modules[<<x, i - 1>>]])

PenaltyScore(modules, size) ==
    LET lines == [i \in 1 .. size |-> LinePenalty(Row(modules, i - 1, size))
                                      + LinePenalty(Column(modules, i - 1, size))]
        blocks == Cardinality({c \in (0 .. size - 2) \X (0 .. size - 2) :
                      Cardinality({modules[d] : d \in
                          (c[1] .. c[1] + 1) \X (c[2] .. c[2] + 1)}) = 1})
        dark == Cardinality({c \in DOMAIN modules : modules[c]})
        total == size * size
        deviation == (Apart(20 * dark, 10 * total) + total - 1) \div total - 1
    IN  SumFunction(lines) + 3 * blocks + 10 * deviation

-----------------------------------------------------------------------------
(* The rules of the standard, on one line with a light border.             *)

Dark(line, i) == i \in DOMAIN line /\ line[i]

\* A run of n >= 5 modules costs n - 2.
RunRule(line) ==
    LET IsRun(i, j) ==
            /\ i + 4 <= j
            /\ \A k \in i .. j : line[k] = line[i]
            /\ i = 1 \/ line[i - 1] # line[i]
            /\ j = Len(line) \/ line[j + 1] # line[i]
        Runs == {r \in (DOMAIN line) \X (DOMAIN line) : IsRun(r[1], r[2])}
    IN  MapThenSumSet(LAMBDA r : r[2] - r[1] - 1, Runs)

\* A dark-light-dark-light-dark pattern of 1:1:3:1:1 units costs 40 for each
\* side on which at least four units are light.
FinderRule(line) ==
    LET IsCore(i, n) ==
            /\ i + 7 * n - 1 <= Len(line) /\ line[i]
            /\ \A k \in 0 .. 7 * n - 1 :
                   line[i + k] <=> (k \div n \in {0, 2, 3, 4, 6})
            /\ ~Dark(line, i - 1) /\ ~Dark(line, i + 7 * n)
        Cores == {c \in (DOMAIN line) \X (1 .. Len(line) \div 7) :
                    IsCore(c[1], c[2])}
        Before(c) == \A k \in 1 .. 4 * c[2] : c[1] <= k \/ ~line[c[1] - k]
        After(c) == \A k \in 0 .. 4 * c[2] - 1 : ~Dark(line, c[1] + 7 * c[2] + k)
    IN  40 * (Cardinality({c \in Cores : Before(c)})
              + Cardinality({c \in Cores : After(c)}))
===============================================================================
