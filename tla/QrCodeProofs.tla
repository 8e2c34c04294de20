----------------------------- MODULE QrCodeProofs -----------------------------
(***************************************************************************)
(* The search of encodeQr finds the smallest symbol and its strongest      *)
(* level for every payload: the loop invariant, whatever fits is computed  *)
(* from.                                                                   *)
(***************************************************************************)
EXTENDS QrCode, TLAPS

Possible(v, l) == Fits(Len(data), v, Levels[l])
Allowed == Floor .. Len(Levels)

\* Where the loops are: the place of the search, within its bounds.
Place ==
    /\ input \in Inputs
    /\ stage \in {"search", "mask", "done", "failed"}
    /\ version \in 1 .. MaxVersion /\ level \in Allowed

\* What the loops have left behind does not fit: the smaller versions at no
\* level, this version at no stronger one.
NothingBefore ==
    /\ \A v \in 1 .. version - 1, l \in Allowed : ~Possible(v, l)
    /\ \A l \in Allowed : l > level => ~Possible(version, l)

\* How the search ended.
Outcome ==
    /\ stage \in {"mask", "done"} => Possible(version, level)
    /\ stage = "failed" =>
          version = MaxVersion /\ level = Floor /\ ~Possible(version, level)

SearchInv == Place /\ NothingBefore /\ Outcome

-----------------------------------------------------------------------------

\* The minimum level of an input is one of the four.
LEMMA FloorIsALevel ==
  ASSUME NEW i \in Inputs
  PROVE  (CHOOSE l \in DOMAIN Levels : Levels[l] = i[2]) \in 1 .. 4
<1>1. i[2] \in ToSet(Levels)
  BY InputAssumption
<1>2. DOMAIN Levels = 1 .. 4
  BY DEF Levels
<1>3. \E l \in DOMAIN Levels : Levels[l] = i[2]
  BY <1>1 DEF ToSet
<1> QED
  BY <1>2, <1>3

\* The search begins at the strongest level of version 1, with nothing behind.
LEMMA SearchInit == Init => SearchInv
<1> SUFFICES ASSUME Init PROVE SearchInv
  OBVIOUS
<1>1. Len(Levels) = 4 /\ Floor \in 1 .. 4
  BY FloorIsALevel DEF Init, Floor, Levels
<1>2. Place
  BY <1>1 DEF Init, Place, Allowed, MaxVersion
<1>3. NothingBefore
  BY <1>1 DEF Init, NothingBefore, Allowed
<1>4. Outcome
  BY DEF Init, Outcome
<1> QED
  BY <1>2, <1>3, <1>4 DEF SearchInv

\* A level that does not fit is left behind; when it is the minimum, so is
\* the version.  The later steps leave version and level alone.
LEMMA SearchStep == SearchInv /\ [Next]_vars => SearchInv'
<1> SUFFICES ASSUME SearchInv, [Next]_vars PROVE SearchInv'
  OBVIOUS
<1>1. Len(Levels) = 4 /\ Floor \in 1 .. 4
  BY FloorIsALevel DEF SearchInv, Place, Floor, Levels
<1>2. input' = input
  BY DEF Next, Search, Throw, Draw, TryMask, Finish, vars
<1>3. Floor' = Floor /\ Allowed' = Allowed
  BY <1>2 DEF Floor, Allowed
<1>4. \A v, l : Possible(v, l)' <=> Possible(v, l)
  BY <1>2 DEF Possible, data
<1>5. CASE Search
  <2>1. /\ stage' = "search" /\ ~Possible(version, level)
        /\ version < MaxVersion \/ level > Floor
    BY <1>5 DEF Search, Possible, Level
  <2>2. CASE level > Floor
    <3>1. level' = level - 1 /\ version' = version
      BY <1>5, <2>2 DEF Search, NextFit
    <3>2. Place'
      BY <1>1, <1>2, <1>3, <2>1, <2>2, <3>1 DEF SearchInv, Place, Allowed
    <3>3. NothingBefore'
      <4>1. \A v \in 1 .. version - 1, l \in Allowed : ~Possible(v, l)
        BY DEF SearchInv, NothingBefore
      <4>2. \A l \in Allowed : l > level - 1 => ~Possible(version, l)
        BY <1>1, <2>1 DEF SearchInv, Place, NothingBefore, Allowed
      <4> QED
        BY <1>3, <1>4, <3>1, <4>1, <4>2 DEF NothingBefore
    <3>4. Outcome'
      BY <2>1 DEF Outcome
    <3> QED
      BY <3>2, <3>3, <3>4 DEF SearchInv
  <2>3. CASE ~(level > Floor)
    <3>1. level' = Len(Levels) /\ version' = version + 1
      BY <1>5, <2>3 DEF Search, NextFit
    <3>2. Place'
      BY <1>1, <1>2, <1>3, <2>1, <2>3, <3>1
      DEF SearchInv, Place, Allowed, MaxVersion
    <3>3. NothingBefore'
      <4>1. \A l \in Allowed : ~Possible(version, l)
        BY <1>1, <2>1, <2>3 DEF SearchInv, Place, NothingBefore, Allowed
      <4>2. \A v \in 1 .. version, l \in Allowed : ~Possible(v, l)
        BY <4>1 DEF SearchInv, Place, NothingBefore, MaxVersion
      <4>3. \A l \in Allowed : ~(l > Len(Levels))
        BY <1>1 DEF Allowed
      <4>4. (version + 1) - 1 = version
        BY DEF SearchInv, Place
      <4> QED
        BY <1>3, <1>4, <3>1, <4>2, <4>3, <4>4 DEF NothingBefore
    <3>4. Outcome'
      BY <2>1 DEF Outcome
    <3> QED
      BY <3>2, <3>3, <3>4 DEF SearchInv
  <2> QED
    BY <2>2, <2>3
<1>6. CASE version' = version /\ level' = level /\ (Throw \/ Draw \/ TryMask \/ Finish \/ UNCHANGED vars)
  <2>1. Place'
    BY <1>2, <1>3, <1>6 DEF SearchInv, Place, Throw, Draw, TryMask, Finish, vars
  <2>2. NothingBefore'
    BY <1>3, <1>4, <1>6 DEF SearchInv, NothingBefore
  <2>3. /\ stage' \in {"mask", "done"} => Possible(version, level)
        /\ stage' = "failed" =>
              version = MaxVersion /\ level = Floor /\ ~Possible(version, level)
    BY <1>6 DEF SearchInv, Outcome, Possible, Level, Throw, Draw, TryMask, Finish, vars
  <2>4. Outcome'
    BY <1>3, <1>4, <1>6, <2>3 DEF Outcome
  <2> QED
    BY <2>1, <2>2, <2>4 DEF SearchInv
<1> QED
  BY <1>5, <1>6 DEF Next, Throw, Draw, TryMask, Finish, vars

\* The loop invariant of encodeQr's search holds for every set of payloads.
THEOREM SearchInductive == Spec => []SearchInv
  BY SearchInit, SearchStep, PTL DEF Spec

\* "the strongest error correction level that still fits the smallest possible
\* symbol", and nothing is refused that fits: for every payload and minimum.
THEOREM SmallestAndStrongest == Spec => []StrongestOfTheSmallest
<1>1. SearchInv => StrongestOfTheSmallest
  <2> SUFFICES ASSUME SearchInv PROVE StrongestOfTheSmallest
    OBVIOUS
  <2>1. Len(Levels) = 4 /\ Floor \in 1 .. 4
    BY FloorIsALevel DEF SearchInv, Place, Floor, Levels
  <2>2. ASSUME NEW l \in Allowed, Possible(version, l)
        PROVE  l <= level
    BY <2>1, <2>2 DEF SearchInv, Place, NothingBefore, Allowed
  <2>3. ASSUME stage = "failed", NEW v \in 1 .. MaxVersion, NEW l \in Allowed
        PROVE  ~Possible(v, l)
    <3>1. CASE v = MaxVersion
      BY <2>1, <2>3, <3>1 DEF SearchInv, NothingBefore, Outcome, Allowed
    <3>2. CASE v # MaxVersion
      BY <2>3, <3>2 DEF SearchInv, NothingBefore, Outcome, MaxVersion
    <3> QED
      BY <3>1, <3>2
  <2> QED
    BY <2>2, <2>3
    DEF SearchInv, NothingBefore, Outcome, StrongestOfTheSmallest, Possible, Allowed
<1> QED
  BY <1>1, SearchInductive, PTL
===============================================================================
