-------------------------------- MODULE QrCode --------------------------------
(***************************************************************************)
(* encodeQr: the search for the symbol, the trial of the eight masks, and  *)
(* what a scanner reads from the result.  One step is one turn of a loop.  *)
(***************************************************************************)
EXTENDS QrPenalty

CONSTANT Inputs  \* pairs of the bytes and the minimum level

ASSUME InputAssumption == Inputs \subseteq Seq(0 .. 255) \X ToSet(Levels)

VARIABLES
    input,
    stage,    \* "search", "mask", then "done", or "failed" (thrown)
    version, level,
    modules,  \* the matrix of the symbol
    mask,     \* the next mask to try
    best      \* the mask with the least penalty so far

vars == <<input, stage, version, level, modules, mask, best>>

data == input[1]
Floor == CHOOSE i \in DOMAIN Levels : Levels[i] = input[2]
Level == Levels[level]
Infinity == 1000000

Init ==
    /\ input \in Inputs
    /\ stage = "search"
    /\ version = 1 /\ level = Len(Levels)
    /\ modules = <<>>
    /\ mask = 0 /\ best = [mask |-> 0, penalty |-> Infinity]

\* Down to the minimum, then only that level of the next version.
NextFitKeepingLevel ==
    IF level > Floor
    THEN level' = level - 1 /\ version' = version
    ELSE level' = level /\ version' = version + 1

\* The levels of a version from the strongest to the minimum.
NextFit ==
    IF level > Floor
    THEN level' = level - 1 /\ version' = version
    ELSE level' = Len(Levels) /\ version' = version + 1

Search ==
    /\ stage = "search" /\ ~Fits(Len(data), version, Level)
    /\ version < MaxVersion \/ level > Floor
    /\ NextFit
    /\ UNCHANGED <<input, stage, modules, mask, best>>

Throw ==
    /\ stage = "search" /\ ~Fits(Len(data), version, Level)
    /\ version = MaxVersion /\ level = Floor
    /\ stage' = "failed"
    /\ UNCHANGED <<input, version, level, modules, mask, best>>

Draw ==
    /\ stage = "search" /\ Fits(Len(data), version, Level)
    /\ LET codewords == Interleaved(ToDataCodewords(data, version, Level),
                                   version, Level)
       IN  modules' = DrawCodewords(codewords, version)
    /\ stage' = "mask"
    /\ UNCHANGED <<input, version, level, mask, best>>

Masked(m) == FormatModules(Level, m, Size(version)) @@ ApplyMask(modules, version, m)

\* A mask that is left applied when the next one is tried.
TryMaskOver ==
    /\ stage = "mask" /\ mask < 8
    /\ LET penalty == PenaltyScore(Masked(mask), Size(version))
       IN  best' = IF penalty < best.penalty
                   THEN [mask |-> mask, penalty |-> penalty] ELSE best
    /\ modules' = Masked(mask)
    /\ mask' = mask + 1
    /\ UNCHANGED <<input, stage, version, level>>

\* Applied, scored, and applied again, which takes it back.
TryMask ==
    /\ stage = "mask" /\ mask < 8
    /\ LET penalty == PenaltyScore(Masked(mask), Size(version))
       IN  best' = IF penalty < best.penalty
                   THEN [mask |-> mask, penalty |-> penalty] ELSE best
    /\ modules' = ApplyMask(Masked(mask), version, mask)
    /\ mask' = mask + 1
    /\ UNCHANGED <<input, stage, version, level>>

Finish ==
    /\ stage = "mask" /\ mask = 8
    /\ modules' = Masked(best.mask)
    /\ stage' = "done"
    /\ UNCHANGED <<input, version, level, mask, best>>

Next == Search \/ Throw \/ Draw \/ TryMask \/ Finish

Spec == Init /\ [][Next]_vars

-----------------------------------------------------------------------------
(* A scanner: format information, mask, zigzag, blocks, bit stream.        *)

BitAt(c) == IF modules[c] THEN 1 ELSE 0

\* The level and the mask, as both copies of the format bits say.
Format ==
    CHOOSE f \in ToSet(Levels) \X (0 .. 7) :
        \A i \in 0 .. 14 :
            /\ modules[FormatCell(i)] = Bit(FormatWord(f[1], f[2]), i)
            /\ modules[OtherFormatCell(i, Size(version))]
                 = Bit(FormatWord(f[1], f[2]), i)

\* From version 7 on, the version stands in two corners.
VersionIsWritten ==
    \A i \in 0 .. 17 :
        LET along == Size(version) - 11 + (i % 3)  across == i \div 3
        IN  /\ modules[<<along, across>>] = Bit(VersionWord(version), i)
            /\ modules[<<across, along>>] = Bit(VersionWord(version), i)

ReadCodewords ==
    LET path == DataPath(version)
        number == Format[2]
        Unmasked(c) == IF MaskBit(number, c[1], c[2])
                       THEN 1 - BitAt(c) ELSE BitAt(c)
        bits == Computed([i \in DOMAIN path |-> Unmasked(path[i])])
    IN  Computed([k \in 1 .. TotalCodewords(version) |-> ByteOf(bits, k)])

\* Codeword n of block k in a symbol: the short blocks have no codeword in
\* the last column of the data.
ReadBlocks(codewords) ==
    LET count == EccBlocks[Format[1]][version]
        ecc == EccCodewordsPerBlock[Format[1]][version]
        length == TotalCodewords(version) \div count - ecc
        long == TotalCodewords(version) % count
        At(k, n) == IF n <= length THEN (n - 1) * count + k
                    ELSE length * count + k - (count - long)
        EccAt(k, n) == length * count + long + (n - 1) * count + k
    IN  [k \in 1 .. count |->
            [data |-> [n \in 1 .. length + (IF k > count - long THEN 1 ELSE 0) |->
                         codewords[At(k, n)]],
             ecc |-> [n \in 1 .. ecc |-> codewords[EccAt(k, n)]]]]

ReadData ==
    LET blocks == ReadBlocks(ReadCodewords)
        bits == BitsOfBytes(FlattenSeq([k \in DOMAIN blocks |-> blocks[k].data]))
        header == 4 + CharacterCountBits(version)
        length == ValueOf(SubSeq(bits, 5, header))
    IN  IF ValueOf(SubSeq(bits, 1, 4)) # 4 THEN <<>>
        ELSE [k \in 1 .. length |->
                ValueOf(SubSeq(bits, header + 8 * k - 7, header + 8 * k))]

-----------------------------------------------------------------------------
(* Polynomials over GF(2) as the sets of their exponents: the field of the *)
(* code words from its definition, modulo x^8 + x^4 + x^3 + x^2 + 1.       *)

Poly(n) == {i \in 0 .. 7 : Bit(n, i)}
Minus(p, q) == (p \ q) \cup (q \ p)
Shifted(p, n) == {i + n : i \in p}

Product(p, q) ==
    LET product == {k \in 0 .. 14 :
            Cardinality({i \in p : k >= i /\ k - i \in q}) % 2 = 1}
        reduced[k \in 7 .. 14] ==
            IF k = 14 THEN product
            ELSE LET r == reduced[k + 1]
                 IN  IF k + 1 \in r THEN Minus(r, Shifted({8, 4, 3, 2, 0}, k - 7))
                     ELSE r
    IN  reduced[7]

\* The value of a polynomial over the field, by Horner's rule.
Value(codewords, at) ==
    LET sum[i \in 0 .. Len(codewords)] ==
            IF i = 0 THEN {} ELSE Minus(Product(sum[i - 1], at), Poly(codewords[i]))
    IN  sum[Len(codewords)]

Power(n) == LET power[i \in 0 .. n] == IF i = 0 THEN {0} ELSE Product(power[i - 1], {1})
            IN  power[n]

-----------------------------------------------------------------------------
(* What a symbol must be.                                                  *)

\* "the strongest error correction level that still fits the smallest
\* possible symbol" (the comment of encodeQr); nothing fits what it refuses.
StrongestOfTheSmallest ==
    LET Possible(v, l) == Fits(Len(data), v, Levels[l])
        Allowed == Floor .. Len(Levels)
    IN  /\ stage \in {"mask", "done"} =>
              /\ Possible(version, level)
              /\ \A l \in Allowed : Possible(version, l) => l <= level
              /\ \A v \in 1 .. version - 1, l \in Allowed : ~Possible(v, l)
        /\ stage = "failed" =>
              \A v \in 1 .. MaxVersion, l \in Allowed : ~Possible(v, l)

\* A scanner reads the data back from the finished symbol, with the level it
\* was made for: through the version and format bits, the mask, the zigzag,
\* the blocks, the length and the padding.
ReadBack ==
    stage = "done" =>
        /\ version >= 7 => VersionIsWritten
        /\ Format = <<Level, best.mask>>
        /\ ReadData = data

EveryBlockIsACodeword ==
    stage = "done" =>
        LET blocks == ReadBlocks(ReadCodewords)
        IN  \A k \in DOMAIN blocks :
                \A n \in 0 .. Len(blocks[k].ecc) - 1 :
                    Value(blocks[k].data \o blocks[k].ecc, Power(n)) = {}

EveryModuleOnce ==
    stage = "search" /\ level = Len(Levels) =>
        LET path == DataPath(version)
        IN  /\ Len(path) = RawDataModules(version)
            /\ ToSet(path) = Cells(version) \ Reserved(version)

EveryCodewordOnce ==
    stage = "search" =>
        LET total == TotalCodewords(version)
            count == DataCodewords(version, Level)
            ecc == EccCodewordsPerBlock[Level][version]
            numbers == DataBlocks([i \in 1 .. count |-> i], version, Level)
            checks == [k \in DOMAIN numbers |->
                         [n \in 1 .. ecc |-> count + (k - 1) * ecc + n]]
            all == ByColumns(numbers) \o ByColumns(checks)
            lengths == {Len(numbers[k]) : k \in DOMAIN numbers}
        IN  /\ Len(all) = total /\ ToSet(all) = 1 .. total
            /\ \A l \in lengths : l > 0 /\ l + ecc <= 255
            /\ \A l, m \in lengths : l <= m + 1

\* In every version the zigzag passes each module that is no function pattern
\* once, and there are as many of them as the capacity is computed from; in every
\* version and level the tables cut the symbol into blocks that hold each codeword
\* once, that a field of 255 elements can correct, and whose lengths differ by one
\* at most (drawCodewords, interleave and the tables).
EveryPlaceOnce == EveryModuleOnce /\ EveryCodewordOnce

Differing(a, b) == Cardinality({i \in 0 .. 17 : Bit(a, i) # Bit(b, i)})
WordsApart ==
    /\ stage \in {"mask", "done"} =>
          \A f \in ToSet(Levels) \X (0 .. 7) : f # <<Level, mask % 8>> =>
              Differing(FormatWord(f[1], f[2]), FormatWord(Level, mask % 8)) >= 7
    /\ stage = "search" /\ version >= 7 =>
          \A v \in 7 .. MaxVersion : v # version =>
              Differing(VersionWord(v), VersionWord(version)) >= 8

\* Every block of the finished symbol is a Reed-Solomon code word: as a
\* polynomial it is zero at as many powers of x as it has check codewords,
\* which is what lets a scanner repair half as many damaged ones.  The format
\* words of two levels and masks differ in seven bits, the words of two versions
\* in eight: three damaged modules lead to no other reading (multiply,
\* drawFormatBits, drawVersionBits).
DamageIsRepaired == EveryBlockIsACodeword /\ WordsApart

\* The runs that are followed with a short history give the penalty the
\* standard defines on the whole line, with its light border.
LinesScoredAsDefined ==
    stage = "mask" =>
        LET masked == Masked(mask % 8)
        IN  \A i \in 0 .. Size(version) - 1 :
                \A line \in {Row(masked, i, Size(version)),
                             Column(masked, i, Size(version))} :
                    LinePenalty(line) = RunRule(line) + FinderRule(line)
===============================================================================
