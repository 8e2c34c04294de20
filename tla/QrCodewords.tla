----------------------------- MODULE QrCodewords -----------------------------
(***************************************************************************)
(* The bytes of a QR symbol (qr.ts): how much fits into it, the bit stream *)
(* of the data, the Reed-Solomon codewords and their interleaving.         *)
(***************************************************************************)
EXTENDS Integers, Sequences, SequencesExt

Levels == <<"L", "M", "Q", "H">>
MaxVersion == 40

EccCodewordsPerBlock == [
  L |-> <<7, 10, 15, 20, 26, 18, 20, 24, 30, 18, 20, 24, 26, 30, 22, 24, 28, 30, 28, 28, 28, 28, 30, 30, 26, 28, 30, 30, 30, 30, 30, 30, 30, 30, 30, 30, 30, 30, 30, 30>>,
  M |-> <<10, 16, 26, 18, 24, 16, 18, 22, 22, 26, 30, 22, 22, 24, 24, 28, 28, 26, 26, 26, 26, 28, 28, 28, 28, 28, 28, 28, 28, 28, 28, 28, 28, 28, 28, 28, 28, 28, 28, 28>>,
  Q |-> <<13, 22, 18, 26, 18, 24, 18, 22, 20, 24, 28, 26, 24, 20, 30, 24, 28, 28, 26, 30, 28, 30, 30, 30, 30, 28, 30, 30, 30, 30, 30, 30, 30, 30, 30, 30, 30, 30, 30, 30>>,
  H |-> <<17, 28, 22, 16, 22, 28, 26, 26, 24, 28, 24, 28, 22, 24, 24, 30, 28, 28, 26, 28, 30, 24, 30, 30, 30, 30, 30, 30, 30, 30, 30, 30, 30, 30, 30, 30, 30, 30, 30, 30>>]

EccBlocks == [
  L |-> <<1, 1, 1, 1, 1, 2, 2, 2, 2, 4, 4, 4, 4, 4, 6, 6, 6, 6, 7, 8, 8, 9, 9, 10, 12, 12, 12, 13, 14, 15, 16, 17, 18, 19, 19, 20, 21, 22, 24, 25>>,
  M |-> <<1, 1, 1, 2, 2, 4, 4, 4, 5, 5, 5, 8, 9, 9, 10, 10, 11, 13, 14, 16, 17, 17, 18, 20, 21, 23, 25, 26, 28, 29, 31, 33, 35, 37, 38, 40, 43, 45, 47, 49>>,
  Q |-> <<1, 1, 2, 2, 4, 4, 6, 6, 8, 8, 8, 10, 12, 16, 12, 17, 16, 18, 21, 20, 23, 23, 25, 27, 29, 34, 34, 35, 38, 40, 43, 45, 48, 51, 53, 56, 59, 62, 65, 68>>,
  H |-> <<1, 1, 2, 4, 4, 4, 5, 6, 8, 8, 11, 11, 16, 16, 18, 16, 19, 21, 25, 25, 25, 34, 30, 32, 35, 37, 40, 42, 45, 48, 51, 54, 57, 60, 63, 66, 70, 74, 77, 81>>]

-----------------------------------------------------------------------------
(* Capacity.                                                               *)

RawDataModules(v) ==
    LET align == v \div 7 + 2
        patterns == IF v >= 2 THEN (25 * align - 10) * align - 55 ELSE 0
    IN  (16 * v + 128) * v + 64 - patterns - (IF v >= 7 THEN 36 ELSE 0)

TotalCodewords(v) == RawDataModules(v) \div 8

DataCodewords(v, level) ==
    TotalCodewords(v) - EccCodewordsPerBlock[level][v] * EccBlocks[level][v]

CharacterCountBits(v) == IF v <= 9 THEN 8 ELSE 16

Fits(length, v, level) ==
    4 + CharacterCountBits(v) + length * 8 <= DataCodewords(v, level) * 8

-----------------------------------------------------------------------------
(* toDataCodewords: mode, length, bytes, terminator, padding.              *)

BitsOf(value, n) == [i \in 1 .. n |-> (value \div 2 ^ (n - i)) % 2]

BitsOfBytes(bytes) ==
    [i \in 1 .. 8 * Len(bytes) |->
        (bytes[(i - 1) \div 8 + 1] \div 2 ^ (7 - ((i - 1) % 8))) % 2]

ValueOf(bits) ==
    LET value[i \in 0 .. Len(bits)] ==
            IF i = 0 THEN 0 ELSE 2 * value[i - 1] + bits[i]
    IN  value[Len(bits)]

ByteOf(bits, k) == ValueOf(SubSeq(bits, 8 * k - 7, 8 * k))

\* The same sequence, which TLC then computes once.
Computed(sequence) == sequence \o <<>>

Zeros(n) == [i \in 1 .. n |-> 0]

ToDataCodewords(data, v, level) ==
    LET stream == BitsOf(4, 4) \o BitsOf(Len(data), CharacterCountBits(v))
                  \o BitsOfBytes(data)
        free == DataCodewords(v, level) * 8 - Len(stream)
        ended == stream \o Zeros(IF free < 4 THEN free ELSE 4)
        bits == ended \o Zeros((8 - (Len(ended) % 8)) % 8)
        used == Len(bits) \div 8
    IN  Computed([k \in 1 .. DataCodewords(v, level) |->
            IF k <= used THEN ByteOf(bits, k)
            ELSE IF (k - used) % 2 = 1 THEN 236 ELSE 17])

-----------------------------------------------------------------------------
(* Reed-Solomon over GF(2^8), the polynomials highest degree first.        *)

Byte == 0 .. 255

\* The exclusive or of the binary digits (a recursive function: the module
\* Bitwise, which has it too, cannot be used below a theorem).
Xor(a, b) ==
    LET xor[m \in Nat, n \in Nat] ==
            IF m = 0 /\ n = 0 THEN 0
            ELSE ((m + n) % 2) + 2 * xor[m \div 2, n \div 2]
    IN  xor[a, b]

\* A function, so that TLC evaluates the factors once.
Times[left \in Byte, right \in Byte, polynomial \in Nat] ==
    LET product[i \in 0 .. 8] ==
            IF i = 0 THEN 0
            ELSE LET p == product[i - 1]
                 IN  Xor(Xor(2 * p, (p \div 128) * polynomial),
                         ((right \div 2 ^ (8 - i)) % 2) * left)
    IN  product[8] % 256

\* multiply with the polynomial of another field (0x11B, the one of AES).
MultiplyOther(left, right) == Times[left, right, 283]

Multiply(left, right) == Times[left, right, 285]

\* Each step multiplies by (x - root) and goes to the next root; the leading
\* coefficient, 1, is left out.
Generator(degree) ==
    LET generated[i \in 0 .. degree] ==
            IF i = 0
            THEN [poly |-> [p \in 1 .. degree |-> IF p = degree THEN 1 ELSE 0],
                  root |-> 1]
            ELSE LET g == generated[i - 1]
                 IN  [poly |-> Computed([p \in 1 .. degree |->
                          Xor(Multiply(g.poly[p], g.root),
                              IF p < degree THEN g.poly[p + 1] ELSE 0)]),
                      root |-> Multiply(g.root, 2)]
    IN  generated[degree].poly

Remainder(block, generator) ==
    LET degree == Len(generator)
        rest[i \in 0 .. Len(block)] ==
            IF i = 0 THEN Zeros(degree)
            ELSE LET r == rest[i - 1]  factor == Xor(block[i], r[1])
                 IN  Computed([p \in 1 .. degree |->
                        Xor(IF p < degree THEN r[p + 1] ELSE 0,
                            Multiply(generator[p], factor))])
    IN  rest[Len(block)]

-----------------------------------------------------------------------------
(* interleave.                                                             *)

\* With all blocks cut as if they were short ones.
EvenBlocks(data, v, level) ==
    LET length == TotalCodewords(v) \div EccBlocks[level][v]
                  - EccCodewordsPerBlock[level][v]
    IN  [k \in 1 .. EccBlocks[level][v] |->
            SubSeq(data, (k - 1) * length + 1, k * length)]

\* The data is cut into blocks, the first of which are one codeword shorter.
DataBlocks(data, v, level) ==
    LET count == EccBlocks[level][v]
        short == count - (TotalCodewords(v) % count)
        length == TotalCodewords(v) \div count - EccCodewordsPerBlock[level][v]
        Longer(k) == IF k > short THEN k - short ELSE 0
        End(k) == k * length + Longer(k)
    IN  Computed([k \in 1 .. count |-> SubSeq(data, End(k - 1) + 1, End(k))])

\* The first codeword of each block, then the second ones, and so on.
ByColumns(blocks) ==
    LET count == Len(blocks)
        height == Len(blocks[count])
        All == [p \in 1 .. height * count |->
                  <<((p - 1) % count) + 1, (p - 1) \div count + 1>>]
        Exists(at) == at[2] <= Len(blocks[at[1]])
        places == SelectSeq(All, Exists)
    IN  Computed([p \in 1 .. Len(places) |-> blocks[places[p][1]][places[p][2]]])

Interleaved(data, v, level) ==
    LET blocks == DataBlocks(data, v, level)
        generator == Generator(EccCodewordsPerBlock[level][v])
    IN  ByColumns(blocks)
        \o ByColumns([k \in DOMAIN blocks |-> Remainder(blocks[k], generator)])
===============================================================================
