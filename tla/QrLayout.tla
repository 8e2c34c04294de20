------------------------------- MODULE QrLayout -------------------------------
(***************************************************************************)
(* The matrix of a QR symbol (qr.ts).  A module is a cell <<x, y>>; the    *)
(* function patterns are functions from their cells to dark or light, and  *)
(* a later drawing takes precedence over an earlier one (@@).              *)
(***************************************************************************)
EXTENDS QrCodewords, FiniteSets, TLC

Size(v) == 4 * v + 17
Cells(v) == (0 .. Size(v) - 1) \X (0 .. Size(v) - 1)

Bit(word, i) == (word \div 2 ^ i) % 2 = 1

Apart(a, b) == IF a < b THEN b - a ELSE a - b
Distance(c, x, y) ==
    IF Apart(c[1], x) < Apart(c[2], y) THEN Apart(c[2], y) ELSE Apart(c[1], x)

\* The cells of the symbol around a centre.
Around(x, y, radius, size) ==
    {c \in (x - radius .. x + radius) \X (y - radius .. y + radius) :
        c[1] \in 0 .. size - 1 /\ c[2] \in 0 .. size - 1}

-----------------------------------------------------------------------------
Timing(size) ==
    [c \in ({6} \X (0 .. size - 1)) \cup ((0 .. size - 1) \X {6}) |->
        (c[1] + c[2]) % 2 = 0]

Finder(x, y, size) ==
    [c \in Around(x, y, 4, size) |-> Distance(c, x, y) \notin {2, 4}]

AlignmentPositions(v) ==
    LET count == v \div 7 + 2
        width == 2 * count - 2
        step == IF v = 32 THEN 26 ELSE 2 * ((4 * v + 4 + width - 1) \div width)
    IN  IF v = 1 THEN <<>>
        ELSE [i \in 1 .. count |->
                IF i = 1 THEN 6 ELSE 4 * v + 10 - (count - i) * step]

\* A centre at every pair of positions but those in the finder patterns.
Alignments(v) ==
    LET position == AlignmentPositions(v)
        last == Len(position)
        centres == {<<position[k[1]], position[k[2]]>> : k \in
            ((1 .. last) \X (1 .. last)) \ {<<1, 1>>, <<1, last>>, <<last, 1>>}}
        AroundOf(k) == Around(k[1], k[2], 2, Size(v))
    IN  [c \in UNION {AroundOf(k) : k \in centres} |->
            LET k == CHOOSE k \in centres : Distance(c, k[1], k[2]) <= 2
            IN  Distance(c, k[1], k[2]) # 1]

-----------------------------------------------------------------------------
(* Format and version information: BCH codes.                              *)

\* rounds bits of remainder modulo the polynomial.
Remaindered(data, rounds, top, polynomial) ==
    LET rest[i \in 0 .. rounds] ==
            IF i = 0 THEN data
            ELSE LET r == rest[i - 1]
                 IN  Xor(2 * r, (r \div 2 ^ top) * polynomial)
    IN  rest[rounds]

FormatNumber == [L |-> 1, M |-> 0, Q |-> 3, H |-> 2]

FormatWord(level, mask) ==
    LET data == FormatNumber[level] * 8 + mask
    IN  Xor(data * 1024 + Remaindered(data, 10, 9, 1335), 21522)

VersionWord(v) == v * 4096 + Remaindered(v, 12, 11, 7973)

\* The two places of each of the 15 format bits.
FormatCell(i) ==
    CASE i <= 5 -> <<8, i>>
      [] i = 6 -> <<8, 7>>
      [] i = 7 -> <<8, 8>>
      [] i = 8 -> <<7, 8>>
      [] OTHER -> <<14 - i, 8>>
OtherFormatCell(i, size) ==
    IF i < 8 THEN <<size - 1 - i, 8>> ELSE <<8, size - 15 + i>>

FormatModules(level, mask, size) ==
    LET word == FormatWord(level, mask)
        Draw(place(_)) == [c \in {place(i) : i \in 0 .. 14} |->
                             Bit(word, CHOOSE i \in 0 .. 14 : place(i) = c)]
        Other(i) == OtherFormatCell(i, size)
    IN  (<<8, size - 8>> :> TRUE) @@ Draw(FormatCell) @@ Draw(Other)

VersionModules(v) ==
    LET side == Size(v) - 11
        word == VersionWord(v)
        corner == (side .. side + 2) \X (0 .. 5)
        Dark(a, b) == Bit(word, 3 * b + a - side)
    IN  IF v < 7 THEN <<>>
        ELSE [c \in corner |-> Dark(c[1], c[2])]
             @@ [c \in (0 .. 5) \X (side .. side + 2) |-> Dark(c[2], c[1])]

FunctionModules(v) ==
    LET size == Size(v)
    IN  VersionModules(v) @@ FormatModules("L", 0, size) @@ Alignments(v)
        @@ Finder(3, size - 4, size) @@ Finder(size - 4, 3, size)
        @@ Finder(3, 3, size) @@ Timing(size)

Reserved(v) == DOMAIN FunctionModules(v)

-----------------------------------------------------------------------------
(* The zigzag of drawCodewords.                                            *)

\* right goes down by two, and from 7 over the timing column to 5.
RightColumn(pair, size) ==
    LET right == size - 1 - 2 * pair
    IN  IF right <= 6 THEN right - 1 ELSE right

Zigzag(size) ==
    [i \in 1 .. (size - 1) * size |->
        LET right == RightColumn((i - 1) \div (2 * size), size)
            step == ((i - 1) % (2 * size)) \div 2
            upward == ((right + 1) \div 2) % 2 = 0
        IN  <<right - ((i - 1) % 2), IF upward THEN size - 1 - step ELSE step>>]

\* The cells the data is drawn in, in order.
DataPath(v) ==
    LET reserved == Reserved(v)
        Free(c) == c \notin reserved
    IN  SelectSeq(Zigzag(Size(v)), Free)

\* The bits of the codewords, then light modules.
DrawCodewords(codewords, v) ==
    LET path == DataPath(v)
        bits == Computed(BitsOfBytes(codewords))
        Index(c) == CHOOSE i \in DOMAIN path : path[i] = c
        Dark(i) == i <= Len(bits) /\ bits[i] = 1
    IN  FunctionModules(v) @@ [c \in ToSet(path) |-> Dark(Index(c))]

-----------------------------------------------------------------------------
(* Masks.                                                                  *)

MaskBit(mask, x, y) ==
    CASE mask = 0 -> (x + y) % 2 = 0
      [] mask = 1 -> y % 2 = 0
      [] mask = 2 -> x % 3 = 0
      [] mask = 3 -> (x + y) % 3 = 0
      [] mask = 4 -> (x \div 3 + y \div 2) % 2 = 0
      [] mask = 5 -> ((x * y) % 2) + ((x * y) % 3) = 0
      [] mask = 6 -> (((x * y) % 2) + ((x * y) % 3)) % 2 = 0
      [] mask = 7 -> (((x + y) % 2) + ((x * y) % 3)) % 2 = 0

ApplyMask(modules, v, mask) ==
    LET reserved == Reserved(v)
    IN  [c \in DOMAIN modules |->
            IF c \in reserved THEN modules[c]
            ELSE modules[c] # MaskBit(mask, c[1], c[2])]
===============================================================================
