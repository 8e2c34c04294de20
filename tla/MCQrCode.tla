------------------------------- MODULE MCQrCode -------------------------------
\* Payloads for versions 1, 2 and 7 (blocks of two lengths, version bits), and
\* one that fits in none.
EXTENDS QrCode

\* n bytes of UTF-8: letters of two bytes, and an "A" when n is odd.
Bytes(n, step) ==
    [i \in 1 .. n |-> IF i % 2 = 0 THEN 128 + ((i * step) % 64)
                      ELSE IF i = n THEN 65 ELSE 195]

MCInputs == {
    <<<<98, 114, 105, 100, 103, 101>>, "L">>,   \* "bridge"
    <<<<>>, "L">>,
    <<Bytes(7, 37), "H">>, <<Bytes(17, 91), "L">>,
    <<Bytes(20, 59), "M">>, <<Bytes(62, 73), "H">>,
    <<Bytes(2954, 1), "L">>}
===============================================================================
