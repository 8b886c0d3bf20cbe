----------------------------- MODULE BurstCodes -----------------------------
(***************************************************************************)
(* The error-detecting and error-correcting codes of a DMR burst           *)
(* (src/dmr/fec).  A word is the set of the positions of its one bits,     *)
(* most significant bit first, so that exclusive or is the symmetric       *)
(* difference; a polynomial over GF(2) is the set of its exponents.        *)
(*                                                                         *)
(* The look-up tables of the code are replaced by the linear codes they    *)
(* tabulate: the logarithm tables by multiplication in GF(256), the Golay  *)
(* and QR tables by their generators.                                      *)
(***************************************************************************)
EXTENDS Integers, FiniteSets, FiniteSetsExt

CONSTANT None    \* no value

Odd(S) == Cardinality(S) % 2 = 1
BitOf(n, i) == (n \div 2^i) % 2 = 1

\* The w bits of n as a word that starts at offset o, and back.
Bits(n, o, w) == {o + j : j \in {j \in 0 .. w - 1 : BitOf(n, w - 1 - j)}}
NumberAt(word, o, w) ==
    MapThenSumSet(LAMBDA j : 2^(w - 1 - j), {j \in 0 .. w - 1 : o + j \in word})

\* x * p modulo the polynomial g of degree n.
TimesX(p, g, n) ==
    LET s == {d + 1 : d \in p} IN IF n \in s THEN SymDiff(s, g) ELSE s

-----------------------------------------------------------------------------
(* hamming.c: systematic codes; g is the part of the generator matrix that *)
(* gives the parity of each of the k message bits.                         *)

hamming_13_9_3 == [k |-> 9, g |-> <<15, 14, 7, 10, 5, 11, 12, 6, 3>>]
hamming_15_11_3 == [k |-> 11, g |-> <<9, 13, 15, 14, 7, 10, 5, 11, 12, 6, 3>>]

hamming_parity(h, d) ==
    {x \in 0 .. 3 : Odd({y \in d : y < h.k /\ BitOf(h.g[y + 1], 3 - x)})}

\* The loop of hamming_parity_check looks for the bit to repair but never
\* repairs one: a parity that does not match is refused.
hamming_parity_check(h, d) ==
    {y - h.k : y \in {y \in d : y >= h.k}} = hamming_parity(h, d)

-----------------------------------------------------------------------------
(* bptc_196_96.c: 96 data bits in a matrix of 13 rows and 15 columns.  The *)
(* cells are interleaved over the two halves of the burst.                 *)

\* The burst bit of every cell: bits 98 .. 165 of the burst are not the BPTC's.
BurstBit ==
    [q \in 0 .. 195 |-> LET raw == ((q + 1) * 181) % 196 IN IF raw < 98 THEN raw ELSE raw + 68]

LcBits == {BurstBit[q] : q \in 0 .. 195}

\* The cell of data bit i: row 0 starts with three reserved cells.
DataCell(i) == IF i < 8 THEN 3 + i ELSE 15 * (1 + (i - 8) \div 11) + ((i - 8) % 11)

Row(cells, r) == {c \in 0 .. 14 : 15 * r + c \in cells}
Column(cells, c) == {r \in 0 .. 12 : 15 * r + c \in cells}

dmr_bptc_196_96_encode(data) ==
    LET placed == {DataCell(i) : i \in data}
        rows == placed \cup UNION {{15 * r + 11 + x :
                    x \in hamming_parity(hamming_15_11_3, Row(placed, r))} : r \in 0 .. 8}
        all == rows \cup UNION {{15 * (9 + x) + c :
                    x \in hamming_parity(hamming_13_9_3, Column(rows, c))} : c \in 0 .. 14}
    IN {BurstBit[q] : q \in all}

\* The loop over the columns checks column 1 fifteen times.
BptcAccepts(cells) ==
    /\ hamming_parity_check(hamming_13_9_3, Column(cells, 1))
    /\ \A r \in 0 .. 8 : hamming_parity_check(hamming_15_11_3, Row(cells, r))

Cells(burst) == {q \in 0 .. 195 : BurstBit[q] \in burst}

BptcData(cells) == {i \in 0 .. 95 : DataCell(i) \in cells}

-----------------------------------------------------------------------------
(* rs_12_9.c: Reed-Solomon(12, 9) over GF(256).                            *)

ByteAt(data, i) == {d \in 0 .. 7 : 8 * i + 7 - d \in data}

POLY == <<{6}, {5, 4, 3}, {3, 2, 1}>>   \* 64, 56, 14

\* POLY[j] * x^k: LOG_TABLE and EXP_TABLE are the powers of x modulo
\* x^8 + x^4 + x^3 + x^2 + 1.
Power[j \in 1 .. 3, k \in 0 .. 7] ==
    IF k = 0 THEN POLY[j] ELSE TimesX(Power[j, k - 1], {8, 4, 3, 2, 0}, 8)

\* gmult(POLY[j], b).
gmult(j, b) == {d \in 0 .. 7 : Odd({k \in b : d \in Power[j, k]})}

\* encode: parity[0 .. 2] after the nine data bytes.
encode(data) ==
    LET Register[i \in 0 .. 9] ==
            IF i = 0 THEN <<{}, {}, {}>>
            ELSE LET parity == Register[i - 1]
                     dbyte == SymDiff(ByteAt(data, i - 1), parity[3])
                 IN <<gmult(1, dbyte),
                      SymDiff(parity[1], gmult(2, dbyte)),
                      SymDiff(parity[2], gmult(3, dbyte))>>
    IN Register[9]

\* parity[i] goes to byte 11 - i.
dmr_rs_12_9_4_encode(data) ==
    LET parity == encode(data)
    IN data \cup UNION {{8 * (11 - i) + 7 - d : d \in parity[i + 1]} : i \in 0 .. 2}

\* Mutant: the parity is not compared.
dmr_rs_12_9_4_decode_unchecked(data) == TRUE

dmr_rs_12_9_4_decode(data) ==
    encode(data) = <<ByteAt(data, 11), ByteAt(data, 10), ByteAt(data, 9)>>

-----------------------------------------------------------------------------
(* golay_20_8.c: position k of the first 19 is the coefficient of          *)
(* x^(18 - k); the last one is the overall parity.                         *)

GENPOL == {11, 10, 6, 5, 4, 2, 0}   \* 0xc75

\* x^d modulo GENPOL.
Remainder[d \in 0 .. 18] ==
    IF d = 0 THEN {0} ELSE TimesX(Remainder[d - 1], GENPOL, 11)

dmr_golay_20_8_syndrome(pattern) ==
    {r \in 0 .. 10 : Odd({k \in pattern \cap (0 .. 18) : r \in Remainder[18 - k]})}

dmr_golay_20_8_encode(message) ==
    LET code == message \cup {18 - r : r \in dmr_golay_20_8_syndrome(message)}
    IN IF Odd(code) THEN code \cup {19} ELSE code

\* golay_20_8_decoder: every pattern of at most three errors has a syndrome
\* of its own, at which the table holds the pattern.  For the other syndromes
\* the table holds some heavier pattern, and the model says nothing.
Correctable ==
    {[pattern |-> e, syndrome |-> dmr_golay_20_8_syndrome(e)] :
        e \in UNION {kSubset(n, 0 .. 18) : n \in 0 .. 3}}

\* The message of the 19 bits that are read; the overall parity is ignored.
dmr_golay_20_8_decode(code) ==
    LET s == dmr_golay_20_8_syndrome(code)
        found == {c \in Correctable : c.syndrome = s}
    IN IF found = {} THEN None
       ELSE SymDiff(code, (CHOOSE c \in found : TRUE).pattern) \cap (0 .. 7)

-----------------------------------------------------------------------------
(* qr_16_7.c: quadratic residue code, 7 message and 9 parity bits.         *)

\* The parity of each message bit in qr_16_7_encoder_map.
QrParity == <<79, 286, 439, 482, 457, 229, 115>>

dmr_qr_16_7_encode(message) ==
    message \cup {7 + x : x \in {x \in 0 .. 8 : Odd({k \in message : BitOf(QrParity[k + 1], 8 - x)})}}

dmr_qr_16_7_decode(word) == word = dmr_qr_16_7_encode(word \cap (0 .. 6))
=============================================================================
