------------------------------ MODULE MbeEcc -------------------------------
(***************************************************************************)
(* The error correction of a voice frame (src/mbelib/ecc.c and the ecc and *)
(* demodulate functions of the four formats).  A frame is a matrix of      *)
(* rows C0, C1, ...; a row is the set of the columns of its one bits.      *)
(* Most rows are code words, and most of these are scrambled with a        *)
(* sequence that starts from the data of C0, so that a wrong C0 ruins      *)
(* them all.                                                               *)
(*                                                                         *)
(* golayMatrix is replaced by what it holds: for every syndrome the data   *)
(* bits of the one pattern of at most three errors that has it.            *)
(***************************************************************************)
EXTENDS BurstCodes, Sequences

CONSTANTS
    VoiceBits,      \* what a sent row's data bits may be: sets of columns
    RowErrors       \* the errors in one row: sets of columns

VARIABLE voice     \* the last frame: as sent, its errors, and as read

-----------------------------------------------------------------------------
(* ecc.c                                                                   *)

golayGenerator ==
    <<1594, 797, 1972, 986, 493, 1740, 870, 435, 1763, 1355, 1183, 1141>>

\* hammingGenerator and imbe7100x4400hammingGenerator.
hammingGenerator ==
    [hamming |-> <<32520, 30948, 26322, 21937>>,
     hamming7100 |-> <<31432, 15716, 7858, 30097>>]

\* eccexpected ^ eccbits: data bit j has the generator 22 - j.
GolaySyndrome(word) ==
    {x \in 0 .. 10 :
        Odd({j \in word : IF j < 11 THEN j = x ELSE BitOf(golayGenerator[23 - j], x)})}

Number(bits) == MapThenSumSet(LAMBDA j : 2^j, bits)

GolayPatterns ==
    {[pattern |-> e, syndrome |-> Number(GolaySyndrome(e))] :
        e \in UNION {kSubset(n, 0 .. 22) : n \in 0 .. 3}}

golayMatrix ==
    [s \in 0 .. 2047 |-> (CHOOSE p \in GolayPatterns : p.syndrome = s).pattern \ (0 .. 10)]

\* mbe_golay2312 with mbe_checkGolayBlock: only data bits are repaired, and
\* the repaired bits are counted.
mbe_golay2312(in) ==
    LET e == golayMatrix[Number(GolaySyndrome(in))]
    IN [out |-> SymDiff(in, e), errs |-> Cardinality(e)]

\* The four check bits as a number.
HammingSyndrome(code, word) ==
    MapThenSumSet(LAMBDA i : 2^(4 - i),
        {i \in 1 .. 4 : Odd({j \in word : BitOf(hammingGenerator[code][i], j)})})

\* hammingMatrix inverts bit syndrome - 1.
mbe_hamming1511(code, in) ==
    LET s == HammingSyndrome(code, in)
    IN [out |-> IF s > 0 THEN SymDiff(in, {s - 1}) ELSE in,
        errs |-> IF s > 0 THEN 1 ELSE 0]

-----------------------------------------------------------------------------
(* The rows of the formats: their code, the column where the code word     *)
(* starts, the columns of their data bits and how many columns are         *)
(* scrambled.                                                              *)

Golay(at, scrambled) ==
    [code |-> "golay", at |-> at, data |-> 11 + at .. 22 + at, scrambled |-> scrambled]
Hamming(code) == [code |-> code, at |-> 0, data |-> 4 .. 14, scrambled |-> 15]
Plain(n) == [code |-> "none", at |-> 0, data |-> 0 .. n - 1, scrambled |-> 0]

\* C0 of AMBE and of the 7100 format starts with a parity bit that nobody
\* reads; the latter's is shortened to 18 bits, seven of them data.
AmbeRows == <<Golay(1, 0), Golay(0, 23), Plain(11), Plain(14)>>
Imbe7200Rows ==
    <<Golay(0, 0), Golay(0, 23), Golay(0, 23), Golay(0, 23),
      Hamming("hamming"), Hamming("hamming"), Hamming("hamming"), Plain(7)>>
Imbe7100Rows ==
    <<[Golay(1, 0) EXCEPT !.data = 12 .. 18], Golay(1, 24), Golay(0, 23), Golay(0, 23),
      Hamming("hamming7100"), Hamming("hamming7100"), Plain(23)>>

VoiceRows == [ambe |-> AmbeRows, imbe7200 |-> Imbe7200Rows, imbe7100 |-> Imbe7100Rows]
VoiceFormats == DOMAIN VoiceRows

\* The code word of a row, and the row with it.
Word(row, bits) == {j - row.at : j \in {j \in bits : j >= row.at}}
Placed(row, word) == {j + row.at : j \in word}

\* mbe_eccAmbe3600x2450C0 and its three counterparts: C0 is repaired in
\* place.  The five columns that the 7100 format lacks are zero and stay so.
mbe_eccC0(format, fr) ==
    LET row == VoiceRows[format][1]
        r == mbe_golay2312(Word(row, fr[1]))
        kept == IF format = "imbe7100" THEN 1 .. 18 ELSE row.at .. 22 + row.at
    IN [fr |-> [fr EXCEPT ![1] = (fr[1] \ kept) \cup (Placed(row, r.out) \cap kept)],
        errs |-> r.errs]

\* The pseudo-random modulator pr[0] = 16 * seed, pr[i] = 173 * pr[i - 1] + 13849
\* modulo 2^16, of which the top bit is used; pr[i] is an affine function of
\* pr[0], and the two coefficients do not depend on the frame.
Affine ==
    LET Run[n \in 0 .. 114, c \in (0 .. 65535) \X (0 .. 65535)] ==
            IF n = 0 THEN c
            ELSE Run[n - 1, <<(173 * c[1]) % 65536, (173 * c[2] + 13849) % 65536>>]
    IN [i \in 0 .. 114 |-> Run[i, <<1, 0>>]]

\* The seed is the data of C0, read most significant bit first.
Modulator(row, c0) ==
    LET seed == Number({j - Min(row.data) : j \in c0 \cap row.data})
    IN [i \in 1 .. 114 |->
            (16 * ((Affine[i][1] * seed) % 4096) + Affine[i][2]) % 65536 >= 32768]

\* The columns of row i that the modulator inverts: it runs over the rows in
\* order, and over each from its last column down.
Inverted(format, pr, i) ==
    LET rows == VoiceRows[format]
        before == MapThenSumSet(LAMBDA k : rows[k].scrambled, 1 .. i - 1)
        n == rows[i].scrambled
    IN {j \in 0 .. n - 1 : pr[before + n - j]}

\* mbe_demodulateAmbe3600x2450Data and its counterparts.
mbe_demodulate(format, fr) ==
    LET pr == Modulator(VoiceRows[format][1], fr[1])
    IN [i \in DOMAIN fr |-> SymDiff(fr[i], Inverted(format, pr, i))]

\* mbe_eccAmbe3600x2450Data and its counterparts: C0 is copied, the other
\* rows are repaired.
mbe_eccData(format, fr) ==
    LET rows == VoiceRows[format]
        Repaired(i) ==
            CASE i = 1 \/ rows[i].code = "none" -> [out |-> Word(rows[i], fr[i]), errs |-> 0]
              [] rows[i].code = "golay" /\ i > 1 -> mbe_golay2312(Word(rows[i], fr[i]))
              [] OTHER -> mbe_hamming1511(rows[i].code, Word(rows[i], fr[i]))
        repaired == [i \in DOMAIN rows |-> Repaired(i)]
    IN [d |-> [i \in DOMAIN rows |-> Placed(rows[i], repaired[i].out) \cap rows[i].data],
        errs |-> MapThenSumSet(LAMBDA i : repaired[i].errs, DOMAIN rows)]

\* Mutant: C0 is not repaired before the modulator starts from it.
mbe_processFrame_late(format, fr) ==
    LET demodulated == mbe_demodulate(format, fr)
        c0 == mbe_eccC0(format, demodulated)
        data == mbe_eccData(format, c0.fr)
    IN [d |-> data.d, errs2 |-> c0.errs + data.errs]

\* The first half of mbe_processAmbe3600x2450Framef and its counterparts.
mbe_processFrame(format, fr) ==
    LET c0 == mbe_eccC0(format, fr)
        data == mbe_eccData(format, mbe_demodulate(format, c0.fr))
    IN [d |-> data.d, errs2 |-> c0.errs + data.errs]

-----------------------------------------------------------------------------
(* The sender, and the channel.                                            *)

Encoded(row, bits) ==
    LET data == Word(row, bits \cap row.data)
    IN CASE row.code = "golay" -> data \cup GolaySyndrome(data)
         [] row.code = "none" -> data
         [] OTHER -> data \cup {j \in 0 .. 3 : BitOf(HammingSyndrome(row.code, data), j)}

Sent(format, d) ==
    LET rows == VoiceRows[format]
        fr == [i \in DOMAIN rows |-> Placed(rows[i], Encoded(rows[i], d[i]))]
    IN mbe_demodulate(format, fr)

MbeEccInit == voice = None

\* A frame whose rows all hold bits arrives with the errors c0 in its first
\* and e in row i.
ReceiveVoice(format, bits, c0, i, e) ==
    LET rows == VoiceRows[format]
        d == [k \in DOMAIN rows |-> bits \cap rows[k].data]
        sent == Sent(format, d)
        errors == [k \in DOMAIN rows |-> CASE k = 1 -> c0 [] k = i -> e [] OTHER -> {}]
    IN voice' = [format |-> format, sent |-> d, errors |-> errors,
                 got |-> mbe_processFrame(format, [k \in DOMAIN rows |-> SymDiff(sent[k], errors[k])])]

MbeEccNext ==
    /\ voice = None
    /\ \E format \in VoiceFormats, bits \in VoiceBits, c0 \in RowErrors :
        \E i \in 2 .. Len(VoiceRows[format]), e \in RowErrors :
            /\ VoiceRows[format][i].code # "none"
            /\ c0 \subseteq (IF format = "imbe7100" THEN 0 .. 18 ELSE 0 .. 22)
            /\ e \subseteq 0 .. (IF VoiceRows[format][i].code = "golay" THEN 22 ELSE 14)
            /\ ReceiveVoice(format, bits, c0, i, e)

-----------------------------------------------------------------------------
\* The columns whose inversion the two Hamming decoders repair, or which
\* leave the data bits alone: their tables fit the generators in no other.
Repairable ==
    [hamming |-> {0, 1, 2} \cup 8 .. 14, hamming7100 |-> {0, 1, 5, 9}]

\* No row has more errors than its code repairs.
WithinCode ==
    \A i \in DOMAIN voice.errors :
        LET row == VoiceRows[voice.format][i]
            e == Word(row, voice.errors[i])
        IN IF row.code = "golay" \/ e = {} THEN Cardinality(e) <= 3
           ELSE Cardinality(e) <= 1 /\ e \subseteq Repairable[row.code]

(***************************************************************************)
(* A voice frame with at most three inverted bits in every Golay word and  *)
(* one in a Hamming word is read as it was sent, and errs2, which decides  *)
(* whether the frame is played, counts the data bits repaired.  C0 has to  *)
(* be repaired before anything is unscrambled with it: three errors there  *)
(* must not spread to the other rows.                                      *)
(***************************************************************************)
VoiceReadBack ==
    voice # None /\ WithinCode
        => /\ voice.got.d = voice.sent
           /\ voice.got.errs2 =
                MapThenSumSet(LAMBDA i :
                    LET row == VoiceRows[voice.format][i]
                    IN IF row.code = "golay"
                       THEN Cardinality(voice.errors[i] \cap row.data)
                       ELSE Cardinality(voice.errors[i]),
                    DOMAIN voice.errors)
=============================================================================
