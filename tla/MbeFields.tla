----------------------------- MODULE MbeFields -----------------------------
(***************************************************************************)
(* How a voice frame's bits become vocoder parameters (src/mbelib): the    *)
(* bit fields of the two AMBE codecs, the bit allocation of IMBE, which    *)
(* depends on the frame's own pitch, and the rearrangement of the 7100     *)
(* format.  Amplitudes and filters are left out; what is kept is which bit *)
(* goes where, which table entry is read and which array index is used.    *)
(*                                                                         *)
(* The tables bo and ImbeJi are replaced by the rule they tabulate,        *)
(* AmbeLtable by the formula that the source gives next to its use.        *)
(***************************************************************************)
EXTENDS Integers, Sequences, FiniteSets, FiniteSetsExt, SequencesExt

CONSTANT Undecoded    \* no frame decoded yet

VARIABLE decoded    \* what the last frame's bits were decoded to

Total(s) == MapThenSumSet(LAMBDA i : s[i], DOMAIN s)
LastBand == 56      \* the arrays of mbe_parms have the indices 0 .. 56

-----------------------------------------------------------------------------
(* ambe3600x2450.c and ambe3600x2400.c                                     *)

\* The bits of ambe_d in b0 .. b8, most significant first.
Ambe2450Bits ==
    <<<<0, 1, 2, 3, 37, 38, 39>>, <<4, 5, 6, 7, 35>>, <<8, 9, 10, 11, 36>>,
      <<12, 13, 14, 15, 16, 17, 18, 19, 40>>, <<20, 21, 22, 23, 41, 42, 43>>,
      <<24, 25, 26, 27, 44>>, <<28, 29, 30, 45>>, <<31, 32, 33, 46>>, <<34, 47, 48>>>>

\* (b8 has a fourth bit, the last, which is always zero.)
Ambe2400Bits ==
    <<<<0, 1, 2, 3, 4, 5, 48>>, <<38, 39, 40, 41>>, <<6, 7, 8, 9, 42, 43>>,
      <<10, 11, 12, 13, 14, 15, 16, 44, 45>>, <<17, 18, 19, 20, 21, 46, 47>>,
      <<22, 23, 25, 26>>, <<27, 28, 29, 30>>, <<31, 32, 33, 34>>, <<35, 36, 37>>>>

\* The sizes of the tables that b1 .. b8 index.
Ambe2450Tables == <<32, 32, 512, 128, 32, 16, 16, 8>>
Ambe2400Tables == <<16, 64, 512, 128, 16, 16, 16, 16>>

\* The fundamental frequency in millionths.
AmbeW0table ==
    <<
      49971, 49215, 48471, 47739, 47010, 46299, 45601, 44905, 44226, 43558,
      42900, 42246, 41609, 40979, 40356, 39747, 39148, 38559, 37971, 37399,
      36839, 36278, 35732, 35198, 34672, 34145, 33636, 33133, 32635, 32148,
      31670, 31122, 30647, 30184, 29728, 29272, 28831, 28395, 27966, 27538,
      27122, 26712, 26304, 25906, 25515, 25129, 24746, 24372, 24002, 23636,
      23279, 22926, 22581, 22236, 21900, 21570, 21240, 20920, 20605, 20294,
      19983, 19684, 19386, 19094, 18805, 18520, 18242, 17965, 17696, 17431,
      17170, 16911, 16657, 16409, 16163, 15923, 15686, 15411, 15177, 14946,
      14721, 14496, 14277, 14061, 13847, 13636, 13430, 13227, 13025, 12829,
      12634, 12444, 12253, 12068, 11887, 11703, 11528, 11353, 11183, 11011,
      10845, 10681, 10517, 10359, 10202, 10050, 9895, 9747, 9600, 9453, 9312,
      9172, 9033, 8896, 8762, 8633, 8501, 8375, 8249, 8125
    >>

AmbeLtable(b0) == 462700 \div AmbeW0table[b0 + 1]

\* AmbePlusLtable has six entries more.
AmbePlusLtable(b0) == IF b0 < 120 THEN AmbeLtable(b0) ELSE 56

\* From L = 9 on.
AmbeLmprbl ==
    <<
      <<2, 2, 2, 3>>, <<2, 2, 3, 3>>, <<2, 3, 3, 3>>, <<2, 3, 3, 4>>,
      <<3, 3, 3, 4>>, <<3, 3, 4, 4>>, <<3, 3, 4, 5>>, <<3, 4, 4, 5>>,
      <<3, 4, 5, 5>>, <<4, 4, 5, 5>>, <<4, 4, 5, 6>>, <<4, 4, 6, 6>>,
      <<4, 5, 6, 6>>, <<4, 5, 6, 7>>, <<5, 5, 6, 7>>, <<5, 5, 7, 7>>,
      <<5, 6, 7, 7>>, <<5, 6, 7, 8>>, <<5, 6, 8, 8>>, <<6, 6, 8, 8>>,
      <<6, 6, 8, 9>>, <<6, 7, 8, 9>>, <<6, 7, 9, 9>>, <<6, 7, 9, 10>>,
      <<7, 7, 9, 10>>, <<7, 8, 9, 10>>, <<7, 8, 10, 10>>, <<7, 8, 10, 11>>,
      <<8, 8, 10, 11>>, <<8, 9, 10, 11>>, <<8, 9, 11, 11>>, <<8, 9, 11, 12>>,
      <<8, 9, 11, 13>>, <<8, 9, 12, 13>>, <<8, 10, 12, 13>>,
      <<9, 10, 12, 13>>, <<9, 10, 12, 14>>, <<9, 10, 13, 14>>,
      <<9, 11, 13, 14>>, <<10, 11, 13, 14>>, <<10, 11, 13, 15>>,
      <<10, 11, 14, 15>>, <<10, 12, 14, 15>>, <<10, 12, 14, 16>>,
      <<11, 12, 14, 16>>, <<11, 12, 15, 16>>, <<11, 12, 15, 17>>,
      <<11, 13, 15, 17>>
    >>

AmbePlusLmprbl == AmbeLmprbl

\* 0: a voice frame, 2: an erasure, 3: a tone.
AmbeStatus(codec, b0) ==
    CASE codec = "ambe2450" /\ b0 \in 120 .. 123 -> 2
      [] b0 \in 126 .. 127 -> 3
      [] OTHER -> 0

\* mbe_decodeAmbe2450Parms and mbe_decodeAmbe2400Parms.  silence: 2450 has two
\* pitches for a frame of 14 unvoiced bands, whose jl is not used.  2400 computes
\* the frequency as a power, and its jl is left out.
mbe_decodeAmbeParms(codec, b0) ==
    LET silence == codec = "ambe2450" /\ b0 \in 124 .. 125
        L == CASE silence -> 14
               [] codec = "ambe2450" /\ ~silence -> AmbeLtable(b0)
               [] OTHER -> AmbePlusLtable(b0)
        Lmprbl == IF codec = "ambe2450" THEN AmbeLmprbl ELSE AmbePlusLmprbl
        status == AmbeStatus(codec, b0)
    IN decoded' =
        [codec |-> codec, b0 |-> b0, status |-> status,
         L |-> IF status = 0 THEN L ELSE 0,
         Ji |-> IF status = 0 THEN Lmprbl[L - 8] ELSE <<>>,
         jl |-> IF status = 0 /\ codec = "ambe2450" /\ ~silence
                THEN {(16 * l * AmbeW0table[b0 + 1]) \div 1000000 : l \in 1 .. L}
                ELSE {},
         written |-> <<>>, read |-> {}]

-----------------------------------------------------------------------------
(* imbe7200x4400.c: bit x of the parameter b_m is the pair <<m, x>>.       *)

\* L and K from b0: w0 = 4 pi / (b0 + 39.5).
ImbeL(b0) == (9254 * ((2 * b0 + 81) \div 8)) \div 10000

\* Mutant: one voicing decision too few.
ImbeK_rounded_down(L) == IF L < 37 THEN (L + 1) \div 3 ELSE 12

ImbeK(L) == IF L < 37 THEN (L + 2) \div 3 ELSE 12

\* The number of bits of b3 .. b7, from L = 9 on.
ba ==
    <<
      <<10, 9, 9, 9, 9>>, <<9, 9, 8, 8, 8>>, <<8, 8, 8, 7, 7>>,
      <<8, 7, 7, 7, 7>>, <<7, 7, 7, 6, 6>>, <<7, 6, 6, 6, 6>>,
      <<7, 6, 6, 6, 5>>, <<6, 6, 6, 5, 5>>, <<6, 6, 5, 5, 5>>,
      <<6, 5, 5, 5, 5>>, <<6, 5, 5, 4, 4>>, <<6, 5, 5, 4, 4>>,
      <<5, 5, 5, 4, 4>>, <<5, 5, 4, 4, 4>>, <<5, 4, 4, 4, 4>>,
      <<5, 4, 4, 4, 4>>, <<5, 4, 4, 4, 3>>, <<5, 4, 4, 3, 3>>,
      <<5, 4, 4, 3, 3>>, <<4, 4, 4, 3, 3>>, <<4, 4, 4, 3, 3>>,
      <<4, 4, 4, 3, 3>>, <<4, 4, 3, 3, 3>>, <<4, 4, 3, 3, 3>>,
      <<4, 3, 3, 3, 3>>, <<4, 3, 3, 3, 3>>, <<4, 3, 3, 3, 3>>,
      <<4, 3, 3, 3, 3>>, <<4, 3, 3, 3, 2>>, <<4, 3, 3, 3, 2>>,
      <<4, 3, 3, 3, 2>>, <<4, 3, 3, 3, 2>>, <<4, 3, 3, 2, 2>>,
      <<4, 3, 3, 2, 2>>, <<4, 3, 3, 2, 2>>, <<4, 3, 3, 2, 2>>,
      <<4, 3, 3, 2, 2>>, <<3, 3, 3, 2, 2>>, <<3, 3, 3, 2, 2>>,
      <<3, 3, 3, 2, 2>>, <<3, 3, 3, 2, 2>>, <<3, 3, 3, 2, 2>>,
      <<3, 3, 3, 2, 2>>, <<3, 3, 2, 2, 2>>, <<3, 3, 2, 2, 2>>,
      <<3, 3, 2, 2, 2>>, <<3, 3, 2, 2, 2>>, <<3, 3, 2, 2, 2>>
    >>

\* The number of bits of b8 .. b(L+1), from L = 9 on.
hoba ==
    <<
      <<9,8,7>>,
      <<9,7,6,5>>,
      <<9,7,6,5,4>>,
      <<8,7,6,5,4,3>>,
      <<7,7,6,5,4,3,3>>,
      <<7,7,5,4,4,3,4,3>>,
      <<6,7,5,4,4,3,3,3,3>>,
      <<6,6,5,4,4,3,3,3,3,2>>,
      <<5,5,5,4,4,4,3,3,2,3,2>>,
      <<5,4,5,5,4,3,3,3,3,2,2,2>>,
      <<5,4,5,4,4,3,3,3,3,2,3,2,1>>,
      <<5,4,5,4,4,3,3,2,3,2,1,3,2,1>>,
      <<4,4,5,4,4,3,3,2,2,3,2,1,3,2,1>>,
      <<4,4,4,4,4,3,2,3,2,2,3,2,1,2,2,1>>,
      <<4,3,4,4,3,4,3,2,3,2,2,2,2,1,2,2,1>>,
      <<4,3,3,4,3,3,3,3,2,3,2,1,2,2,1,2,2,1>>,
      <<4,3,3,4,3,3,3,3,2,3,2,1,2,2,1,2,1,1,1>>,
      <<4,3,3,4,3,3,3,2,2,3,2,1,2,2,1,1,2,2,1,1>>,
      <<4,3,2,4,3,2,3,2,2,3,2,2,1,2,2,1,1,2,2,1,1>>,
      <<4,3,2,4,3,2,3,2,2,2,3,2,1,1,2,2,1,1,2,1,1,1>>,
      <<3,3,2,4,3,2,2,3,2,2,2,3,2,1,1,2,1,1,1,2,1,1,1>>,
      <<3,3,2,2,3,3,2,2,3,2,2,1,3,2,1,1,2,1,1,1,2,1,1,1>>,
      <<3,3,2,2,3,3,2,2,3,2,2,1,2,2,1,1,2,1,1,1,2,1,1,1,1>>,
      <<3,3,2,2,3,3,2,2,3,2,2,1,2,2,1,1,2,1,1,1,1,2,1,1,1,0>>,
      <<3,3,2,2,3,3,2,2,3,2,1,1,2,2,1,1,1,2,1,1,1,1,2,1,1,1,1>>,
      <<3,2,2,2,3,2,2,2,3,2,2,1,1,2,2,1,1,1,2,1,1,1,1,2,1,1,1,0>>,
      <<3,2,2,2,3,2,2,2,2,3,2,1,1,1,2,2,1,1,1,2,1,1,1,0,2,1,1,1,0>>,
      <<3,2,2,2,1,3,2,2,2,1,3,2,1,1,1,2,2,1,1,1,2,1,1,1,0,2,1,1,1,0>>,
      <<3,2,2,2,1,3,2,2,2,2,3,2,1,1,1,2,1,1,1,1,2,1,1,1,0,2,1,1,1,1,0>>,
      <<3,2,2,2,1,3,2,2,2,1,3,2,1,1,1,2,1,1,1,1,2,1,1,1,1,0,2,1,1,1,1,0>>,
      <<3,2,2,2,1,3,2,2,2,1,3,2,1,1,1,2,2,1,1,1,0,2,1,1,1,1,0,2,1,1,1,0,0>>,
      <<3,2,2,2,1,3,2,2,1,1,3,2,1,1,1,1,2,2,1,1,1,0,2,1,1,1,1,0,2,1,1,1,0,0>>,
      <<3,2,2,1,1,3,2,2,2,1,1,3,2,1,1,1,1,2,2,1,1,1,0,2,1,1,1,1,0,2,1,1,1,0,0>>,
      <<3,2,2,2,1,1,3,2,2,2,1,1,2,2,1,1,1,1,2,2,1,1,1,0,2,1,1,1,0,0,2,1,1,1,0,0>>,
      <<3,2,2,2,1,1,3,2,2,2,1,1,2,2,1,1,1,1,2,1,1,1,1,0,2,1,1,1,0,0,2,1,1,1,1,0,0>>,
      <<3,2,2,1,1,1,3,2,2,2,1,1,2,2,1,1,1,1,2,1,1,1,1,0,2,1,1,1,1,0,0,2,1,1,1,1,0,0>>,
      <<3,2,2,1,1,1,3,2,2,1,1,1,2,2,1,1,1,1,2,2,1,1,1,0,0,2,1,1,1,1,0,0,2,1,1,1,1,0,0>>,
      <<3,2,2,1,1,1,3,2,2,1,1,1,2,2,1,1,1,1,1,2,2,1,1,1,0,0,2,1,1,1,1,0,0,2,1,1,1,1,0,0>>,
      <<3,2,2,1,1,1,3,2,2,1,1,1,1,2,2,1,1,1,1,1,2,2,1,1,1,0,0,2,1,1,1,1,0,0,2,1,1,1,0,0,0>>,
      <<3,2,2,1,1,1,1,3,2,2,1,1,1,1,2,2,1,1,1,1,1,2,2,1,1,1,0,0,2,1,1,1,0,0,0,2,1,1,1,0,0,0>>,
      <<3,2,2,1,1,1,1,3,2,2,1,1,1,1,2,2,1,1,1,1,0,2,2,1,1,1,0,0,2,1,1,1,0,0,0,2,1,1,1,1,0,0,0>>,
      <<3,2,2,1,1,1,1,3,2,2,1,1,1,1,2,2,1,1,1,1,0,2,2,1,1,1,0,0,2,1,1,1,1,0,0,0,2,1,1,1,0,0,0,0>>,
      <<3,2,2,1,1,1,1,3,2,1,1,1,1,1,2,2,1,1,1,1,0,2,2,1,1,1,0,0,0,2,1,1,1,1,0,0,0,2,1,1,1,1,0,0,0>>,
      <<3,2,1,1,1,1,1,3,2,2,1,1,1,1,2,2,1,1,1,1,1,0,2,2,1,1,1,0,0,0,2,1,1,1,1,0,0,0,2,1,1,1,1,0,0,0>>,
      <<3,2,1,1,1,1,1,3,2,2,1,1,1,1,1,2,2,1,1,1,1,1,0,2,2,1,1,1,0,0,0,2,1,1,1,1,0,0,0,2,1,1,1,0,0,0,0>>,
      <<3,2,2,1,1,1,1,0,3,2,2,1,1,1,1,0,2,2,1,1,1,1,1,0,2,2,1,1,1,0,0,0,2,1,1,1,1,0,0,0,2,1,1,1,0,0,0,0>>,
      <<3,2,2,1,1,1,1,0,3,2,2,1,1,1,1,0,2,2,1,1,1,1,1,0,2,2,1,1,1,0,0,0,2,1,1,1,0,0,0,0,2,1,1,1,1,0,0,0,0>>,
      <<3,2,2,1,1,1,1,0,3,2,2,1,1,1,1,0,2,2,1,1,1,1,1,0,2,2,1,1,1,0,0,0,2,1,1,1,1,0,0,0,0,2,1,1,1,0,0,0,0,0>>
    >>

\* The length of each of the six blocks.
ImbeJi(L) == [i \in 1 .. 6 |-> (L + i - 1) \div 6]

\* The bits of b3 .. b(L+1) by significance.
Scan(L) ==
    LET bits == ba[L - 8] \o hoba[L - 8]
        Level[v \in 0 .. 12] ==
            LET here == SelectSeq([i \in 1 .. L - 1 |-> i + 2], LAMBDA m : bits[m - 2] > v)
            IN IF v = 12 THEN <<>>
               ELSE Level[v + 1] \o [k \in 1 .. Len(here) |-> <<here[k], v>>]
    IN Level[0]

\* Where the bits 6 .. 84 of the frame go: after the most significant bits of
\* the gain, 39 bits of the others, then the voicing decisions.
bo(L) ==
    LET s == Scan(L)
        K == ImbeK(L)
    IN <<<<2, 5>>, <<2, 4>>, <<2, 3>>>> \o SubSeq(s, 1, 39)
       \o [k \in 1 .. K |-> <<1, K - k>>] \o <<<<2, 2>>, <<2, 1>>>>
       \o SubSeq(s, 40, Len(s)) \o <<<<2, 0>>>>

\* The bits of bb that mbe_decodeImbe4400Parms reads: one voicing decision for
\* three bands, the last one for all that are left; b2 .. b7; and the higher
\* coefficients, as many as the blocks have after their first.
ImbeRead(L) ==
    LET Below(m, n) == {<<m, x>> : x \in 0 .. n - 1}
        K == ImbeK(L)
        coefficients == Total([i \in 1 .. 6 |-> ImbeJi(L)[i] - 1])
    IN {<<1, Max({K - 1 - ((i - 1) \div 3), 0})>> : i \in 1 .. L}
       \cup Below(2, 6)
       \cup UNION {Below(i + 2, ba[L - 8][i]) : i \in 1 .. 5}
       \cup UNION {Below(m + 7, hoba[L - 8][m]) : m \in 1 .. coefficients}

mbe_decodeImbe4400Parms(b0) ==
    LET L == ImbeL(b0)
        valid == b0 <= 207 /\ L \in 9 .. 56
    IN decoded' =
        [codec |-> "imbe", b0 |-> b0, status |-> IF valid THEN 0 ELSE 1,
         L |-> IF valid THEN L ELSE 0,
         Ji |-> IF valid THEN ImbeJi(L) ELSE <<>>,
         jl |-> {},
         written |-> IF valid THEN bo(L) ELSE <<>>,
         read |-> IF valid THEN ImbeRead(L) ELSE {}]

-----------------------------------------------------------------------------
(* imbe7100x4400.c                                                         *)

\* The bit of the 7100 frame that mbe_convertImbe7100to7200 puts at j: the
\* n-th of the bits copied by its loop, b1, two bits of b2, the status bit.
SourceOf(K, j) ==
    CASE j = 87 -> 0
      [] j \in 48 .. 47 + K -> j - 4
      [] j \in {48 + K, 49 + K} -> j - K - 6
      [] OTHER -> LET n == IF j < 48 THEN j ELSE j - K - 2
                  IN IF n < 41 THEN n + 1 ELSE n + K + 3

mbe_convertImbe7100to7200(b0) ==
    LET K == ImbeK(ImbeL(b0))
    IN decoded' =
        [codec |-> "imbe7100", b0 |-> b0, status |-> 0, L |-> 0, Ji |-> <<>>, jl |-> {},
         written |-> [i \in 1 .. 88 |-> SourceOf(K, i - 1)], read |-> {}]

-----------------------------------------------------------------------------
FieldsInit == decoded = Undecoded

FieldsNext ==
    /\ decoded = Undecoded
    /\ \/ \E codec \in {"ambe2450", "ambe2400"}, b0 \in 0 .. 127 : mbe_decodeAmbeParms(codec, b0)
       \/ \E b0 \in 0 .. 255 : mbe_decodeImbe4400Parms(b0)
       \/ \E b0 \in 0 .. 255 : mbe_convertImbe7100to7200(b0)

\* The fields of a frame of bits as b0 .. b8 share no bit and leave at most
\* one of the 49 unused, and no field exceeds the table it indexes.
AmbeLayout(bits, tables) ==
    LET all == FoldLeft(LAMBDA x, y : x \o y, <<>>, bits)
    IN /\ Cardinality(ToSet(all)) = Len(all)
       /\ Len(all) >= 48 /\ ToSet(all) \subseteq 0 .. 48
       /\ \A f \in 1 .. 8 : 2^Len(bits[f + 1]) <= tables[f]

(***************************************************************************)
(* Whatever pitch a frame announces, and bit errors make it any of them,   *)
(* decoding it stays inside every table and array: L is one that the       *)
(* tables have, the blocks of the inverse transform fill exactly the bands *)
(* 1 .. L and fit Cik, and the voicing vector is not read past its end.    *)
(***************************************************************************)
FrameStaysInTables ==
    decoded # Undecoded /\ decoded.codec # "imbe7100" /\ decoded.status = 0
        => /\ decoded.L \in 9 .. LastBand
           /\ Total(decoded.Ji) = decoded.L
           /\ \A i \in DOMAIN decoded.Ji :
                decoded.Ji[i] <= (IF decoded.codec = "imbe" THEN 10 ELSE 17)
           /\ decoded.jl \subseteq 0 .. 7
           /\ decoded.codec = "ambe2450" => AmbeLayout(Ambe2450Bits, Ambe2450Tables)
           /\ decoded.codec = "ambe2400" => AmbeLayout(Ambe2400Bits, Ambe2400Tables)

(***************************************************************************)
(* The 79 bits that an IMBE frame spreads over its parameters go to 79     *)
(* different places, and these are exactly the ones read afterwards: no    *)
(* bit of bb is used that the frame did not set, for any pitch.            *)
(***************************************************************************)
ImbeBitsRead ==
    decoded # Undecoded /\ decoded.codec = "imbe" /\ decoded.status = 0
        => /\ Len(decoded.written) = 79
           /\ Cardinality(ToSet(decoded.written)) = 79
           /\ decoded.read = ToSet(decoded.written)

(***************************************************************************)
(* mbe_convertImbe7100to7200 loses and repeats no bit whatever the pitch,  *)
(* although the number of voicing bits it skips on either side depends on  *)
(* it, and the pitch stays where mbe_decodeImbe4400Parms reads it.         *)
(***************************************************************************)
ConvertPermutes ==
    decoded # Undecoded /\ decoded.codec = "imbe7100"
        => /\ ToSet(decoded.written) = 0 .. 87
           /\ \A j \in 0 .. 5 : decoded.written[j + 1] = j + 1
           /\ decoded.written[86] = 86 /\ decoded.written[87] = 87

(***************************************************************************)
(* For every pitch of every codec, each bit of a voice frame has one place *)
(* and is read from that place, and what the bits index is in its table.   *)
(***************************************************************************)
VoiceBitsPlaced == FrameStaysInTables /\ ImbeBitsRead /\ ConvertPermutes
=============================================================================
