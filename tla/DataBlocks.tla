----------------------------- MODULE DataBlocks ----------------------------
(***************************************************************************)
(* Data headers and data blocks (src/dmr/payload/data.c): a header is the  *)
(* 96 bits of a BPTC(196, 96) with a CRC-16, a block of rate 3/4 comes out *)
(* of the trellis decoder (src/dmr/fec/trellis.c), with a serial number    *)
(* and a CRC-9 when it is confirmed (src/dmr/crc.c).  A byte string is the *)
(* set of its one bits, most significant first.                            *)
(***************************************************************************)
EXTENDS BurstCodes, Sequences

CONSTANTS
    Headers,        \* the headers that are sent: sets of 0 .. 95
    HeaderFlips,    \* the sets of burst bits that the channel may invert
    Blocks,         \* the blocks that are sent: sets of 0 .. 143
    MiddleBits      \* what the burst may hold between its halves

VARIABLE dataUnit   \* the last header or block: as sent, and as decoded

-----------------------------------------------------------------------------
(* crc.c: a register is the set of its one bits.  The registers are        *)
(* linear: a one that is shifted in and then shifted d times more leaves   *)
(* x^d modulo the polynomial.                                              *)

Poly9 == {9, 6, 4, 3, 0}
Poly16 == {16, 12, 5, 0}

After9[d \in 0 .. 15] == IF d = 0 THEN {0} ELSE TimesX(After9[d - 1], Poly9, 9)

\* The shifts, of eight, in which dmr_crc9 shifts a one in.  Its mask starts
\* bitlen bits below the top: for bitlen 8 it is zero, and nothing of the byte
\* gets into the register.
dmr_crc9(byte, bitlen) == {i \in 0 .. 7 : 7 - bitlen - i \in byte}

\* dmr_crc9 for the last byte, then dmr_crc9_finish with bitlen more shifts.
dmr_crc9_finish(ones, bitlen) ==
    {r \in 0 .. 8 : Odd({i \in ones : r \in After9[7 - i + bitlen]})}

\* dmr_crc16 for ten bytes and dmr_crc16_finish, which makes eight of the
\* sixteen shifts that would empty the register.
dmr_crc16(bytes) ==
    LET Shift[i \in 0 .. 88, crc \in SUBSET (0 .. 15)] ==
            IF i = 88 THEN crc
            ELSE Shift[i + 1, SymDiff(TimesX(crc, Poly16, 16),
                                      IF i \in bytes /\ i < 80 THEN {0} ELSE {})]
    IN Shift[0, {}]

-----------------------------------------------------------------------------
(* data.c: headers                                                         *)

\* The register, inverted and masked with 0xcccc.
data_header_crc(bytes) ==
    SymDiff(0 .. 15, SymDiff(dmr_crc16(bytes), {15, 14, 11, 10, 7, 6, 3, 2}))

Field(bytes, byte, high, low) ==
    MapThenSumSet(LAMBDA d : 2^(d - low), {d \in ByteAt(bytes, byte) : d \in low .. high})
Flag(bytes, byte, bit) == bit \in ByteAt(bytes, byte)

PadOctets(bytes) == 16 * Field(bytes, 0, 4, 4) + Field(bytes, 1, 3, 0)
Appended(bytes) == 16 * Field(bytes, 0, 5, 4) + Field(bytes, 1, 3, 0)

\* The part of the header that depends on the packet format.
HeaderData(bytes, dpf) ==
    CASE dpf = 15 -> <<Field(bytes, 1, 6, 0)>>
      [] dpf = 0 -> <<Field(bytes, 1, 3, 0), Field(bytes, 8, 7, 3), Field(bytes, 8, 1, 0),
                      Flag(bytes, 9, 7), Field(bytes, 9, 5, 0)>>
      [] dpf = 2 -> <<PadOctets(bytes), Flag(bytes, 8, 7), Field(bytes, 8, 6, 0),
                      Field(bytes, 9, 3, 0)>>
      [] dpf = 3 -> <<PadOctets(bytes), Flag(bytes, 8, 7), Field(bytes, 8, 6, 0),
                      Flag(bytes, 9, 7), Field(bytes, 9, 6, 4), Field(bytes, 9, 3, 0)>>
      [] dpf = 1 -> <<Field(bytes, 8, 6, 0), Field(bytes, 9, 7, 3), Field(bytes, 9, 2, 0)>>
      [] dpf = 14 -> <<Appended(bytes), Field(bytes, 8, 7, 5), Field(bytes, 8, 4, 2),
                       Flag(bytes, 8, 1), Flag(bytes, 8, 0), Field(bytes, 9, 7, 0)>>
      [] dpf = 13 -> <<Appended(bytes), Field(bytes, 8, 7, 2), Flag(bytes, 8, 1),
                       Flag(bytes, 8, 0), Field(bytes, 9, 7, 0)>>
      [] OTHER -> <<>>

\* The fields, and whether the CRC is warned of: a wrong one is no error.
HeaderOf(bytes) ==
    LET dpf == Field(bytes, 0, 3, 0)
    IN [group |-> Flag(bytes, 0, 7), response_requested |-> Flag(bytes, 0, 6),
        header_compression |-> Flag(bytes, 0, 5), dpf |-> dpf, sap |-> Field(bytes, 1, 7, 4),
        src_id |-> NumberAt(bytes, 16, 24), dst_id |-> NumberAt(bytes, 40, 24),
        data |-> HeaderData(bytes, dpf),
        warned |-> data_header_crc(bytes) # {8 + d : d \in ByteAt(bytes, 10)} \cup ByteAt(bytes, 11)]

\* Mutant: the rows of the matrix are not checked.
dmr_data_header_decode_unchecked(burst) == HeaderOf(BptcData(Cells(burst)))

\* None: the BPTC is refused.
dmr_data_header_decode(burst) ==
    IF BptcAccepts(Cells(burst)) THEN HeaderOf(BptcData(Cells(burst))) ELSE None

-----------------------------------------------------------------------------
(* trellis.c                                                               *)

state_transition_table ==
    <<<<0, 8, 4, 12, 2, 10, 6, 14>>, <<4, 12, 2, 10, 6, 14, 0, 8>>,
      <<1, 9, 5, 13, 3, 11, 7, 15>>, <<5, 13, 3, 11, 7, 15, 1, 9>>,
      <<3, 11, 7, 15, 1, 9, 5, 13>>, <<7, 15, 1, 9, 5, 13, 3, 11>>,
      <<2, 10, 6, 14, 0, 8, 4, 12>>, <<6, 14, 0, 8, 4, 12, 2, 10>>>>

\* The two dibits of each point.
constellation_point_mapping ==
    <<<<1, -1>>, <<-1, -1>>, <<3, -3>>, <<-3, -3>>, <<-3, -1>>, <<3, -1>>, <<-1, -3>>, <<1, -3>>,
      <<-3, 3>>, <<3, 3>>, <<-1, 1>>, <<1, 1>>, <<1, 3>>, <<-1, 3>>, <<3, 1>>, <<-3, 1>>>>

\* Dibits in pairs, every fourth pair first: 26 of them, then three times 24.
rate_34_interleaving_schedule(i) ==
    IF i < 26 THEN 8 * (i \div 2) + (i % 2)
    ELSE LET n == i - 26 IN 8 * ((n % 24) \div 2) + 2 * (n \div 24 + 1) + (n % 2)

\* The first bit of a dibit is its sign, the second its size.
Dibit(bits, o) ==
    CASE 2 * o \in bits /\ 2 * o + 1 \in bits -> -3
      [] 2 * o \in bits /\ 2 * o + 1 \notin bits -> -1
      [] 2 * o \notin bits /\ 2 * o + 1 \in bits -> 3
      [] OTHER -> 1

\* The dibits are taken from bits, the whole burst, and not from info, its two
\* halves; the 144 bits are written to bits and the 18 bytes packed from info,
\* which was cleared.  None: a transition is impossible.
dmr_trellis_rate_34_decode(bits) ==
    LET at == [p \in 0 .. 97 |-> CHOOSE i \in 0 .. 97 : rate_34_interleaving_schedule(i) = p]
        points == [o \in 0 .. 48 |->
            (CHOOSE j \in 1 .. 16 : constellation_point_mapping[j]
                = <<Dibit(bits, at[2 * o]), Dibit(bits, at[2 * o + 1])>>) - 1]
        Match(last, i) ==
            {t \in 0 .. 7 : state_transition_table[last + 1][t + 1] = points[i]}
        Possible[i \in 0 .. 48, last \in 0 .. 7] ==
            i = 48 \/ (Match(last, i) # {} /\ Possible[i + 1, Min(Match(last, i))])
        info == {}
    IN IF Possible[0, 0] THEN info ELSE None

\* dmr_data_block_decode for rate 3/4.  The CRC is over the data, none of which
\* gets into the register, and then the serial number; inverted twice it is
\* compared as it is.
dmr_data_block_decode(bits, confirmed) ==
    LET bytes == dmr_trellis_rate_34_decode(bits)
        serial == {d \in 0 .. 6 : d + 1 \in ByteAt(bytes, 0)}
        crc == dmr_crc9_finish(dmr_crc9(serial, 7), 8)
        received == (IF 0 \in ByteAt(bytes, 0) THEN {8} ELSE {}) \cup ByteAt(bytes, 1)
    IN IF bytes = None \/ (confirmed /\ crc # received) THEN None
       ELSE [serial |-> IF confirmed THEN serial ELSE {},
             data |-> IF confirmed THEN {b - 16 : b \in {b \in bytes : b >= 16}} ELSE {}]

-----------------------------------------------------------------------------
(* The sender, and the channel.                                            *)

\* The trellis encoder that the tables belong to.
Encode34(bytes) ==
    LET t == [i \in 0 .. 48 |-> IF i = 48 THEN 0 ELSE NumberAt(bytes, 3 * i, 3)]
        point == [o \in 0 .. 48 |->
            state_transition_table[(IF o = 0 THEN 0 ELSE t[o - 1]) + 1][t[o] + 1]]
        dibit == [p \in 0 .. 97 |-> constellation_point_mapping[point[p \div 2] + 1][(p % 2) + 1]]
        info == UNION {
            LET d == dibit[rate_34_interleaving_schedule(i)]
            IN (IF d < 0 THEN {2 * i} ELSE {}) \cup (IF d \in {3, -3} THEN {2 * i + 1} ELSE {})
            : i \in 0 .. 97}
    IN {IF b < 98 THEN b ELSE b + 68 : b \in info}

DataInit == dataUnit = None

ReceiveHeader(bytes, flips) ==
    /\ dataUnit = None
    /\ dataUnit' = [kind |-> "header", sent |-> bytes, flips |-> flips,
            got |-> dmr_data_header_decode(SymDiff(dmr_bptc_196_96_encode(bytes), flips))]

ReceiveBlock(bytes, middle) ==
    /\ dataUnit = None
    /\ dataUnit' = [kind |-> "block", sent |-> bytes, flips |-> {},
            got |-> dmr_data_block_decode(Encode34(bytes) \cup middle, TRUE)]

DataNext ==
    \/ \E h \in Headers, f \in HeaderFlips : ReceiveHeader(h, f)
    \/ \E b \in Blocks, m \in MiddleBits : ReceiveBlock(b, m)

-----------------------------------------------------------------------------
(***************************************************************************)
(* With up to two inverted bits anywhere in the burst, a data header that  *)
(* dmr_data_header_decode accepts is the one that was sent, in every field *)
(* of its packet format.  The rows of the matrix give this, for the CRC is *)
(* only warned of.                                                         *)
(***************************************************************************)
HeaderNeverWrong ==
    dataUnit # None /\ dataUnit.kind = "header"
        => /\ dataUnit.got \in {None, HeaderOf(dataUnit.sent)}
           /\ dataUnit.flips \cap LcBits = {} => dataUnit.got # None
=============================================================================
