------------------------------- MODULE Burst -------------------------------
(***************************************************************************)
(* One DMR burst of 264 bits that the library's encoders fill in and its   *)
(* decoders read (src/dmr/payload/lc.c, sync.c, emb.c, src/dmr/packet.c).  *)
(* The encoders share the burst: the full link control in its two halves,  *)
(* sync pattern or embedded signalling in the middle, the slot type around *)
(* it.  The channel may invert bits.                                       *)
(***************************************************************************)
EXTENDS BurstCodes

CONSTANTS
    FullLcs,        \* the link controls that are sent
    Syncs,          \* the sync patterns that are sent
    SlotTypes,      \* the slot types that are sent
    Embs,           \* the embedded signalling headers that are sent
    StackBits,      \* what an uninitialised bits[98 .. 165] may hold
    FlipAt,         \* the bits the channel may invert
    MaxFlips        \* bound: inverted bits

BurstBits == 0 .. 263
SyncBits == 108 .. 155
SlotBits == (98 .. 107) \cup (156 .. 165)
EmbBits == (108 .. 115) \cup (148 .. 155)
LcTypes == {"VOICE_LC", "TERMINATOR_WITH_LC"}

\* The sync patterns as three words of 16 bits, in the order in which
\* dmr_sync_pattern_decode tries them.
SyncPatterns ==
    <<[name |-> "BS_SOURCED_VOICE", w |-> <<30047, 55263, 30199>>],
      [name |-> "BS_SOURCED_DATA", w |-> <<57333, 32117, 57181>>],
      [name |-> "MS_SOURCED_VOICE", w |-> <<32637, 24021, 32253>>],
      [name |-> "MS_SOURCED_DATA", w |-> <<54743, 63359, 55127>>],
      [name |-> "MS_SOURCED_RC", w |-> <<30677, 24445, 64887>>],
      [name |-> "DIRECT_VOICE_TS1", w |-> <<23895, 32631, 22527>>],
      [name |-> "DIRECT_DATA_TS1", w |-> <<63485, 54749, 64853>>],
      [name |-> "DIRECT_VOICE_TS2", w |-> <<32255, 54773, 23903>>],
      [name |-> "DIRECT_DATA_TS2", w |-> <<55125, 32607, 63477>>]>>

SyncNames == {SyncPatterns[i].name : i \in 1 .. 9}

\* The positions of the one bits of the i-th pattern in the burst.
SyncWord ==
    [i \in 1 .. 9 |-> UNION {Bits(SyncPatterns[i].w[j], 92 + 16 * j, 16) : j \in 1 .. 3}]

ASSUME BurstAssumption ==
    /\ FullLcs \subseteq [flco : {0, 3}, fid : 0 .. 255, dst : 0 .. 2^24 - 1, src : 0 .. 2^24 - 1]
    /\ Syncs \subseteq SyncNames
    /\ SlotTypes \subseteq [color_code : 1 .. 15, data_type : 0 .. 9]
    /\ Embs \subseteq [color_code : 0 .. 15, pi : {0, 1}, lcss : 0 .. 3]
    /\ StackBits \subseteq SUBSET (98 .. 165)
    /\ FlipAt \subseteq BurstBits
    /\ MaxFlips \in Nat

VARIABLES
    burst,      \* the packet: the positions of its one bits
    lc,         \* history: the link control in it and its data type, or None
    sync,       \* history: the sync pattern in it, or None
    slot,       \* history: the slot type in it, or None
    emb,        \* history: the embedded signalling in it, or None
    flipped     \* history: bits inverted since they were written

burstVars == <<burst, lc, sync, slot, emb, flipped>>

\* A zeroed packet.
BurstInit ==
    /\ burst = {}
    /\ lc = None /\ sync = None /\ slot = None /\ emb = None
    /\ flipped = {}

\* The bits of region become those of word.
Write(region, word) ==
    /\ burst' = (burst \ region) \cup word
    /\ flipped' = flipped \ region

-----------------------------------------------------------------------------
(* lc.c                                                                    *)

\* dmr_crc_mask_lc on the last three bytes.
CrcMask(type) ==
    UNION {Bits(IF type = "VOICE_LC" THEN 150 ELSE 153, 72 + 8 * i, 8) : i \in 0 .. 2}

\* Byte 2, the service options, is sent as 0.
dmr_full_lc_encode_bytes(l) ==
    dmr_rs_12_9_4_encode(
        Bits(l.flco, 0, 8) \cup (IF l.flco = 3 THEN {0} ELSE {})
        \cup Bits(l.fid, 8, 8) \cup Bits(l.dst, 24, 24) \cup Bits(l.src, 48, 24))

LcWord ==
    [l \in FullLcs, type \in LcTypes |->
        dmr_bptc_196_96_encode(SymDiff(dmr_full_lc_encode_bytes(l), CrcMask(type)))]

\* dmr_full_lc_encode: dmr_bptc_196_96_encode writes the whole packet, and the
\* middle of it from an array it never filled.
dmr_full_lc_encode(l, type) ==
    /\ \E garbage \in StackBits : Write(BurstBits, garbage \cup LcWord[l, type])
    /\ lc' = [lc |-> l, type |-> type]
    /\ sync' = None /\ slot' = None /\ emb' = None

\* None: dmr_full_lc_decode returns an error.
dmr_full_lc_decode(b, type) ==
    LET cells == Cells(b)
        bytes == SymDiff(BptcData(cells), CrcMask(type))
    IN IF BptcAccepts(cells) /\ dmr_rs_12_9_4_decode(bytes)
       THEN [flco |-> NumberAt(bytes, 2, 6), fid |-> NumberAt(bytes, 8, 8),
             dst |-> NumberAt(bytes, 24, 24), src |-> NumberAt(bytes, 48, 24)]
       ELSE None

-----------------------------------------------------------------------------
(* sync.c                                                                  *)

dmr_sync_pattern_encode(p) ==
    /\ Write(SyncBits, SyncWord[CHOOSE i \in 1 .. 9 : SyncPatterns[i].name = p])
    /\ sync' = p
    /\ emb' = None
    /\ UNCHANGED <<lc, slot>>

dmr_bit_diff(b, i) == Cardinality(SymDiff(b \cap SyncBits, SyncWord[i]))

dmr_sync_delta_max == 4

dmr_sync_pattern_decode(b) ==
    LET near == {i \in 1 .. 9 : dmr_bit_diff(b, i) < dmr_sync_delta_max}
    IN IF near = {} THEN "UNKNOWN" ELSE SyncPatterns[Min(near)].name

-----------------------------------------------------------------------------
(* packet.c                                                                *)

\* Bit k of the slot type's 20 goes before or after the sync pattern.
SlotBit(k) == IF k < 10 THEN 98 + k ELSE 146 + k

SlotWord ==
    [s \in SlotTypes |-> {SlotBit(k) : k \in
        dmr_golay_20_8_encode(Bits(16 * s.color_code + s.data_type, 0, 8))}]

dmr_slot_type_encode(s) ==
    /\ Write(SlotBits, SlotWord[s])
    /\ slot' = s
    /\ UNCHANGED <<lc, sync, emb>>

\* Mutant: the masks of the second byte lose six bits.
SlotSource_masked(k) == IF k \in {8, 9, 10, 11, 14, 15} THEN {} ELSE {SlotBit(k)}

\* The burst bits that dmr_slot_type_decode ors together for bit k.  Its mask
\* for packet[19] is shifted by two: two bits of the sync pattern get in and
\* two of the slot type stay out.
SlotSource(k) ==
    CASE k \in {8, 9} -> {SlotBit(k), 146 + k}
      [] k \in {12, 13} -> {}
      [] OTHER -> {SlotBit(k)}

dmr_slot_type_decode(b) ==
    LET code == dmr_golay_20_8_decode({k \in 0 .. 18 : SlotSource(k) \cap b # {}})
    IN IF code = None THEN None
       ELSE [color_code |-> NumberAt(code, 0, 4), data_type |-> NumberAt(code, 4, 4)]

\* The data type and the time slot; None when the slot type decides and is
\* not specified.
dmr_packet_decode(b) ==
    LET p == dmr_sync_pattern_decode(b)
        s == dmr_slot_type_decode(b)
    IN [type |->
            CASE p \in {"BS_SOURCED_DATA", "MS_SOURCED_DATA",
                        "DIRECT_DATA_TS1", "DIRECT_DATA_TS2"} -> "DATA_HEADER"
              [] p \in {"BS_SOURCED_VOICE", "MS_SOURCED_VOICE",
                        "DIRECT_VOICE_TS1", "DIRECT_VOICE_TS2"} -> "VOICE_SYNC"
              [] OTHER -> IF s = None THEN None ELSE s.data_type,
        ts |-> IF p \in {"DIRECT_DATA_TS2", "DIRECT_VOICE_TS2"} THEN 2 ELSE 1]

-----------------------------------------------------------------------------
(* emb.c                                                                   *)

\* Bit k of the 16 goes before or after the embedded fragment.
EmbBit(k) == IF k < 8 THEN 108 + k ELSE 140 + k

\* The byte is lcss, pi and colour code in bits 6 .. 0, of which the QR code
\* takes the upper seven: the last bit of the colour code is not sent.
EmbWord ==
    [e \in Embs |-> {EmbBit(k) : k \in
        dmr_qr_16_7_encode(Bits(32 * e.lcss + 16 * e.pi + e.color_code, 0, 8) \ {7})}]

dmr_emb_encode(e) ==
    /\ Write(EmbBits, EmbWord[e])
    /\ emb' = e
    /\ sync' = None
    /\ UNCHANGED <<lc, slot>>

\* None: dmr_emb_decode returns -1.
dmr_emb_decode(b) ==
    LET word == {k \in 0 .. 15 : EmbBit(k) \in b}
    IN IF dmr_qr_16_7_decode(word)
       THEN [color_code |-> NumberAt(word, 0, 4), pi |-> NumberAt(word, 4, 1),
             lcss |-> NumberAt(word, 0, 3)]
       ELSE None

-----------------------------------------------------------------------------
\* The channel inverts bit i.
Flip(i) ==
    /\ Cardinality(flipped) < MaxFlips
    /\ i \notin flipped
    /\ burst' = SymDiff(burst, {i})
    /\ flipped' = flipped \cup {i}
    /\ UNCHANGED <<lc, sync, slot, emb>>

BurstNext ==
    \/ \E l \in FullLcs, t \in LcTypes : dmr_full_lc_encode(l, t)
    \/ \E p \in Syncs : dmr_sync_pattern_encode(p)
    \/ \E s \in SlotTypes : dmr_slot_type_encode(s)
    \/ \E e \in Embs : dmr_emb_encode(e)
    \/ \E i \in FlipAt : Flip(i)

-----------------------------------------------------------------------------
\* Every position is one of the 264, and the history names what was encoded.
BurstTypeOK ==
    /\ burst \subseteq BurstBits
    /\ lc \in {None} \cup [lc : FullLcs, type : LcTypes]
    /\ sync \in {None} \cup Syncs
    /\ slot \in {None} \cup SlotTypes
    /\ emb \in {None} \cup Embs
    /\ flipped \subseteq FlipAt

(***************************************************************************)
(* Whatever the other encoders wrote into the same packet, and whatever    *)
(* was left in its middle, dmr_full_lc_decode returns the link control     *)
(* that dmr_full_lc_encode put in, unless the channel touched its bits.    *)
(***************************************************************************)
LcReadBack ==
    lc # None /\ flipped \cap LcBits = {}
        => dmr_full_lc_decode(burst, lc.type) = lc.lc

(***************************************************************************)
(* Up to three inverted bits never make dmr_full_lc_decode return another  *)
(* link control than was sent, nor take a header for a terminator.  The    *)
(* row parities alone do not give this: three bits of one row can pass     *)
(* them, and only the Reed-Solomon parity refuses.                         *)
(***************************************************************************)
LcNeverWrong ==
    lc # None /\ Cardinality(flipped) <= 3
        => \A t \in LcTypes :
            dmr_full_lc_decode(burst, t) \in {None} \cup (IF t = lc.type THEN {lc.lc} ELSE {})

(***************************************************************************)
(* With fewer than four inverted bits in the sync pattern, and whatever is *)
(* around it, dmr_packet_decode tells voice from data and slot 1 from slot *)
(* 2 as the pattern that dmr_sync_pattern_encode wrote.                    *)
(***************************************************************************)
SyncReadBack ==
    sync # None /\ Cardinality(flipped \cap SyncBits) <= 3
        => /\ dmr_sync_pattern_decode(burst) = sync
           /\ sync # "MS_SOURCED_RC" =>
                LET p == dmr_packet_decode(burst)
                IN /\ (p.type = "VOICE_SYNC") <=>
                        sync \in {"BS_SOURCED_VOICE", "MS_SOURCED_VOICE",
                                  "DIRECT_VOICE_TS1", "DIRECT_VOICE_TS2"}
                   /\ (p.ts = 2) <=> sync \in {"DIRECT_VOICE_TS2", "DIRECT_DATA_TS2"}

(***************************************************************************)
(* The wrong mask of dmr_slot_type_decode costs up to four wrong bits, and *)
(* the Golay code corrects three: the slot type is read back as it was     *)
(* written as long as at most one more thing goes wrong, where a one in    *)
(* either of the last two sync bits counts as such a thing.                *)
(***************************************************************************)
SlotTypeReadBack ==
    slot # None /\ Cardinality(flipped \cap SlotBits) + Cardinality(burst \cap {154, 155}) <= 1
        => dmr_slot_type_decode(burst) = slot

(***************************************************************************)
(* dmr_emb_decode accepts the embedded signalling header with the fragment *)
(* indicator that dmr_emb_encode was given, and refuses it once the        *)
(* channel inverted one to five of its bits.  (Colour code and privacy     *)
(* indicator are not read back: encoder and decoder place them             *)
(* differently.)                                                           *)
(***************************************************************************)
EmbReadBack ==
    emb # None /\ Cardinality(flipped \cap EmbBits) <= 5
        => IF flipped \cap EmbBits = {}
           THEN dmr_emb_decode(burst) # None /\ dmr_emb_decode(burst).lcss = emb.lcss
           ELSE dmr_emb_decode(burst) = None

(***************************************************************************)
(* What each of the four encoders wrote last is what its decoder reads,    *)
(* although they share the 33 bytes of one packet, in whatever order they  *)
(* ran and within the errors that each decoder is to withstand.            *)
(***************************************************************************)
BurstReadBack ==
    BurstTypeOK /\ LcReadBack /\ SyncReadBack /\ SlotTypeReadBack /\ EmbReadBack
=============================================================================
