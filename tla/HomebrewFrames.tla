--------------------------- MODULE HomebrewFrames ---------------------------
(***************************************************************************)
(* The frames of the homebrew protocol as bytes (homebrew.c): what the     *)
(* client builds with the raw buffers, and what it takes from a DMRD frame *)
(* it receives.                                                            *)
(*                                                                         *)
(* Identifiers stay the bytes they are read from.  What number uint24 and  *)
(* uint32 make of those (homebrew.c:333-335, 350) is the business of       *)
(* common/byte.h, which is external: that these put together what          *)
(* dmr_raw_add_uint24 and dmr_raw_add_uint32 take apart, least significant *)
(* byte first, is nowhere claimed.  The digest is external too.            *)
(***************************************************************************)
EXTENDS RawBuffer

CONSTANTS
    Packets,        \* the packets that are sent
    RepeaterIds,
    Digest,         \* what sha256_final leaves
    Texts           \* what the configuration holds for one of its texts

VARIABLES
    job,            \* what is sent: [kind, packet, dmo, id, text]
    frame,          \* the buffer handed to dmr_homebrew_send_raw
    got             \* what dmr_homebrew_parse_dmrd makes of it

frameVars == <<job, frame, got>>

DATA_TYPE_INVALID == 10
SYNC_VOICE == 32
VOICE_SYNC == 240
VOICE == 241
PACKET_LEN == 33
NoPacket == [ts |-> 0, flco |-> 0, data_type |-> 0, voice_frame |-> 0, sequence |-> 0,
             src_id |-> <<>>, dst_id |-> <<>>, repeater_id |-> <<>>, stream_id |-> <<>>, packet |-> <<>>]

Word(size, value) == [size |-> size, value |-> value]

\* Enumerators and bytes, as the structure has them; a data type that was read
\* from a frame may be any that fits four bits.
ASSUME FrameConstants ==
    /\ Packets \subseteq
         [ts : {0, 1}, flco : {0, 1}, data_type : 0 .. 15 \cup {SYNC_VOICE, VOICE_SYNC, VOICE},
          voice_frame : 0 .. 15, sequence : Nat, src_id : Nat, dst_id : Nat, repeater_id : Nat,
          stream_id : Nat, packet : [1 .. PACKET_LEN -> 0 .. 255]]
    /\ RepeaterIds \subseteq Nat /\ Digest \in [1 .. 32 -> 0 .. 255] /\ Texts \subseteq Seq(0 .. 255)
-----------------------------------------------------------------------------
\* Mutant: the voice frame is put where the frame type is.
SlotInfoLow(p, dmo) ==
    LET type == IF p.data_type \in {DATA_TYPE_INVALID, VOICE} THEN p.voice_frame * 4
                ELSE IF p.data_type = VOICE_SYNC THEN 4 ELSE 8 + p.data_type * 16
    IN  (type + (IF dmo THEN 0 ELSE p.ts) + (IF p.flco = 1 THEN 2 ELSE 0)) % 256

\* The byte that holds timeslot, call type, frame type and data type.
slot_info(p, dmo) ==
    LET type == IF p.data_type \in {DATA_TYPE_INVALID, VOICE} THEN p.voice_frame * 16
                ELSE IF p.data_type = VOICE_SYNC THEN 4 ELSE 8 + p.data_type * 16
    IN  (type + (IF dmo THEN 0 ELSE p.ts) + (IF p.flco = 1 THEN 2 ELSE 0)) % 256

\* What n steps make of a buffer, one after the other.
Built(r, put(_, _), n) ==
    LET upto[k \in 0 .. n] == IF k = 0 THEN r ELSE put(upto[k - 1], k)
    IN  upto[n]

DMRD == <<68, 77, 82, 68>>

dmr_homebrew_send(p, dmo) ==
    LET ops == <<DMRD, <<p.sequence % 256>>, Bytes(Word(3, p.src_id)), Bytes(Word(3, p.dst_id)),
                 Bytes(Word(4, p.repeater_id)), <<slot_info(p, dmo)>>, Bytes(Word(4, p.stream_id)), p.packet>>
    IN  Built(dmr_raw_new(53), LAMBDA r, k : dmr_raw_add(r, ops[k]), 8)

Slice(r, from, n) == SubSeq(r.buf, from + 1, from + n)

\* The zeroed packet keeps its data type when the frame type is 3.
dmr_homebrew_parse_dmrd(r) ==
    LET info == r.buf[16]
        type == (info \div 4) % 4
    IN  [ ts |-> info % 2, flco |-> (info \div 2) % 2,
          data_type |-> CASE type = 0 -> VOICE [] type = 1 -> VOICE_SYNC
                          [] type = 2 -> info \div 16 [] OTHER -> 0,
          voice_frame |-> IF type = 0 THEN info \div 16 ELSE 0,
          sequence |-> r.buf[5],
          src_id |-> Slice(r, 5, 3), dst_id |-> Slice(r, 8, 3), repeater_id |-> Slice(r, 11, 4),
          stream_id |-> Slice(r, 16, 4), packet |-> Slice(r, 20, PACKET_LEN) ]
-----------------------------------------------------------------------------
Named(r, name) == dmr_raw_add(r, name)
RPTL == <<82, 80, 84, 76>>
RPTK == <<82, 80, 84, 75>>
RPTC == <<82, 80, 84, 67>>

\* dmr_homebrew_auth, and dmr_homebrew_close with another name.
login(id) == dmr_raw_add_xuint(Named(dmr_raw_new(12), RPTL), Word(4, id))
closing(id) == dmr_raw_add_xuint(Named(dmr_raw_new(12), RPTC), Word(4, id))

\* homebrew_send_key: the digest is 32 bytes, and the length grows by 32 more.
key(id) ==
    LET r == dmr_raw_add_hex(dmr_raw_add_xuint(Named(dmr_raw_new(76), RPTK), Word(4, id)), Digest)
    IN  [r EXCEPT !.len = @ + 32]

\* A text formatted for a field of n: padded on the right, longer if it is longer.
padded(text, n) == IF Len(text) >= n THEN text ELSE text \o [i \in 1 .. n - Len(text) |-> 32]

FieldWidths == <<8, 8, 9, 9, 2, 2, 8, 9, 3, 20, 20, 124, 40, 40>>

\* homebrew_send_config.  The numbers are formatted to at least the width of
\* their fields, as the texts are; text stands for each of them.
config(id, text) ==
    Built(Named(dmr_raw_new(302), RPTC),
          LAMBDA r, k : dmr_raw_addf(r, FieldWidths[k], padded(text, FieldWidths[k])), 14)
-----------------------------------------------------------------------------
Job(k, p, dmo, id, text) == [kind |-> k, packet |-> p, dmo |-> dmo, id |-> id, text |-> text]

FrameInit == job = Job("none", NoPacket, FALSE, 0, <<>>) /\ frame = NoRaw /\ got = NoPacket

SendPacket == \E p \in Packets, dmo \in BOOLEAN :
    /\ job.kind = "none" /\ job' = Job("dmrd", p, dmo, 0, <<>>)
    /\ frame' = dmr_homebrew_send(p, dmo) /\ UNCHANGED got

SendLogin == \E id \in RepeaterIds :
    /\ job.kind = "none" /\ UNCHANGED got
    /\ \/ job' = Job("login", NoPacket, FALSE, id, <<>>) /\ frame' = login(id)
       \/ job' = Job("closing", NoPacket, FALSE, id, <<>>) /\ frame' = closing(id)
       \/ job' = Job("key", NoPacket, FALSE, id, <<>>) /\ frame' = key(id)
       \/ \E text \in Texts :
            job' = Job("config", NoPacket, FALSE, id, text) /\ frame' = config(id, text)

ReadPacket ==
    /\ job.kind = "dmrd" /\ got = NoPacket /\ frame.len = 53
    /\ got' = dmr_homebrew_parse_dmrd(frame) /\ UNCHANGED <<job, frame>>

FrameNext == SendPacket \/ SendLogin \/ ReadPacket
-----------------------------------------------------------------------------
\* A packet that goes out and is read back is the same packet, but for what the
\* frame has no room for: an invalid data type comes back as voice, direct mode
\* drops the timeslot, a voice frame number is kept for voice only, and the modems'
\* own type SYNC_VOICE, too large for the four bits it is shifted to
\* (homebrew.c:302), comes back as type 0, a privacy indicator.  An identifier is
\* read from the bytes it was written as.
PacketsReadBack ==
    LET p == job.packet
        voice == p.data_type \in {DATA_TYPE_INVALID, VOICE}
    IN  got # NoPacket =>
          got = [p EXCEPT !.ts = IF job.dmo THEN 0 ELSE @,
                          !.data_type = IF voice THEN VOICE ELSE IF @ = SYNC_VOICE THEN 0 ELSE @,
                          !.voice_frame = IF voice THEN @ ELSE 0,
                          !.sequence = @ % 256,
                          !.src_id = Bytes(Word(3, @)), !.dst_id = Bytes(Word(3, @)),
                          !.repeater_id = Bytes(Word(4, @)), !.stream_id = Bytes(Word(4, @))]

\* Where the fields of a configuration stand, and where it ends.
FieldStarts == <<4, 12, 20, 29, 38, 40, 42, 50, 59, 62, 82, 102, 226, 266, 306>>

\* A frame of the login: its name and the identifier in hexadecimal, less the last
\* digit, for which there is a NUL (raw.c:113).
IdFrame(name, id) == name \o CutDigits(HexOf(Reverse(Bytes(Word(4, id)))))

\* Every frame the client builds, to its last byte.  The key frame goes on after
\* its digest for 32 bytes of zeros, which are there because allocations are
\* rounded up (homebrew.c:407, 419).  Every text of the configuration is where its
\* reader looks for it, whatever their lengths: one that is too long is cut and
\* never moves the next.
FramesInPlace ==
    LET holds(bytes) == frame.len = Len(bytes) /\ Slice(frame, 0, frame.len) = bytes IN
    /\ frame.len <= Allocated(frame)
    /\ job.kind = "dmrd" => frame.len = 53 /\ Slice(frame, 0, 4) = DMRD
    /\ job.kind = "login" => holds(IdFrame(RPTL, job.id))
    /\ job.kind = "closing" => holds(IdFrame(RPTC, job.id))
    /\ job.kind = "key" => holds(IdFrame(RPTK, job.id) \o HexOf(Digest) \o Zeros(32))
    /\ job.kind = "config" =>
          /\ frame.len = 306 /\ Slice(frame, 0, 4) = RPTC
          /\ \A i \in DOMAIN FieldWidths :
                Slice(frame, FieldStarts[i], FieldWidths[i])
                  = SubSeq(padded(job.text, FieldWidths[i]), 1, FieldWidths[i])

\* What dmr_homebrew_send, the login and the closing write, and what
\* dmr_homebrew_parse_dmrd takes a packet's frame for.  That the last digit of the
\* repeater's identifier is lost disagrees with "hex encoded" in raw.h:71 and
\* raw.rst:104.
FramesReadBack == PacketsReadBack /\ FramesInPlace
=============================================================================
