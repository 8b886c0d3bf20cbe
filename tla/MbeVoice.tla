----------------------------- MODULE MbeVoice ------------------------------
(***************************************************************************)
(* What the vocoder plays for a stream of voice frames (src/mbelib:        *)
(* mbe_processAmbe2450Dataf, mbe_processImbe4400Dataf and mbelib.c).       *)
(* Damaged frames are concealed by repeating the last good one, at most    *)
(* three times in a row, and then muted.  Three sets of parameters are     *)
(* copied around: cur_mp, prev_mp, from which the next frame is predicted, *)
(* and prev_mp_enhanced, from which the synthesis fades over.              *)
(*                                                                         *)
(* An amplitude is the number of the frame it was decoded from, 0 for      *)
(* silence, and how often it was enhanced; its value is left out.  The     *)
(* arrays have 57 bands in the code and MaxBand + 1 here.                  *)
(***************************************************************************)
EXTENDS Integers, FiniteSets, FiniteSetsExt

CONSTANTS
    Pitches,        \* the numbers of bands that a frame may have
    InitialBands,   \* the number of bands after mbe_initMbeParms
    MaxBand,
    MaxVoice        \* bound: frames

ASSUME MbeVoiceAssumption ==
    /\ MaxBand \in Nat /\ MaxVoice \in Nat
    /\ Pitches \subseteq 1 .. MaxBand
    /\ InitialBands \in 1 .. MaxBand

VARIABLES
    codec,      \* "ambe" or "imbe"
    cur_mp, prev_mp, prev_mp_enhanced,
    heard,      \* the amplitudes, by band, of the two frames last synthesized from
    predicted,  \* history: the frames the last prediction read, and the frame it is of
    good,       \* history: the numbers of the frames that were not damaged
    damaged,    \* history: damaged frames since the last one that was not
    frames      \* history: frames so far

voiceVars ==
    <<codec, cur_mp, prev_mp, prev_mp_enhanced, heard, predicted, good, damaged, frames>>

VoiceBands == 0 .. MaxBand
Silent == [from |-> 0, enhanced |-> 0]
NoSpeech == [b \in {} |-> {}]

-----------------------------------------------------------------------------
(* mbelib.c                                                                *)

\* mbe_moveMbeParms copies all of the parameters.
mbe_moveMbeParms(from) == from

\* Mutant: the count of repetitions starts again.
mbe_useLastMbeParms_uncounted(prev) == [prev EXCEPT !.repeat = 0]

\* mbe_useLastMbeParms: the band 0 that it clears is copied with the others.
mbe_useLastMbeParms(prev) == prev

\* mbe_initMbeParms.
InitialParms ==
    [L |-> InitialBands, repeat |-> 0, frame |-> 0,
     Ml |-> [b \in VoiceBands |-> Silent], log2Ml |-> [b \in VoiceBands |-> 0]]

mbe_spectralAmpEnhance(mp) ==
    [mp EXCEPT !.Ml = [b \in VoiceBands |->
        IF b \in 1 .. mp.L /\ mp.Ml[b].from # 0
        THEN [mp.Ml[b] EXCEPT !.enhanced = @ + 1] ELSE mp.Ml[b]]]

\* Equations 128 and 129: the bands that the other frame has more are silent.
Faded(mp, L) ==
    [mp EXCEPT !.Ml = [b \in VoiceBands |-> IF b \in mp.L + 1 .. L THEN Silent ELSE mp.Ml[b]]]

\* mbe_synthesizeSpeechf fades from prev, the enhanced one, to cur over the
\* bands that either has: the two frames as they are after it, and the sound.
mbe_synthesizeSpeechf(cur, prev) ==
    LET c == Faded(cur, prev.L)
        p == Faded(prev, cur.L)
    IN [cur |-> c, prev |-> p,
        sound |-> [b \in 1 .. Max({cur.L, prev.L}) |->
            {[frame |-> c.frame, band |-> c.Ml[b]], [frame |-> p.frame, band |-> p.Ml[b]]}]]

-----------------------------------------------------------------------------
(* The prediction, which is the same in the three decoders.                *)

\* "fix for when L > L(-1)".
Extended(prev, L) ==
    [prev EXCEPT
        !.Ml = [b \in VoiceBands |-> IF b \in prev.L + 1 .. L THEN prev.Ml[prev.L] ELSE @[b]],
        !.log2Ml = [b \in VoiceBands |-> IF b \in prev.L + 1 .. L THEN prev.log2Ml[prev.L] ELSE @[b]]]

\* The AMBE decoders give band 0 the value of band 1.
WithBand0(prev) ==
    IF codec = "imbe" THEN prev
    ELSE [prev EXCEPT !.Ml[0] = prev.Ml[1], !.log2Ml[0] = prev.log2Ml[1]]

\* The bands of the previous frame from which band l of the new one is
\* interpolated with a weight above zero, intkl and the one after it.  (In
\* the code's single precision the last product may exceed prev.L by one
\* unit in the last place, which the model leaves out.)
Interpolated(prevL, L, l) ==
    LET intkl == (prevL * l) \div L
    IN {intkl} \cup (IF (prevL * l) % L = 0 THEN {} ELSE {intkl + 1})

\* mbe_decodeAmbe2450Parms, mbe_decodeAmbe2400Parms and mbe_decodeImbe4400Parms
\* for a frame of L bands: the bands above L keep what cur_mp had.  (IMBE has
\* the constant 0 in band 0.)
DecodeParms(L) ==
    LET prev == WithBand0(Extended(prev_mp, L))
        n == frames + 1
    IN [prev |-> prev,
        cur |-> [L |-> L, repeat |-> prev_mp.repeat, frame |-> n,
                 Ml |-> [b \in VoiceBands |->
                    IF b \in 1 .. L THEN [from |-> n, enhanced |-> 0] ELSE cur_mp.Ml[b]],
                 log2Ml |-> [b \in VoiceBands |-> IF b \in 1 .. L THEN n ELSE cur_mp.log2Ml[b]]],
        read |-> {prev.log2Ml[b] : b \in (UNION {Interpolated(prev.L, L, l) : l \in 1 .. L})
                                         \ (IF codec = "imbe" THEN {0} ELSE {})}]

-----------------------------------------------------------------------------
\* The frame is kept, enhanced and synthesized.
Play(cur) ==
    LET s == mbe_synthesizeSpeechf(mbe_spectralAmpEnhance(cur), prev_mp_enhanced)
    IN /\ cur_mp' = s.cur
       /\ prev_mp' = mbe_moveMbeParms(cur)
       /\ prev_mp_enhanced' = mbe_moveMbeParms(s.cur)
       /\ heard' = s.sound

\* mbe_synthesizeSilencef and mbe_initMbeParms.
Mute ==
    /\ cur_mp' = InitialParms /\ prev_mp' = InitialParms /\ prev_mp_enhanced' = InitialParms
    /\ heard' = NoSpeech

\* A frame of L bands, of which the error correction repaired few bits.
GoodFrame(L) ==
    LET d == DecodeParms(L)
    IN /\ Play([d.cur EXCEPT !.repeat = 0])
       /\ predicted' = [of |-> prev_mp.frame, read |-> d.read]
       /\ good' = good \cup {frames + 1}
       /\ damaged' = 0

\* The last frame again, or silence when it was repeated three times.
Repeat(prev) ==
    LET cur == [mbe_useLastMbeParms(prev) EXCEPT !.repeat = @ + 1]
    IN /\ IF cur.repeat <= 3 THEN Play(cur) ELSE Mute
       /\ damaged' = damaged + 1
       /\ UNCHANGED good

\* errs2 is above 3 (AMBE) or 5 (IMBE): the frame is decoded all the same,
\* which extends prev_mp, and then the last one takes its place.
DamagedFrame(L) ==
    LET d == DecodeParms(L)
    IN /\ Repeat(d.prev)
       /\ predicted' = [of |-> prev_mp.frame, read |-> d.read]

\* An IMBE frame whose pitch is invalid: nothing is decoded.
InvalidFrame ==
    /\ codec = "imbe"
    /\ Repeat(prev_mp)
    /\ UNCHANGED predicted

\* An AMBE frame whose pitch says erasure or tone.
ErasureFrame ==
    /\ codec = "ambe"
    /\ Mute
    /\ damaged' = 0
    /\ UNCHANGED <<predicted, good>>

VoiceInit ==
    /\ codec \in {"ambe", "imbe"}
    /\ cur_mp = InitialParms /\ prev_mp = InitialParms /\ prev_mp_enhanced = InitialParms
    /\ heard = NoSpeech
    /\ predicted = [of |-> 0, read |-> {}]
    /\ good = {} /\ damaged = 0 /\ frames = 0

VoiceNext ==
    /\ frames < MaxVoice
    /\ frames' = frames + 1
    /\ UNCHANGED codec
    /\ \/ \E L \in Pitches : GoodFrame(L) \/ DamagedFrame(L)
       \/ InvalidFrame
       \/ ErasureFrame

-----------------------------------------------------------------------------
(***************************************************************************)
(* Whatever lengths the frames have and however they alternate with        *)
(* damaged ones, what is played in a band belongs to the frame that is     *)
(* played, or is silence: never an amplitude that an older, longer frame   *)
(* left in the arrays.  And it was enhanced exactly once, also when the    *)
(* frame is repeated: the enhanced amplitudes never feed back.             *)
(***************************************************************************)
NoStaleBands ==
    \A b \in DOMAIN heard : \A s \in heard[b] :
        s.band = Silent \/ s.band = [from |-> s.frame, enhanced |-> 1]

(***************************************************************************)
(* Nothing of a damaged frame is ever played, and no frame is played on    *)
(* through more than three damaged ones: from the fourth on there is       *)
(* silence, although the muting itself resets the count of repetitions.    *)
(***************************************************************************)
ConcealmentEnds ==
    \A b \in DOMAIN heard : \A s \in heard[b] :
        /\ s.band.from \in good \cup {0}
        /\ damaged > 3 => s.band = Silent

(***************************************************************************)
(* A frame is predicted from the frame kept before it and from no other,   *)
(* although the two may have different numbers of bands and a damaged      *)
(* frame in between has already written to the kept one.                   *)
(***************************************************************************)
PredictedFromKept == predicted.read \subseteq {predicted.of}

(***************************************************************************)
(* Whatever the sequence of good and damaged frames of different lengths:  *)
(* what is heard and what is predicted comes from the frame it should, and *)
(* a stream of damaged frames falls silent (mbe_processAmbe2450Dataf).     *)
(***************************************************************************)
RightFrameHeard == NoStaleBands /\ ConcealmentEnds /\ PredictedFromKept
=============================================================================
