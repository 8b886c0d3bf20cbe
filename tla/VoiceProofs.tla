---------------------------- MODULE VoiceProofs ----------------------------
(***************************************************************************)
(* Proofs about what the vocoder plays (module MbeVoice), for any number   *)
(* of bands, any lengths of the frames and any order of good, damaged,     *)
(* invalid and erased ones.                                                *)
(***************************************************************************)
EXTENDS MbeVoice, TLAPS

\* The vocoder alone, without the error correction it is checked beside.
VoiceSpec == VoiceInit /\ [][VoiceNext]_voiceVars

Amplitudes == [from : Nat, enhanced : Nat]

Parms == [L : 1 .. MaxBand, repeat : Nat, frame : Nat,
          Ml : [VoiceBands -> Amplitudes], log2Ml : [VoiceBands -> Nat]]

\* Each band that the parameters mp have is silent or belongs to the frame that
\* they are of, and was enhanced e times; the bands above are left open.
OwnBands(mp, e) ==
    \A b \in 1 .. mp.L :
        \/ mp.Ml[b] = Silent
        \/ mp.frame # 0 /\ mp.Ml[b] = [from |-> mp.frame, enhanced |-> e]

\* Bands may be predicted from the parameters mp.
OwnLogs(mp) == \A b \in 1 .. mp.L : mp.log2Ml[b] = mp.frame

\* A stream of damaged frames is counted by the repetitions, until it is muted:
\* from then on nothing is left to repeat.
Counted ==
    \/ damaged = prev_mp.repeat
    \/ prev_mp.frame = 0 /\ prev_mp_enhanced.frame = 0

\* RightFrameHeard is about what was played; what will be played next is in the
\* two kept sets of parameters, so they must be of good frames, hold no band of
\* another frame, and have been enhanced never and once.
VoiceInv ==
    /\ cur_mp \in Parms /\ prev_mp \in Parms /\ prev_mp_enhanced \in Parms
    /\ frames \in Nat /\ damaged \in Nat
    /\ OwnBands(prev_mp, 0) /\ OwnBands(prev_mp_enhanced, 1)
    /\ {prev_mp.frame, prev_mp_enhanced.frame} \subseteq good \cup {0}
    /\ OwnLogs(prev_mp)
    /\ prev_mp.repeat \in 0 .. 3
    /\ Counted
    /\ RightFrameHeard
----------------------------------------------------------------------------
(***************************************************************************)
(* The steps of the synthesis on a set of parameters.                      *)
(***************************************************************************)
\* The larger of two counts of bands is one of them.
LEMMA MaxOfTwo ==
    ASSUME NEW a \in Nat, NEW b \in Nat
    PROVE  Max({a, b}) = a \/ Max({a, b}) = b
  <1>1. \E x \in {a, b} : \A y \in {a, b} : x >= y
    OBVIOUS
  <1> QED
    BY <1>1 DEF Max

\* mbe_initMbeParms leaves nothing to repeat or to predict from.
LEMMA InitialSound ==
    ASSUME NEW e
    PROVE  /\ InitialParms \in Parms /\ OwnBands(InitialParms, e) /\ OwnLogs(InitialParms)
           /\ InitialParms.frame = 0 /\ InitialParms.repeat = 0
  <1>1. \A b \in 1 .. InitialBands : b \in VoiceBands
    BY MbeVoiceAssumption DEF VoiceBands
  <1>2. InitialParms \in Parms
    BY MbeVoiceAssumption DEF InitialParms, Parms, Silent, Amplitudes
  <1> QED
    BY <1>1, <1>2 DEF InitialParms, OwnBands, OwnLogs

\* mbe_spectralAmpEnhance enhances every band of the frame once.
LEMMA EnhancedOnce ==
    ASSUME NEW mp \in Parms, OwnBands(mp, 0), NEW m, m = mbe_spectralAmpEnhance(mp)
    PROVE  /\ m \in Parms /\ m.L = mp.L /\ m.frame = mp.frame /\ OwnBands(m, 1)
  <1> DEFINE A(b) == IF b \in 1 .. mp.L /\ mp.Ml[b].from # 0
                     THEN [mp.Ml[b] EXCEPT !.enhanced = @ + 1] ELSE mp.Ml[b]
             f == [b \in VoiceBands |-> A(b)]
  <1>1. /\ mp.L \in 1 .. MaxBand /\ mp.frame \in Nat /\ mp.repeat \in Nat
        /\ mp.Ml \in [VoiceBands -> Amplitudes] /\ mp.log2Ml \in [VoiceBands -> Nat]
    BY DEF Parms
  <1>2. m = [mp EXCEPT !.Ml = f]
    BY DEF mbe_spectralAmpEnhance
  <1>3. \A b \in VoiceBands : A(b) \in Amplitudes
    <2> TAKE b \in VoiceBands
    <2>1. mp.Ml[b] \in Amplitudes
      BY <1>1
    <2>2. [mp.Ml[b] EXCEPT !.enhanced = @ + 1] \in Amplitudes
      BY <2>1 DEF Amplitudes
    <2> QED
      BY <2>1, <2>2
  <1>4. \A b \in 1 .. mp.L : \/ A(b) = Silent
                             \/ mp.frame # 0 /\ A(b) = [from |-> mp.frame, enhanced |-> 1]
    <2> TAKE b \in 1 .. mp.L
    <2>1. CASE mp.Ml[b] = Silent
      BY <2>1 DEF Silent
    <2>2. CASE mp.frame # 0 /\ mp.Ml[b] = [from |-> mp.frame, enhanced |-> 0]
      <3>1. A(b) = [[from |-> mp.frame, enhanced |-> 0] EXCEPT !.enhanced = @ + 1]
        BY <2>2
      <3> QED
        BY <2>2, <3>1
    <2> QED
      BY <2>1, <2>2 DEF OwnBands
  <1>5. \A b \in 1 .. mp.L : b \in VoiceBands
    BY <1>1, MbeVoiceAssumption DEF VoiceBands
  <1> HIDE DEF A
  <1>6. f \in [VoiceBands -> Amplitudes]
    BY <1>3
  <1>7. \A b \in 1 .. mp.L : f[b] = A(b)
    BY <1>5
  <1> HIDE DEF f
  <1>8. m \in Parms /\ m.L = mp.L /\ m.frame = mp.frame /\ m.Ml = f
    BY <1>1, <1>2, <1>6 DEF Parms
  <1> QED
    BY <1>4, <1>7, <1>8 DEF OwnBands

\* Equations 128 and 129 silence the bands that the frame does not have.
LEMMA FadedSilent ==
    ASSUME NEW mp \in Parms, OwnBands(mp, 1), NEW L \in 1 .. MaxBand, NEW m, m = Faded(mp, L)
    PROVE  /\ m \in Parms /\ m.L = mp.L /\ m.frame = mp.frame /\ OwnBands(m, 1)
           /\ \A b \in 1 .. L : b > mp.L => m.Ml[b] = Silent
  <1> DEFINE A(b) == IF b \in mp.L + 1 .. L THEN Silent ELSE mp.Ml[b]
             f == [b \in VoiceBands |-> A(b)]
  <1>1. /\ mp.L \in 1 .. MaxBand /\ mp.frame \in Nat /\ mp.repeat \in Nat
        /\ mp.Ml \in [VoiceBands -> Amplitudes] /\ mp.log2Ml \in [VoiceBands -> Nat]
    BY DEF Parms
  <1>2. m = [mp EXCEPT !.Ml = f]
    BY DEF Faded
  <1>3. \A b \in VoiceBands : A(b) \in Amplitudes
    BY <1>1 DEF Silent, Amplitudes
  <1>4. /\ \A b \in 1 .. mp.L : b \in VoiceBands /\ A(b) = mp.Ml[b]
        /\ \A b \in 1 .. L : b \in VoiceBands /\ (b > mp.L => A(b) = Silent)
    BY <1>1, MbeVoiceAssumption DEF VoiceBands
  <1> HIDE DEF A
  <1>5. f \in [VoiceBands -> Amplitudes]
    BY <1>3
  <1>6. /\ \A b \in 1 .. mp.L : f[b] = mp.Ml[b]
        /\ \A b \in 1 .. L : b > mp.L => f[b] = Silent
    BY <1>4
  <1> HIDE DEF f
  <1>7. m \in Parms /\ m.L = mp.L /\ m.frame = mp.frame /\ m.Ml = f
    BY <1>1, <1>2, <1>5 DEF Parms
  <1> QED
    BY <1>6, <1>7 DEF OwnBands

\* In the sound h every band is silent or belongs to its frame, one of F.
OwnSound(h, F) ==
    \A b \in DOMAIN h : \A s \in h[b] :
        \/ s.band = Silent
        \/ s.frame \in F \ {0} /\ s.band = [from |-> s.frame, enhanced |-> 1]

\* Playing cur keeps it, fades to it, and is heard as it alone and the frame
\* played before it.
LEMMA PlaySound ==
    ASSUME NEW cur \in Parms, OwnBands(cur, 0), Play(cur),
           prev_mp_enhanced \in Parms, OwnBands(prev_mp_enhanced, 1)
    PROVE  /\ cur_mp' \in Parms /\ prev_mp' = cur /\ prev_mp_enhanced' \in Parms
           /\ OwnBands(prev_mp_enhanced', 1) /\ prev_mp_enhanced'.frame = cur.frame
           /\ OwnSound(heard', {cur.frame, prev_mp_enhanced.frame})
  <1> DEFINE prev == prev_mp_enhanced
             m == mbe_spectralAmpEnhance(cur)
             c == Faded(m, prev.L)
             p == Faded(prev, m.L)
             top == Max({m.L, prev.L})
  <1>1. m \in Parms /\ m.L = cur.L /\ m.frame = cur.frame /\ OwnBands(m, 1)
    BY EnhancedOnce
  <1>2. m.L \in 1 .. MaxBand /\ prev.L \in 1 .. MaxBand
    BY <1>1 DEF Parms
  <1>3. /\ cur_mp' = c /\ prev_mp' = cur /\ prev_mp_enhanced' = c
        /\ heard' = [b \in 1 .. top |->
              {[frame |-> c.frame, band |-> c.Ml[b]], [frame |-> p.frame, band |-> p.Ml[b]]}]
    BY DEF Play, mbe_synthesizeSpeechf, mbe_moveMbeParms
  <1> HIDE DEF m
  <1>4. /\ c \in Parms /\ c.L = m.L /\ c.frame = cur.frame /\ OwnBands(c, 1)
        /\ \A b \in 1 .. prev.L : b > m.L => c.Ml[b] = Silent
    <2>1. m \in Parms /\ OwnBands(m, 1) /\ prev.L \in 1 .. MaxBand
      BY <1>1, <1>2
    <2>2. /\ c \in Parms /\ c.L = m.L /\ c.frame = m.frame /\ OwnBands(c, 1)
          /\ \A b \in 1 .. prev.L : b > m.L => c.Ml[b] = Silent
      <3>1. c = Faded(m, prev.L)
        OBVIOUS
      <3> HIDE DEF c, p, top, prev
      <3> QED
        BY <2>1, <3>1, FadedSilent
    <2> QED
      BY <1>1, <2>2, Zenon
  <1>5. /\ p.L = prev.L /\ p.frame = prev.frame /\ OwnBands(p, 1)
        /\ \A b \in 1 .. m.L : b > prev.L => p.Ml[b] = Silent
    BY <1>2, FadedSilent
  <1>6. top = m.L \/ top = prev.L
    BY <1>2, MaxOfTwo
  <1> HIDE DEF c, p, top
  <1>7. ASSUME NEW b \in 1 .. top
        PROVE  /\ \/ c.Ml[b] = Silent
                  \/ c.frame # 0 /\ c.Ml[b] = [from |-> c.frame, enhanced |-> 1]
               /\ \/ p.Ml[b] = Silent
                  \/ p.frame # 0 /\ p.Ml[b] = [from |-> p.frame, enhanced |-> 1]
    <2>1. /\ b \in 1 .. m.L \/ (b \in 1 .. prev.L /\ b > m.L)
          /\ b \in 1 .. prev.L \/ (b \in 1 .. m.L /\ b > prev.L)
      BY <1>2, <1>6
    <2> QED
      BY <1>4, <1>5, <2>1 DEF OwnBands
  <1>8. ASSUME NEW b \in DOMAIN heard', NEW s \in heard'[b]
        PROVE  \/ s.band = Silent
               \/ /\ s.frame \in {cur.frame, prev.frame} \ {0}
                  /\ s.band = [from |-> s.frame, enhanced |-> 1]
    <2>1. b \in 1 .. top
      BY <1>3
    <2>2. CASE s = [frame |-> c.frame, band |-> c.Ml[b]]
      BY <1>4, <1>7, <2>1, <2>2
    <2>3. CASE s = [frame |-> p.frame, band |-> p.Ml[b]]
      BY <1>5, <1>7, <2>1, <2>3
    <2> QED
      BY <1>3, <2>1, <2>2, <2>3
  <1> QED
    BY <1>3, <1>4, <1>8 DEF OwnSound
----------------------------------------------------------------------------
(***************************************************************************)
(* The prediction of a frame from the one kept before it.                  *)
(***************************************************************************)
\* The bands that a prediction interpolates between exist in the kept frame,
\* whatever the two lengths are.
LEMMA InterpolatedBands ==
    ASSUME NEW P \in Nat \ {0}, NEW L \in Nat \ {0}, NEW l \in 1 .. L
    PROVE  Interpolated(P, L, l) \subseteq 0 .. P
  <1> DEFINE n == P * l
             q == n \div L
             r == n % L
  <1>1. n \in Nat /\ n <= P * L
    <2>1. L - l \in Nat
      OBVIOUS
    <2>2. P * (L - l) \in Nat
      BY <2>1
    <2>3. P * L = P * l + P * (L - l)
      BY <2>1
    <2>4. P * l \in Nat /\ P * L \in Nat
      OBVIOUS
    <2> QED
      BY <2>2, <2>3, <2>4
  <1> HIDE DEF n
  <1>2. q \in Nat /\ r \in 0 .. L - 1 /\ n = L * q + r
    BY <1>1
  <1> HIDE DEF q, r
  <1>3. ASSUME q >= P + 1 PROVE FALSE
    <2>1. L * q >= L * (P + 1)
      BY <1>2, <1>3
    <2>2. L * (P + 1) = P * L + L
      OBVIOUS
    <2>3. L * q \in Nat /\ P * L \in Nat
      BY <1>2
    <2> QED
      BY <1>1, <1>2, <2>1, <2>2, <2>3
  <1>4. ASSUME q = P, r # 0 PROVE FALSE
    <2>1. L * q = P * L /\ P * L \in Nat
      BY <1>4
    <2> QED
      BY <1>1, <1>2, <1>4, <2>1
  <1>5. q \in 0 .. P /\ (r # 0 => q + 1 \in 0 .. P)
    BY <1>2, <1>3, <1>4
  <1> QED
    BY <1>5 DEF Interpolated, n, q, r

\* A decoder changes the kept frame above its bands, and in band 0, only.
LEMMA KeptFrame ==
    ASSUME NEW prev \in Parms, OwnBands(prev, 0), OwnLogs(prev), NEW L \in 1 .. MaxBand,
           NEW d, d = WithBand0(Extended(prev, L))
    PROVE  /\ d \in Parms /\ d.L = prev.L /\ d.frame = prev.frame /\ d.repeat = prev.repeat
           /\ OwnBands(d, 0) /\ OwnLogs(d)
           /\ codec # "imbe" => d.log2Ml[0] = prev.frame
  <1> DEFINE x == Extended(prev, L)
  <1>1. /\ prev.L \in 1 .. MaxBand /\ prev.frame \in Nat /\ prev.repeat \in Nat
        /\ prev.Ml \in [VoiceBands -> Amplitudes] /\ prev.log2Ml \in [VoiceBands -> Nat]
    BY DEF Parms
  <1>2. \A b \in 1 .. prev.L : b \in VoiceBands /\ b # 0
    BY <1>1, MbeVoiceAssumption DEF VoiceBands
  <1>3. prev.L \in VoiceBands /\ 1 \in VoiceBands /\ 1 \in 1 .. prev.L
    BY <1>1, MbeVoiceAssumption DEF VoiceBands
  <1>4. /\ x \in Parms /\ x.L = prev.L /\ x.frame = prev.frame /\ x.repeat = prev.repeat
        /\ \A b \in 1 .. prev.L : x.Ml[b] = prev.Ml[b] /\ x.log2Ml[b] = prev.log2Ml[b]
    <2> DEFINE f == [b \in VoiceBands |-> IF b \in prev.L + 1 .. L THEN prev.Ml[prev.L] ELSE prev.Ml[b]]
               g == [b \in VoiceBands |->
                        IF b \in prev.L + 1 .. L THEN prev.log2Ml[prev.L] ELSE prev.log2Ml[b]]
    <2>1. x = [prev EXCEPT !.Ml = f, !.log2Ml = g]
      BY DEF Extended
    <2>2. f \in [VoiceBands -> Amplitudes] /\ g \in [VoiceBands -> Nat]
      BY <1>1, <1>3
    <2>3. \A b \in 1 .. prev.L : f[b] = prev.Ml[b] /\ g[b] = prev.log2Ml[b]
      BY <1>1, <1>2
    <2> HIDE DEF f, g, x
    <2>4. x = [L |-> prev.L, repeat |-> prev.repeat, frame |-> prev.frame, Ml |-> f, log2Ml |-> g]
      BY <2>1 DEF Parms
    <2> QED
      BY <1>1, <2>2, <2>3, <2>4 DEF Parms
  <1> HIDE DEF x
  <1>5. CASE codec = "imbe"
    BY <1>4, <1>5 DEF WithBand0, x, OwnBands, OwnLogs
  <1>6. CASE codec # "imbe"
    <2> DEFINE f == [x.Ml EXCEPT ![0] = x.Ml[1]]
               g == [x.log2Ml EXCEPT ![0] = x.log2Ml[1]]
    <2>1. x.Ml \in [VoiceBands -> Amplitudes] /\ x.log2Ml \in [VoiceBands -> Nat]
      BY <1>4 DEF Parms
    <2>2. f \in [VoiceBands -> Amplitudes] /\ g \in [VoiceBands -> Nat]
      BY <1>3, <2>1
    <2>3. /\ \A b \in 1 .. prev.L : f[b] = prev.Ml[b] /\ g[b] = prev.log2Ml[b]
          /\ g[0] = prev.log2Ml[1]
      <3>1. 0 \in VoiceBands
        BY MbeVoiceAssumption DEF VoiceBands
      <3> QED
        BY <1>2, <1>3, <1>4, <2>1, <3>1
    <2>4. d = [x EXCEPT !.Ml = f, !.log2Ml = g]
      BY <1>6, <2>1 DEF WithBand0, x
    <2> HIDE DEF f, g
    <2>5. d = [L |-> prev.L, repeat |-> prev.repeat, frame |-> prev.frame, Ml |-> f, log2Ml |-> g]
      BY <1>4, <2>4 DEF Parms
    <2>6. d \in Parms
      BY <1>1, <2>2, <2>5 DEF Parms
    <2> QED
      BY <1>3, <2>3, <2>5, <2>6 DEF OwnBands, OwnLogs
  <1> QED
    BY <1>5, <1>6

\* A frame that is decoded is predicted from the kept one only; its own bands
\* are its own, whatever cur_mp had.
LEMMA Decoded ==
    ASSUME cur_mp \in Parms, prev_mp \in Parms, OwnBands(prev_mp, 0), OwnLogs(prev_mp),
           frames \in Nat, NEW L \in 1 .. MaxBand, NEW d, d = DecodeParms(L)
    PROVE  /\ d.prev \in Parms /\ d.prev.frame = prev_mp.frame /\ d.prev.repeat = prev_mp.repeat
           /\ OwnBands(d.prev, 0) /\ OwnLogs(d.prev)
           /\ d.cur \in Parms /\ d.cur.frame = frames + 1
           /\ OwnBands(d.cur, 0) /\ OwnLogs(d.cur)
           /\ d.read \subseteq {prev_mp.frame}
  <1> DEFINE prev == WithBand0(Extended(prev_mp, L))
             f == [b \in VoiceBands |->
                      IF b \in 1 .. L THEN [from |-> frames + 1, enhanced |-> 0] ELSE cur_mp.Ml[b]]
             g == [b \in VoiceBands |-> IF b \in 1 .. L THEN frames + 1 ELSE cur_mp.log2Ml[b]]
             unused == IF codec = "imbe" THEN {0} ELSE {}
             bands == (UNION {Interpolated(prev.L, L, l) : l \in 1 .. L}) \ unused
  <1>1. /\ prev \in Parms /\ prev.L = prev_mp.L /\ prev.frame = prev_mp.frame
        /\ prev.repeat = prev_mp.repeat /\ OwnBands(prev, 0) /\ OwnLogs(prev)
        /\ codec # "imbe" => prev.log2Ml[0] = prev_mp.frame
    BY KeptFrame
  <1>2. /\ d.prev = prev /\ d.read = {prev.log2Ml[b] : b \in bands}
        /\ d.cur = [L |-> L, repeat |-> prev_mp.repeat, frame |-> frames + 1, Ml |-> f, log2Ml |-> g]
    BY DEF DecodeParms
  <1>3. /\ cur_mp.Ml \in [VoiceBands -> Amplitudes] /\ cur_mp.log2Ml \in [VoiceBands -> Nat]
        /\ prev_mp.repeat \in Nat /\ prev_mp.L \in 1 .. MaxBand
    BY DEF Parms
  <1>4. f \in [VoiceBands -> Amplitudes] /\ g \in [VoiceBands -> Nat]
    BY <1>3 DEF Amplitudes
  <1>5. \A b \in 1 .. L : f[b] = [from |-> frames + 1, enhanced |-> 0] /\ g[b] = frames + 1
    BY MbeVoiceAssumption DEF VoiceBands
  <1>6. bands \subseteq 0 .. prev.L /\ (codec = "imbe" => 0 \notin bands)
    <2>1. prev.L \in Nat \ {0} /\ L \in Nat \ {0}
      BY <1>1, <1>3, MbeVoiceAssumption
    <2>2. \A l \in 1 .. L : Interpolated(prev.L, L, l) \subseteq 0 .. prev.L
      BY <2>1, InterpolatedBands
    <2>3. codec = "imbe" => 0 \in unused
      OBVIOUS
    <2> HIDE DEF prev, unused
    <2>4. ASSUME NEW b \in bands PROVE b \in 0 .. prev.L /\ (codec = "imbe" => b # 0)
      <3>1. b \in UNION {Interpolated(prev.L, L, l) : l \in 1 .. L}
        OBVIOUS
      <3>2. b \notin unused
        OBVIOUS
      <3>3. PICK l \in 1 .. L : b \in Interpolated(prev.L, L, l)
        BY <3>1
      <3> QED
        BY <2>2, <2>3, <3>2, <3>3
    <2> QED
      BY <2>4, Zenon
  <1> HIDE DEF prev, f, g, bands
  <1>7. d.read \subseteq {prev_mp.frame}
    <2> SUFFICES ASSUME NEW b \in bands PROVE prev.log2Ml[b] = prev_mp.frame
      BY <1>2
    <2>1. CASE b = 0
      BY <1>1, <1>6, <2>1
    <2>2. CASE b # 0
      <3>1. b \in 1 .. prev.L
        BY <1>1, <1>3, <1>6, <2>2
      <3> QED
        BY <1>1, <3>1 DEF OwnLogs
    <2> QED
      BY <2>1, <2>2
  <1>8. d.cur \in Parms
    BY <1>2, <1>3, <1>4 DEF Parms
  <1>9. OwnBands(d.cur, 0) /\ OwnLogs(d.cur)
    <2>1. d.cur.L = L /\ d.cur.frame = frames + 1 /\ d.cur.Ml = f /\ d.cur.log2Ml = g
      BY <1>2
    <2>2. frames + 1 # 0
      OBVIOUS
    <2> QED
      BY <1>5, <2>1, <2>2 DEF OwnBands, OwnLogs
  <1> QED
    BY <1>1, <1>2, <1>7, <1>8, <1>9
----------------------------------------------------------------------------
(***************************************************************************)
(* The invariant.                                                          *)
(***************************************************************************)
\* What a step leaves for the next one, and what is heard, if it plays cur.
LEMMA PlayKeepsInv ==
    ASSUME VoiceInv, NEW cur \in Parms, OwnBands(cur, 0), OwnLogs(cur), Play(cur),
           cur.repeat \in 0 .. 3, frames' \in Nat, damaged' \in Nat,
           {cur.frame, prev_mp_enhanced.frame} \subseteq good' \cup {0},
           damaged' = cur.repeat \/ (cur.frame = 0 /\ prev_mp_enhanced.frame = 0),
           predicted'.read \subseteq {predicted'.of}
    PROVE  VoiceInv'
  <1>1. prev_mp_enhanced \in Parms /\ OwnBands(prev_mp_enhanced, 1)
    BY DEF VoiceInv
  <1>2. /\ cur_mp' \in Parms /\ prev_mp' = cur /\ prev_mp_enhanced' \in Parms
        /\ OwnBands(prev_mp_enhanced', 1) /\ prev_mp_enhanced'.frame = cur.frame
        /\ OwnSound(heard', {cur.frame, prev_mp_enhanced.frame})
    BY <1>1, PlaySound
  <1>3. Counted'
    BY <1>2 DEF Counted
  <1>4. RightFrameHeard'
    <2>1. NoStaleBands'
      BY <1>2 DEF NoStaleBands, OwnSound
    <2>2. ConcealmentEnds'
      <3> SUFFICES ASSUME NEW b \in DOMAIN heard', NEW s \in heard'[b]
                   PROVE  s.band.from \in good' \cup {0} /\ (damaged' > 3 => s.band = Silent)
        BY DEF ConcealmentEnds
      <3>1. CASE s.band = Silent
        BY <3>1 DEF Silent
      <3>2. CASE /\ s.frame \in {cur.frame, prev_mp_enhanced.frame} \ {0}
                 /\ s.band = [from |-> s.frame, enhanced |-> 1]
        <4>1. s.band.from = s.frame
          BY <3>2
        <4>2. damaged' <= 3
          BY <3>2
        <4> QED
          BY <3>2, <4>1, <4>2
      <3> QED
        BY <1>2, <3>1, <3>2 DEF OwnSound
    <2>3. PredictedFromKept'
      BY DEF PredictedFromKept
    <2> QED
      BY <2>1, <2>2, <2>3 DEF RightFrameHeard
  <1>5. OwnBands(prev_mp', 0) /\ OwnLogs(prev_mp') /\ prev_mp' \in Parms /\ prev_mp'.repeat \in 0 .. 3
    BY <1>2
  <1>6. {prev_mp'.frame, prev_mp_enhanced'.frame} \subseteq good' \cup {0}
    BY <1>2
  <1> QED
    BY <1>2, <1>3, <1>4, <1>5, <1>6 DEF VoiceInv

\* Silence leaves nothing behind.
LEMMA MuteKeepsInv ==
    ASSUME VoiceInv, Mute, frames' \in Nat, damaged' \in Nat,
           predicted'.read \subseteq {predicted'.of}
    PROVE  VoiceInv'
  <1>1. /\ cur_mp' = InitialParms /\ prev_mp' = InitialParms /\ prev_mp_enhanced' = InitialParms
        /\ heard' = NoSpeech
    BY DEF Mute
  <1>2. RightFrameHeard'
    BY <1>1 DEF RightFrameHeard, NoStaleBands, ConcealmentEnds, PredictedFromKept, NoSpeech
  <1>3. Counted'
    BY <1>1, InitialSound DEF Counted
  <1>4. /\ OwnBands(prev_mp', 0) /\ OwnBands(prev_mp_enhanced', 1) /\ OwnLogs(prev_mp')
        /\ prev_mp' \in Parms /\ prev_mp'.frame = 0 /\ prev_mp'.repeat = 0
    BY <1>1, InitialSound
  <1> QED
    BY <1>1, <1>2, <1>3, <1>4 DEF VoiceInv

\* Repeating the kept frame, whose bands the decoder may have extended.
LEMMA RepeatKeepsInv ==
    ASSUME VoiceInv, NEW prev \in Parms, OwnBands(prev, 0), OwnLogs(prev),
           prev.frame = prev_mp.frame, prev.repeat = prev_mp.repeat, Repeat(prev),
           frames' \in Nat, predicted'.read \subseteq {predicted'.of}
    PROVE  VoiceInv'
  <1> DEFINE cur == [prev EXCEPT !.repeat = @ + 1]
  <1>1. /\ prev.repeat \in 0 .. 3 /\ damaged \in Nat /\ good' = good /\ damaged' = damaged + 1
        /\ damaged = prev.repeat \/ (prev.frame = 0 /\ prev_mp_enhanced.frame = 0)
        /\ {prev.frame, prev_mp_enhanced.frame} \subseteq good \cup {0}
    BY DEF VoiceInv, Repeat, Counted
  <1>2. /\ cur \in Parms /\ cur.frame = prev.frame /\ cur.repeat = prev.repeat + 1
        /\ OwnBands(cur, 0) /\ OwnLogs(cur)
    <2>1. /\ cur = [L |-> prev.L, repeat |-> prev.repeat + 1, frame |-> prev.frame,
                    Ml |-> prev.Ml, log2Ml |-> prev.log2Ml]
          /\ prev.L \in 1 .. MaxBand /\ prev.repeat \in Nat /\ prev.frame \in Nat
          /\ prev.Ml \in [VoiceBands -> Amplitudes] /\ prev.log2Ml \in [VoiceBands -> Nat]
      BY DEF Parms
    <2>2. cur \in Parms
      BY <2>1 DEF Parms
    <2> QED
      BY <2>1, <2>2 DEF OwnBands, OwnLogs
  <1>3. IF cur.repeat <= 3 THEN Play(cur) ELSE Mute
    BY DEF Repeat, mbe_useLastMbeParms
  <1> HIDE DEF cur
  <1>4. CASE cur.repeat <= 3
    <2>1. /\ cur.repeat \in 0 .. 3 /\ damaged' \in Nat /\ Play(cur)
          /\ damaged' = cur.repeat \/ (cur.frame = 0 /\ prev_mp_enhanced.frame = 0)
          /\ {cur.frame, prev_mp_enhanced.frame} \subseteq good' \cup {0}
      BY <1>1, <1>2, <1>3, <1>4
    <2> QED
      BY <1>2, <2>1, PlayKeepsInv
  <1>5. CASE ~ cur.repeat <= 3
    <2>1. Mute /\ damaged' \in Nat
      BY <1>1, <1>3, <1>5
    <2> QED
      BY <2>1, MuteKeepsInv
  <1> QED
    BY <1>4, <1>5

\* Every way of handling a frame (mbe_processAmbe2450Dataf,
\* mbe_processImbe4400Dataf) keeps the invariant.
LEMMA VoiceInvStep == VoiceInv /\ [VoiceNext]_voiceVars => VoiceInv'
  <1> SUFFICES ASSUME VoiceInv, [VoiceNext]_voiceVars PROVE VoiceInv'
    OBVIOUS
  <1>1. /\ cur_mp \in Parms /\ prev_mp \in Parms /\ OwnBands(prev_mp, 0) /\ OwnLogs(prev_mp)
        /\ frames \in Nat /\ Pitches \subseteq 1 .. MaxBand
        /\ predicted.read \subseteq {predicted.of}
    BY MbeVoiceAssumption DEF VoiceInv, RightFrameHeard, PredictedFromKept
  <1>2. CASE UNCHANGED voiceVars
    BY <1>2 DEF voiceVars, VoiceInv, Counted, RightFrameHeard, NoStaleBands, ConcealmentEnds,
       PredictedFromKept
  <1>3. CASE VoiceNext
    <2>1. frames' = frames + 1 /\ frames' \in Nat
      BY <1>1, <1>3 DEF VoiceNext
    <2>2. ASSUME NEW L \in Pitches, GoodFrame(L) PROVE VoiceInv'
      <3> DEFINE d == DecodeParms(L)
                 cur == [d.cur EXCEPT !.repeat = 0]
      <3>1. /\ Play(cur) /\ good' = good \cup {frames + 1} /\ damaged' = 0
            /\ predicted' = [of |-> prev_mp.frame, read |-> d.read]
        BY <2>2 DEF GoodFrame
      <3>2. /\ d.cur \in Parms /\ d.cur.frame = frames + 1 /\ OwnBands(d.cur, 0) /\ OwnLogs(d.cur)
            /\ d.read \subseteq {prev_mp.frame}
        BY <1>1, Decoded
      <3> HIDE DEF d
      <3>3. /\ cur \in Parms /\ cur.frame = frames + 1 /\ cur.repeat = 0
            /\ OwnBands(cur, 0) /\ OwnLogs(cur)
        <4>1. /\ cur = [L |-> d.cur.L, repeat |-> 0, frame |-> d.cur.frame,
                        Ml |-> d.cur.Ml, log2Ml |-> d.cur.log2Ml]
              /\ d.cur.L \in 1 .. MaxBand /\ d.cur.frame \in Nat
              /\ d.cur.Ml \in [VoiceBands -> Amplitudes] /\ d.cur.log2Ml \in [VoiceBands -> Nat]
          BY <3>2 DEF Parms
        <4>2. cur \in Parms
          BY <4>1 DEF Parms
        <4> QED
          BY <3>2, <4>1, <4>2 DEF OwnBands, OwnLogs
      <3> HIDE DEF cur
      <3>4. {cur.frame, prev_mp_enhanced.frame} \subseteq good' \cup {0}
        BY <3>1, <3>3 DEF VoiceInv
      <3>5. predicted'.read \subseteq {predicted'.of}
        BY <3>1, <3>2
      <3> QED
        BY <2>1, <3>1, <3>3, <3>4, <3>5, PlayKeepsInv
    <2>3. ASSUME NEW L \in Pitches, DamagedFrame(L) PROVE VoiceInv'
      <3> DEFINE d == DecodeParms(L)
      <3>1. Repeat(d.prev) /\ predicted' = [of |-> prev_mp.frame, read |-> d.read]
        BY <2>3 DEF DamagedFrame
      <3>2. /\ d.prev \in Parms /\ d.prev.frame = prev_mp.frame /\ d.prev.repeat = prev_mp.repeat
            /\ OwnBands(d.prev, 0) /\ OwnLogs(d.prev) /\ d.read \subseteq {prev_mp.frame}
        BY <1>1, Decoded
      <3> HIDE DEF d
      <3>3. predicted'.read \subseteq {predicted'.of}
        BY <3>1, <3>2
      <3> QED
        BY <2>1, <3>1, <3>2, <3>3, RepeatKeepsInv
    <2>4. CASE InvalidFrame
      BY <1>1, <2>1, <2>4, RepeatKeepsInv DEF InvalidFrame
    <2>5. CASE ErasureFrame
      BY <1>1, <2>1, <2>5, MuteKeepsInv DEF ErasureFrame
    <2> QED
      BY <1>3, <2>2, <2>3, <2>4, <2>5 DEF VoiceNext
  <1> QED
    BY <1>2, <1>3

\* Whatever frames arrive and whatever their lengths, what is heard in a band and
\* what a frame is predicted from is of the right frame, and damaged frames fall
\* silent after three repetitions (mbe_processAmbe2450Dataf).
THEOREM RightFrameIsHeard == VoiceSpec => []RightFrameHeard
  <1>1. VoiceInit => VoiceInv
    <2> SUFFICES ASSUME VoiceInit PROVE VoiceInv
      OBVIOUS
    <2>1. /\ cur_mp = InitialParms /\ prev_mp = InitialParms /\ prev_mp_enhanced = InitialParms
          /\ heard = NoSpeech /\ predicted = [of |-> 0, read |-> {}]
          /\ good = {} /\ damaged = 0 /\ frames = 0
      BY DEF VoiceInit
    <2>2. RightFrameHeard
      BY <2>1 DEF RightFrameHeard, NoStaleBands, ConcealmentEnds, PredictedFromKept, NoSpeech
    <2>3. /\ OwnBands(prev_mp, 0) /\ OwnBands(prev_mp_enhanced, 1) /\ OwnLogs(prev_mp)
          /\ prev_mp \in Parms /\ prev_mp.frame = 0 /\ prev_mp.repeat = 0
      BY <2>1, InitialSound
    <2> QED
      BY <2>1, <2>2, <2>3 DEF VoiceInv, Counted
  <1>2. VoiceInv => RightFrameHeard
    BY DEF VoiceInv
  <1> QED
    BY <1>1, <1>2, VoiceInvStep, PTL DEF VoiceSpec
=============================================================================
