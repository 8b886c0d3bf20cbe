------------------------------ MODULE MCCodec ------------------------------
(***************************************************************************)
(* The codes of packets and of voice frames for TLC.  They share no state, *)
(* so one of them is chosen and the others stay as they began.             *)
(*                                                                         *)
(* Bits 220, 251 and 206 of a burst are a data bit and the two parity bits *)
(* that make the row pass with it, 248 lies in a column that is not        *)
(* checked, 103 in the slot type, 110, 154 and 155 in sync pattern and     *)
(* embedded signalling, 130 in the sync pattern alone.  Colour code 7 with *)
(* data type 1 is a slot type that the wrong mask hits in all four bits.   *)
(***************************************************************************)
EXTENDS Burst, EmbSignalling, DataBlocks, MbeFields, MbeEcc, MbeVoice

VARIABLE part

codecVars == <<burstVars, embVars, dataUnit, decoded, voice, voiceVars, part>>

UpTo(n, S) == UNION {kSubset(k, S) : k \in 0 .. n}

TheCalls ==
    {[flco |-> 0, fid |-> 0, dst |-> 9, src |-> 2042214],
     [flco |-> 3, fid |-> 16, dst |-> 16777215, src |-> 1]}

TheSlotTypes ==
    {[color_code |-> 1, data_type |-> 1], [color_code |-> 7, data_type |-> 1],
     [color_code |-> 15, data_type |-> 9]}

TheEmbs ==
    {[color_code |-> 1, pi |-> 0, lcss |-> 1], [color_code |-> 14, pi |-> 1, lcss |-> 3]}

TheStack == {{}, 98 .. 165}
TheChannel == {220, 251, 206, 248, 103, 110, 130, 154, 155}

TheEmbLcs == {[flco |-> 0, dst |-> 11, src |-> 3105], [flco |-> 1, dst |-> 9, src |-> 2042214]}
TheHeap == {{}, MatrixCells}
TheUnset == {{}, 64 .. 71}

\* A header of every packet format that is decoded, and one of a format that is not.
TheHeaders ==
    {{0, 4, 5, 6, 7, 9, 40, 63, 71, 90}, {1, 6, 12, 13, 18, 40, 60, 95}, {7} \cup 60 .. 80,
     {3, 6, 7, 9, 33, 70}, 4 .. 7, {1, 13, 40, 63, 66, 72, 79}, {2, 4, 5, 6, 50, 65, 71, 80},
     {3, 4, 5, 7, 20, 64, 70, 79}, {5, 17, 44}}
TheHeaderFlips == UpTo(2, {0, 130, 206, 220, 248, 251})
TheBlocks == {{}, {17, 18, 19, 40, 100, 143}}

TheVoiceBits == {{1, 4, 5, 9, 12, 13, 15, 19, 20}}
TheRowErrors == UpTo(3, {0, 12, 18})

Init ==
    /\ part \in {"burst", "emb", "data", "fields", "ecc", "voice"}
    /\ BurstInit /\ EmbInit /\ DataInit /\ FieldsInit /\ MbeEccInit /\ VoiceInit
    /\ part # "emb" => rx = dmr_vbptc_16_11_new({})
    /\ part # "voice" => codec = "ambe"

Next ==
    \/ part = "burst" /\ BurstNext /\ UNCHANGED <<embVars, dataUnit, decoded, voice, voiceVars, part>>
    \/ part = "emb" /\ EmbNext /\ UNCHANGED <<burstVars, dataUnit, decoded, voice, voiceVars, part>>
    \/ part = "data" /\ DataNext /\ UNCHANGED <<burstVars, embVars, decoded, voice, voiceVars, part>>
    \/ part = "fields" /\ FieldsNext /\ UNCHANGED <<burstVars, embVars, dataUnit, voice, voiceVars, part>>
    \/ part = "ecc" /\ MbeEccNext /\ UNCHANGED <<burstVars, embVars, dataUnit, decoded, voiceVars, part>>
    \/ part = "voice" /\ VoiceNext /\ UNCHANGED <<burstVars, embVars, dataUnit, decoded, voice, part>>

Spec == Init /\ [][Next]_codecVars
=============================================================================
