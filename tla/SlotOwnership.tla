---------------------------- MODULE SlotOwnership ----------------------------
(***************************************************************************)
(* What noisebridge promises about its two timeslots, without timers and   *)
(* data types: a timeslot is a lock that a stream takes and that only the  *)
(* same stream, or a timeout, gives back.  While it is taken, nothing of   *)
(* another stream is relayed from that timeslot.                           *)
(***************************************************************************)
CONSTANTS TS,       \* the timeslots
          Streams,  \* stream identifiers
          NoStream  \* not a stream: the owner of a free timeslot

VARIABLES owner,   \* the stream that holds each timeslot
          relay    \* the <<timeslot, stream>> relayed by the last frame, if any

vars == <<owner, relay>>

Init ==
    /\ owner = [ts \in TS |-> NoStream]
    /\ relay = {}

\* A frame of stream s passes through a timeslot that is free or its own.  The
\* stream may take the free timeslot, or give back its own, with that frame.
Pass(ts, s) ==
    /\ owner[ts] \in {NoStream, s}
    /\ \E o \in {NoStream, s} : owner' = [owner EXCEPT ![ts] = o]
    /\ relay' \in {{}, {<<ts, s>>}}

\* A frame of another stream leaves no trace.
Ignore ==
    /\ relay' = {}
    /\ UNCHANGED owner

\* A timeout frees timeslots.
Expire ==
    /\ \E S \in SUBSET TS :
           owner' = [ts \in TS |-> IF ts \in S THEN NoStream ELSE owner[ts]]
    /\ UNCHANGED relay

Next ==
    \/ \E ts \in TS, s \in Streams : Pass(ts, s)
    \/ Ignore
    \/ Expire

Spec == Init /\ [][Next]_vars
=============================================================================
