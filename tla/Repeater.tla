------------------------------- MODULE Repeater -------------------------------
(***************************************************************************)
(* The call state machine of noisebridge (src/cmd/noisebridge/repeater.c): *)
(* the two timeslots that every protocol shares, the calls that occupy     *)
(* them, the relaying of frames to the other protocols, and the slot       *)
(* timeout timers that calls register with the I/O loop.                   *)
(*                                                                         *)
(* The program is single threaded: push_proto runs in the readable phase   *)
(* of an I/O loop iteration and slot_timer in its timer phase, each to its *)
(* end.  Time is relative to io->wallclock, which only io_handle_timers    *)
(* moves between two iterations; lag is how far the real clock has run     *)
(* ahead of it when a timer callback reads it.                             *)
(***************************************************************************)
EXTENDS Integers, Sequences

CONSTANTS Protos,     \* the configured protocols
          Streams,    \* stream identifiers
          NoStream,   \* no stream: the stream of a slot that had no call yet
          Timeout,    \* config->repeater.timeout
          MaxElapsed, \* bound: time between two passes over the timers
          MaxLag,     \* bound: clock advance inside one pass over the timers
          MaxTimers   \* bound: registered slot timers

ASSUME RepeaterAssumption ==
    /\ NoStream \notin Streams
    /\ Timeout \in Nat
    /\ MaxElapsed \in Nat
    /\ MaxLag \in Nat
    /\ MaxTimers \in Nat

VARIABLES ts,      \* repeater->ts
          timers,  \* the slot_timer entries of io->timer, newest first: each
                   \* is its deadline less io->wallclock
          relay,   \* the frames the last push_proto handed to protocols
          silent,  \* the radio network has fallen silent for good
          timedout \* history: how many calls slot_timer has ended

vars == <<ts, timers, relay, silent, timedout>>

(***************************************************************************)
(* Timeslots and frames.                                                   *)
(***************************************************************************)
TS == 0..1

SlotStates == {"IDLE", "DATA_CALL", "VOICE_CALL"}

\* RATE12_DATA stands for every type that reaches only default branches.
DataTypes == {"VOICE_PI", "VOICE_LC", "TERMINATOR_WITH_LC", "CSBK", "MBC_HEADER",
              "DATA_HEADER", "RATE12_DATA", "VOICE_SYNC", "VOICE"}

Packets == [ts : TS, stream : Streams, data_type : DataTypes]

Active(t) == ts[t].state # "IDLE"

\* How many timeslots carry a call.
ActiveCalls == (IF Active(0) THEN 1 ELSE 0) + (IF Active(1) THEN 1 ELSE 0)

Init ==
    /\ ts = [t \in TS |-> [state |-> "IDLE", stream |-> NoStream,
                           last_frame_received |-> 0]]
    /\ timers = <<>>
    /\ relay = {}
    /\ silent = FALSE
    /\ timedout = 0

(***************************************************************************)
(* Timers.  dmr_io_reg_timer inserts at the head, dmr_io_del_timer removes *)
(* the first entry of the callback.                                        *)
(***************************************************************************)
new_io_timer == <<Timeout>> \o timers

end_io_timer == IF timers = <<>> THEN timers ELSE Tail(timers)

\* dmr_time_ms_since(wallclock - last_frame_received): the clock reads
\* wallclock + lag.
ms_since_frame(t, lag) == lag + ts[t].last_frame_received

\* The slots after slot_timer ran with the clock lag ahead of io->wallclock.
slot_timer(lag) ==
    [t \in TS |-> IF Active(t) /\ ms_since_frame(t, lag) > Timeout
                  THEN [ts[t] EXCEPT !.state = "IDLE"]
                  ELSE ts[t]]

\* io_handle_timers: wallclock moves on by elapsed; every expired slot timer
\* runs slot_timer and is armed again.
HandleTimers(elapsed, lag) ==
    LET expired(i) == timers[i] - elapsed < 0
    IN  /\ timers' = [i \in DOMAIN timers |->
                         IF expired(i) THEN Timeout ELSE timers[i] - elapsed]
        /\ ts' = IF \E i \in DOMAIN timers : expired(i) THEN slot_timer(lag) ELSE ts
        /\ timedout' = timedout + (ActiveCalls - ActiveCalls')
        /\ UNCHANGED <<relay, silent>>

(***************************************************************************)
(* Calls.                                                                  *)
(***************************************************************************)
\* A frame in an idle slot opens a call, with its timer, or changes nothing.
\* push_proto sets the state before it calls new_voice_call or new_data_call,
\* so these always find their own state and always register a timer.
OpenCall(p, state) ==
    /\ Len(timers) < MaxTimers
    /\ ts' = [ts EXCEPT ![p.ts] = [@ EXCEPT !.state = state, !.stream = p.stream]]
    /\ timers' = new_io_timer

\* Mutant: kill_timer is not set.
EndCall_keep_timer(p) ==
    /\ ts' = [ts EXCEPT ![p.ts].state = "IDLE"]
    /\ UNCHANGED timers

\* end_voice_call and end_data_call, kill_timer set.
EndCall(p) ==
    /\ ts' = [ts EXCEPT ![p.ts].state = "IDLE"]
    /\ timers' = end_io_timer

Opens(data_type) ==
    CASE data_type \in {"VOICE_LC", "VOICE_SYNC", "VOICE"} -> "VOICE_CALL"
      [] data_type \in {"CSBK", "MBC_HEADER", "DATA_HEADER"} -> "DATA_CALL"
      [] OTHER -> "IDLE"

Ends(state, data_type) ==
    \/ data_type = "TERMINATOR_WITH_LC"
    \/ state = "DATA_CALL" /\ data_type \in {"VOICE_PI", "VOICE_LC"}

IdleFrame(p) ==
    /\ ts[p.ts].state = "IDLE"
    /\ IF Opens(p.data_type) # "IDLE"
       THEN OpenCall(p, Opens(p.data_type))
       ELSE UNCHANGED <<ts, timers>>

\* Mutant: only voice calls check the stream of a frame.
CallFrame_voice_only(p) ==
    /\ ts[p.ts].state # "IDLE"
    /\ ts[p.ts].state = "VOICE_CALL" => p.stream = ts[p.ts].stream
    /\ IF Ends(ts[p.ts].state, p.data_type)
       THEN EndCall(p)
       ELSE UNCHANGED <<ts, timers>>

CallFrame(p) ==
    /\ ts[p.ts].state # "IDLE"
    /\ p.stream = ts[p.ts].stream
    /\ IF Ends(ts[p.ts].state, p.data_type)
       THEN EndCall(p)
       ELSE UNCHANGED <<ts, timers>>

\* Each protocol but the source gets a copy when the routing script permits it
\* (module LuaRoute); from is the timeslot the frame was received on.
Route(src, p) ==
    \E permitted \in SUBSET (Protos \ {src}) :
        relay' = {[dst |-> d, from |-> p.ts, stream |-> p.stream] : d \in permitted}

\* A frame of the call, or any frame when there is none, is routed on.
PushRelayed(src, p) ==
    /\ IdleFrame(p) \/ CallFrame(p)
    /\ Route(src, p)

\* A frame of another stream than the call is dropped.
PushIgnored(p) ==
    /\ ts[p.ts].state # "IDLE"
    /\ p.stream # ts[p.ts].stream
    /\ relay' = {}
    /\ UNCHANGED <<ts, timers>>

push_proto(src, p) ==
    /\ ~silent
    /\ PushRelayed(src, p) \/ PushIgnored(p)
    /\ UNCHANGED <<silent, timedout>>

\* The environment: from here on no protocol receives a frame.
FallSilent ==
    /\ ~silent
    /\ silent' = TRUE
    /\ UNCHANGED <<ts, timers, relay, timedout>>

Tick == \E elapsed \in 0..MaxElapsed, lag \in 0..MaxLag : HandleTimers(elapsed, lag)

Next ==
    \/ \E src \in Protos, p \in Packets : push_proto(src, p)
    \/ Tick
    \/ FallSilent

Spec == Init /\ [][Next]_vars

\* The I/O loop keeps passing over the timers while some are registered, and
\* time moves on between passes.
LoopRuns ==
    \E elapsed \in 1..MaxElapsed, lag \in 0..MaxLag :
        timers # <<>> /\ HandleTimers(elapsed, lag)

FairSpec == Spec /\ WF_vars(LoopRuns)

(***************************************************************************)
(* Properties.                                                             *)
(***************************************************************************)
\* Slots, timers and relayed frames keep their types (repeater_t, dmr_io_timer).
TypeOK ==
    /\ ts \in [TS -> [state : SlotStates, stream : Streams \cup {NoStream},
                      last_frame_received : {0}]]
    /\ timers \in Seq(0..Timeout)
    /\ relay \in SUBSET [dst : Protos, from : TS, stream : Streams]
    /\ silent \in BOOLEAN
    /\ timedout \in Nat

\* Every call keeps a slot timer: slot_timer entries are interchangeable, calls
\* of both timeslots register and cancel them independently, and a call that
\* timed out leaves its timer behind, but there are never fewer timers than
\* calls, so no call loses its timeout because another call ended.
TimersCoverCalls == ActiveCalls <= Len(timers)

\* There is one slot timer per call and one more for each call that timed out:
\* new_io_timer and end_io_timer balance over every interleaving of the calls
\* of both timeslots, and nothing but a timeout makes the timer list grow.
TimersMatchCalls == Len(timers) = ActiveCalls + timedout

\* A slot in a call knows the stream it belongs to.
CallHasStream == \A t \in TS : Active(t) => ts[t].stream \in Streams

\* The timeslots implement the abstract lock: a call is given up only by a frame
\* of its own stream or by a timeout, and while it lasts no frame of another
\* stream received on that timeslot reaches any protocol (push_proto).
Slots == INSTANCE SlotOwnership WITH
            owner <- [t \in TS |-> IF Active(t) THEN ts[t].stream ELSE NoStream],
            relay <- {<<r.from, r.stream>> : r \in relay}

SlotsSpec == Slots!Spec

\* Once no frame arrives any more, every timeslot becomes free again, by the
\* slot timeout if the terminator was lost.
SilentSlotsAreFreed == silent ~> \A t \in TS : ~Active(t)
=============================================================================
