--------------------------- MODULE RepeaterProofs ---------------------------
(***************************************************************************)
(* Proofs about the call state machine of noisebridge (module Repeater),   *)
(* for any set of protocols and streams, any timeout and any bounds.       *)
(***************************************************************************)
EXTENDS Repeater, TLAPS

\* The inductive invariant: types, the stream of a call, and the two counts of
\* timers against calls.  TimersMatchCalls is not inductive without the first:
\* end_io_timer removes a timer only if there is one.
IInv ==
    /\ TypeOK
    /\ CallHasStream
    /\ TimersCoverCalls
    /\ TimersMatchCalls

USE DEF TS

\* The number of calls is 0, 1 or 2, and it is 0 exactly when both slots idle.
LEMMA ActiveCallsType ==
    /\ ActiveCalls \in 0..2
    /\ ActiveCalls = 0 <=> \A t \in TS : ~Active(t)
  BY DEF ActiveCalls, Active

\* Every initial state satisfies the inductive invariant.
LEMMA InitIInv == Init => IInv
  <1> SUFFICES ASSUME Init PROVE IInv
    OBVIOUS
  <1> USE RepeaterAssumption DEF Init
  <1>1. TypeOK
    <2>1. ts \in [TS -> [state : SlotStates, stream : Streams \cup {NoStream},
                        last_frame_received : {0}]]
      BY DEF SlotStates
    <2>2. timers \in Seq(0..Timeout) /\ relay \in SUBSET [dst : Protos, from : TS, stream : Streams]
      OBVIOUS
    <2>3. silent \in BOOLEAN /\ timedout \in Nat
      OBVIOUS
    <2> QED
      BY <2>1, <2>2, <2>3 DEF TypeOK
  <1>2. CallHasStream
    BY DEF CallHasStream, Active
  <1>3. ActiveCalls = 0 /\ Len(timers) = 0
    BY DEF ActiveCalls, Active
  <1> QED
    BY <1>1, <1>2, <1>3 DEF IInv, TimersCoverCalls, TimersMatchCalls

\* A frame that opens a call in an idle slot adds one call and one timer.
LEMMA OpenCallIInv ==
    ASSUME IInv, NEW p \in Packets, NEW state \in {"DATA_CALL", "VOICE_CALL"},
           ts[p.ts].state = "IDLE", OpenCall(p, state)
    PROVE  /\ ts' \in [TS -> [state : SlotStates, stream : Streams \cup {NoStream},
                              last_frame_received : {0}]]
           /\ timers' \in Seq(0..Timeout)
           /\ timedout' = timedout =>
                CallHasStream' /\ TimersCoverCalls' /\ TimersMatchCalls'
  <1> USE RepeaterAssumption
  <1>1. /\ p.ts \in {0, 1} /\ p.stream \in Streams
        /\ ts \in [TS -> [state : SlotStates, stream : Streams \cup {NoStream},
                          last_frame_received : {0}]]
        /\ timers \in Seq(0..Timeout)
    BY DEF Packets, IInv, TypeOK
  <1>2. ts' \in [TS -> [state : SlotStates, stream : Streams \cup {NoStream},
                        last_frame_received : {0}]]
    BY <1>1 DEF OpenCall, SlotStates
  <1>3. timers' \in Seq(0..Timeout) /\ Len(timers') = Len(timers) + 1
    BY <1>1 DEF OpenCall, new_io_timer
  <1>4. ActiveCalls' = ActiveCalls + 1
    BY <1>1 DEF OpenCall, ActiveCalls, Active
  <1>5. CallHasStream'
    BY <1>1 DEF OpenCall, CallHasStream, Active, IInv
  <1>6. Len(timers) \in Nat /\ timedout \in Nat
    BY <1>1 DEF IInv, TypeOK
  <1> QED
    BY <1>2, <1>3, <1>4, <1>5, <1>6, ActiveCallsType
       DEF TimersCoverCalls, TimersMatchCalls, IInv

\* A frame that ends a call removes one call and one timer: there is one to
\* remove because every call has one.
LEMMA EndCallIInv ==
    ASSUME IInv, NEW p \in Packets, ts[p.ts].state # "IDLE", EndCall(p)
    PROVE  /\ ts' \in [TS -> [state : SlotStates, stream : Streams \cup {NoStream},
                              last_frame_received : {0}]]
           /\ timers' \in Seq(0..Timeout)
           /\ timedout' = timedout =>
                CallHasStream' /\ TimersCoverCalls' /\ TimersMatchCalls'
  <1> USE RepeaterAssumption
  <1>1. /\ p.ts \in {0, 1}
        /\ ts \in [TS -> [state : SlotStates, stream : Streams \cup {NoStream},
                          last_frame_received : {0}]]
        /\ timers \in Seq(0..Timeout)
    BY DEF Packets, IInv, TypeOK
  <1>2. ts' \in [TS -> [state : SlotStates, stream : Streams \cup {NoStream},
                        last_frame_received : {0}]]
    BY <1>1 DEF EndCall, SlotStates
  <1>3. ActiveCalls' = ActiveCalls - 1 /\ ActiveCalls >= 1
    BY <1>1 DEF EndCall, ActiveCalls, Active
  <1>4. Len(timers) >= 1
    BY <1>1, <1>3, ActiveCallsType DEF IInv, TimersCoverCalls
  <1>5. timers' = Tail(timers)
    BY <1>1, <1>4 DEF EndCall, end_io_timer
  <1>6. timers' \in Seq(0..Timeout) /\ Len(timers') = Len(timers) - 1
    BY <1>1, <1>4, <1>5
  <1>7. CallHasStream'
    BY <1>1 DEF EndCall, CallHasStream, Active, IInv
  <1>8. Len(timers) \in Nat /\ timedout \in Nat
    BY <1>1 DEF IInv, TypeOK
  <1> QED
    BY <1>2, <1>3, <1>6, <1>7, <1>8, ActiveCallsType
       DEF TimersCoverCalls, TimersMatchCalls, IInv

\* A pass over the timers keeps their number, may only turn calls into idle
\* slots, and counts each of these as timed out.
LEMMA HandleTimersIInv ==
    ASSUME IInv, NEW elapsed \in 0..MaxElapsed, NEW lag \in 0..MaxLag,
           HandleTimers(elapsed, lag)
    PROVE  IInv'
  <1> USE RepeaterAssumption
  <1>1. /\ ts \in [TS -> [state : SlotStates, stream : Streams \cup {NoStream},
                          last_frame_received : {0}]]
        /\ timers \in Seq(0..Timeout)
        /\ Len(timers) \in Nat /\ DOMAIN timers = 1..Len(timers)
        /\ \A i \in DOMAIN timers : timers[i] \in 0..Timeout
    BY DEF IInv, TypeOK
  <1>2. timers' = [i \in 1..Len(timers) |->
                      IF timers[i] - elapsed < 0 THEN Timeout ELSE timers[i] - elapsed]
    BY <1>1 DEF HandleTimers
  <1>3. timers' \in [1..Len(timers) -> 0..Timeout]
    BY <1>1, <1>2
  <1>4. timers' \in Seq(0..Timeout) /\ Len(timers') = Len(timers)
    BY <1>1, <1>2, <1>3
  <1>5. \A t \in TS : \/ ts'[t] = ts[t]
                      \/ /\ ts'[t] = [ts[t] EXCEPT !.state = "IDLE"]
                         /\ lag > Timeout
    BY <1>1 DEF HandleTimers, slot_timer, ms_since_frame
  <1>6. ts' \in [TS -> [state : SlotStates, stream : Streams \cup {NoStream},
                        last_frame_received : {0}]]
    <2>1. DOMAIN ts' = TS /\ ts' = [t \in TS |-> ts'[t]]
      BY <1>1 DEF HandleTimers, slot_timer
    <2> QED
      BY <1>1, <1>5, <2>1 DEF SlotStates
  <1>7. CallHasStream'
    BY <1>1, <1>5 DEF CallHasStream, Active, IInv
  <1>8. ActiveCalls' <= ActiveCalls
    BY <1>1, <1>5 DEF ActiveCalls, Active
  <1>9. ActiveCalls \in 0..2 /\ ActiveCalls' \in 0..2 /\ timedout \in Nat
        /\ timedout' = timedout + (ActiveCalls - ActiveCalls')
    BY ActiveCallsType DEF ActiveCalls, HandleTimers, IInv, TypeOK
  <1>10. TimersCoverCalls' /\ TimersMatchCalls'
    <2>1. Len(timers) \in Nat /\ Len(timers') = Len(timers) /\ ActiveCalls \in 0..2
      BY <1>1, <1>4, ActiveCallsType
    <2>2. ActiveCalls <= Len(timers) /\ Len(timers) = ActiveCalls + timedout
      BY DEF IInv, TimersCoverCalls, TimersMatchCalls
    <2>3. PICK a \in 0..2, b \in 0..2, n \in Nat, d \in Nat :
              a = ActiveCalls /\ b = ActiveCalls' /\ n = Len(timers) /\ d = timedout
      BY <1>9, <2>1
    <2>4. b <= n /\ n = b + timedout'
      <3>1. a <= n /\ n = a + d /\ b <= a /\ timedout' = d + (a - b)
        BY <1>8, <1>9, <2>2, <2>3
      <3> QED
        BY <3>1
    <2>5. ActiveCalls' <= Len(timers') /\ Len(timers') = ActiveCalls' + timedout'
      BY <2>1, <2>3, <2>4
    <2> QED
      BY <2>5 DEF TimersCoverCalls, TimersMatchCalls
  <1>11. relay' = relay /\ silent' = silent /\ timedout' \in Nat
    <2>1. relay' = relay /\ silent' = silent
      BY DEF HandleTimers
    <2>2. \A a, b \in 0..2, d \in Nat : b <= a => d + (a - b) \in Nat
      OBVIOUS
    <2> QED
      BY <1>8, <1>9, <2>1, <2>2
  <1> QED
    BY <1>4, <1>6, <1>7, <1>10, <1>11 DEF IInv, TypeOK

\* Every step of push_proto preserves the inductive invariant.
LEMMA PushIInv ==
    ASSUME IInv, NEW src \in Protos, NEW p \in Packets, push_proto(src, p)
    PROVE  IInv'
  <1>1. /\ p.ts \in TS /\ p.stream \in Streams /\ silent' = silent /\ silent \in BOOLEAN
        /\ timedout' = timedout /\ timedout \in Nat
    BY DEF Packets, push_proto, IInv, TypeOK
  <1>2. CASE PushRelayed(src, p)
    <2>1. relay' \in SUBSET [dst : Protos, from : TS, stream : Streams]
      BY <1>1, <1>2 DEF PushRelayed, Route
    <2>2. CASE UNCHANGED <<ts, timers>>
      BY <1>1, <2>1, <2>2 DEF IInv, TypeOK, CallHasStream, TimersCoverCalls,
         TimersMatchCalls, ActiveCalls, Active
    <2>3. CASE ts[p.ts].state = "IDLE" /\ OpenCall(p, "VOICE_CALL")
      BY <1>1, <2>1, <2>3, OpenCallIInv DEF IInv, TypeOK
    <2>4. CASE ts[p.ts].state = "IDLE" /\ OpenCall(p, "DATA_CALL")
      BY <1>1, <2>1, <2>4, OpenCallIInv DEF IInv, TypeOK
    <2>5. CASE ts[p.ts].state # "IDLE" /\ EndCall(p)
      BY <1>1, <2>1, <2>5, EndCallIInv DEF IInv, TypeOK
    <2> QED
      BY <1>2, <2>2, <2>3, <2>4, <2>5 DEF PushRelayed, IdleFrame, CallFrame, Opens
  <1>3. CASE PushIgnored(p)
    BY <1>1, <1>3 DEF PushIgnored, IInv, TypeOK, CallHasStream, TimersCoverCalls,
       TimersMatchCalls, ActiveCalls, Active
  <1> QED
    BY <1>2, <1>3 DEF push_proto

\* Every step preserves the inductive invariant.
LEMMA NextIInv == IInv /\ [Next]_vars => IInv'
  <1> SUFFICES ASSUME IInv, [Next]_vars PROVE IInv'
    OBVIOUS
  <1>1. ASSUME NEW src \in Protos, NEW p \in Packets, push_proto(src, p) PROVE IInv'
    BY <1>1, PushIInv
  <1>2. CASE Tick
    BY <1>2, HandleTimersIInv DEF Tick
  <1>3. CASE FallSilent \/ UNCHANGED vars
    BY <1>3 DEF FallSilent, vars, IInv, TypeOK, CallHasStream, TimersCoverCalls,
       TimersMatchCalls, ActiveCalls, Active
  <1> QED
    BY <1>1, <1>2, <1>3 DEF Next

\* In every reachable state of the call state machine, types hold, every call has
\* a stream, and there are as many slot timers as calls and timeouts, so at least
\* one for each call.
THEOREM CallInvariants == Spec => [](TypeOK /\ TimersCoverCalls /\ TimersMatchCalls)
  <1>1. IInv => TypeOK /\ TimersCoverCalls /\ TimersMatchCalls
    BY DEF IInv
  <1> QED
    BY <1>1, InitIInv, NextIInv, PTL DEF Spec

(***************************************************************************)
(* The timeslots implement the abstract lock of SlotOwnership.             *)
(***************************************************************************)
\* The stream that holds each timeslot, and what was relayed: the mapping that
\* instance Slots of module Repeater applies.
Owner == [t \in TS |-> IF Active(t) THEN ts[t].stream ELSE NoStream]
Relayed == {<<r.from, r.stream>> : r \in relay}

\* A frame that push_proto routes on is a Pass of its stream.
LEMMA RelayedIsPass ==
    ASSUME IInv, NEW src \in Protos, NEW p \in Packets, PushRelayed(src, p)
    PROVE  /\ Owner[p.ts] \in {NoStream, p.stream}
           /\ \E o \in {NoStream, p.stream} : Owner' = [Owner EXCEPT ![p.ts] = o]
           /\ Relayed' \in {{}, {<<p.ts, p.stream>>}}
  <1>1. /\ p.ts \in {0, 1} /\ p.stream \in Streams
        /\ ts \in [TS -> [state : SlotStates, stream : Streams \cup {NoStream},
                          last_frame_received : {0}]]
    BY DEF Packets, IInv, TypeOK
  <1>2. Owner[p.ts] \in {NoStream, p.stream}
    BY <1>1 DEF Owner, Active, PushRelayed, IdleFrame, CallFrame
  <1>3. \E o \in {NoStream, p.stream} : Owner' = [Owner EXCEPT ![p.ts] = o]
    <2>1. CASE UNCHANGED <<ts, timers>>
      <3>1. Owner' = Owner
        BY <2>1 DEF Owner, Active
      <3>2. Owner = [Owner EXCEPT ![p.ts] = Owner[p.ts]]
        BY <1>1 DEF Owner
      <3> QED
        BY <1>2, <3>1, <3>2
    <2>2. CASE OpenCall(p, "VOICE_CALL") \/ OpenCall(p, "DATA_CALL")
      <3>1. Owner' = [Owner EXCEPT ![p.ts] = p.stream]
        <4>1. \A t \in TS : /\ t # p.ts => ts'[t] = ts[t]
                            /\ t = p.ts => ts'[t].state # "IDLE" /\ ts'[t].stream = p.stream
          BY <1>1, <2>2 DEF OpenCall
        <4> QED
          BY <1>1, <4>1 DEF Owner, Active
      <3> QED
        BY <3>1
    <2>3. CASE EndCall(p)
      <3>1. Owner' = [Owner EXCEPT ![p.ts] = NoStream]
        BY <1>1, <2>3 DEF EndCall, Owner, Active
      <3> QED
        BY <3>1
    <2> QED
      BY <2>1, <2>2, <2>3 DEF PushRelayed, IdleFrame, CallFrame, Opens
  <1>4. Relayed' \in {{}, {<<p.ts, p.stream>>}}
    <2>1. PICK permitted \in SUBSET (Protos \ {src}) :
             relay' = {[dst |-> d, from |-> p.ts, stream |-> p.stream] : d \in permitted}
      BY DEF PushRelayed, Route
    <2>2. \A r \in relay' : r.from = p.ts /\ r.stream = p.stream
      BY <2>1
    <2>3. Relayed' = {<<r.from, r.stream>> : r \in relay'}
      BY DEF Relayed
    <2>4. \A x \in Relayed' : x = <<p.ts, p.stream>>
      BY <2>2, <2>3
    <2> QED
      BY <2>4
  <1> QED
    BY <1>2, <1>3, <1>4

\* noisebridge implements the slot lock: no other stream ends a call or gets a
\* frame through its timeslot while the call lasts (push_proto, slot_timer).
THEOREM RepeaterImplementsSlotOwnership == Spec => SlotsSpec
  <1>1. Init => Slots!Init
    BY DEF Init, Slots!Init, Active
  <1>2. IInv /\ [Next]_vars => [Slots!Next]_(Slots!vars)
    <2> SUFFICES ASSUME IInv, [Next]_vars PROVE [Slots!Next]_(Slots!vars)
      OBVIOUS
    <2>1. ASSUME NEW src \in Protos, NEW p \in Packets, PushRelayed(src, p)
          PROVE  Slots!Next
      <3>1. p.ts \in TS /\ p.stream \in Streams
        BY DEF Packets
      <3>2. Slots!Pass(p.ts, p.stream)
        BY <2>1, RelayedIsPass DEF Slots!Pass, Owner, Relayed
      <3> QED
        BY <3>1, <3>2 DEF Slots!Next
    <2>2. ASSUME NEW p \in Packets, PushIgnored(p) PROVE Slots!Next
      BY <2>2 DEF PushIgnored, Slots!Next, Slots!Ignore, Active
    <2>3. ASSUME NEW elapsed \in 0..MaxElapsed, NEW lag \in 0..MaxLag,
                 HandleTimers(elapsed, lag)
          PROVE  Slots!Next
      <3> DEFINE S == {t \in TS : ts'[t].state = "IDLE"}
      <3>1. \A t \in TS : \/ ts'[t] = ts[t]
                          \/ ts'[t] = [ts[t] EXCEPT !.state = "IDLE"]
        BY <2>3 DEF HandleTimers, slot_timer
      <3>2. ts \in [TS -> [state : SlotStates, stream : Streams \cup {NoStream},
                           last_frame_received : {0}]]
        BY DEF IInv, TypeOK
      <3>3. Owner' = [t \in TS |-> IF t \in S THEN NoStream ELSE Owner[t]]
        BY <3>1, <3>2 DEF Owner, Active
      <3>4. Relayed' = Relayed
        BY <2>3 DEF HandleTimers, Relayed
      <3>5. S \in SUBSET TS
        OBVIOUS
      <3> QED
        BY <3>3, <3>4, <3>5 DEF Slots!Next, Slots!Expire, Owner, Relayed
    <2>4. CASE FallSilent \/ UNCHANGED vars
      BY <2>4 DEF FallSilent, vars, Slots!vars, Active
    <2> QED
      BY <2>1, <2>2, <2>3, <2>4 DEF Next, push_proto, Tick
  <1> QED
    BY <1>1, <1>2, InitIInv, NextIInv, PTL DEF Spec, SlotsSpec, Slots!Spec
=============================================================================
