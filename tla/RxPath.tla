------------------------------- MODULE RxPath -------------------------------
(***************************************************************************)
(* How a received frame gets from a protocol's descriptor to push_proto.   *)
(*                                                                         *)
(* Two read callbacks share the descriptor: the protocol's own (it reads   *)
(* one frame and appends it to rxq) and noisebridge's poll_proto_*, which  *)
(* drains rxq.  Nothing but the order in which the event loop runs them    *)
(* makes the second find what the first has just queued: a frame that is   *)
(* left in rxq waits for the next datagram, however long that takes.       *)
(*                                                                         *)
(* A packet is named by the order of its reception, which also names its   *)
(* memory.                                                                 *)
(***************************************************************************)
EXTENDS Naturals, Sequences

CONSTANTS
    FreesQueued,    \* mmdvm_io_readable frees the packet it has queued
    MaxFrames,      \* bound: frames received
    MaxWire         \* bound: data waiting on the descriptor

ASSUME RxAssumption ==
    /\ FreesQueued \in BOOLEAN
    /\ MaxFrames \in Nat
    /\ MaxWire \in Nat

Garbage == 0        \* whatever freed memory holds

VARIABLES
    readers,    \* callbacks of the descriptor in io->entry[READ], head first
    wire,       \* data waiting on the descriptor: a frame or something else
    taken,      \* frames read so far
    rxq,        \* packets in the protocol's rxq
    freed,      \* packets whose memory has been freed
    relayed,    \* what push_proto was given
    at          \* position in readers the loop has reached; 0: in select

vars == <<readers, wire, taken, rxq, freed, relayed, at>>

Init ==
    /\ readers = <<>>
    /\ wire = <<>>
    /\ taken = 0
    /\ rxq = <<>>
    /\ freed = {}
    /\ relayed = <<>>
    /\ at = 0

----------------------------------------------------------------------------
(***************************************************************************)
(* Setup.  init_proto_homebrew and init_proto_mmdvm register the poll      *)
(* callback; only then does init_repeater call dmr_io_add_protocol, which  *)
(* sets up the queues and registers the protocol's own callbacks.          *)
(***************************************************************************)
\* Mutant: entries are called in the order of registration.
dmr_io_reg_read_tail(cb) == readers' = readers \o <<cb>>

dmr_io_reg_read(cb) == readers' = <<cb>> \o readers

init_proto ==
    /\ readers = <<>>
    /\ dmr_io_reg_read("poll")
    /\ UNCHANGED <<wire, taken, rxq, freed, relayed, at>>

dmr_io_add_protocol ==
    /\ Len(readers) = 1
    /\ dmr_io_reg_read("readable")
    /\ rxq' = <<>>
    /\ UNCHANGED <<wire, taken, freed, relayed, at>>

----------------------------------------------------------------------------
Running == Len(readers) = 2

\* The peer or the modem sends a frame, or data that is no frame.
Arrive(d) ==
    /\ Running
    /\ Len(wire) < MaxWire
    /\ wire' = Append(wire, d)
    /\ UNCHANGED <<readers, taken, rxq, freed, relayed, at>>

\* select reports the descriptor.
Wake ==
    /\ Running
    /\ at = 0
    /\ wire # <<>>
    /\ at' = 1
    /\ UNCHANGED <<readers, wire, taken, rxq, freed, relayed>>

\* io_handle_readable goes through every entry of the descriptor.
Serve(cb) ==
    /\ at \in DOMAIN readers
    /\ readers[at] = cb
    /\ at' = IF at = Len(readers) THEN 0 ELSE at + 1
    /\ UNCHANGED readers

dmr_packetq_add(p) == rxq' = Append(rxq, p)

\* homebrew_io_readable and mmdvm_io_readable read one datagram or one modem
\* frame.  Only a frame that parses to a packet is queued.
io_readable ==
    /\ Serve("readable")
    /\ IF wire # <<>> /\ wire[1] = "frame"
       THEN /\ taken < MaxFrames
            /\ taken' = taken + 1
            /\ dmr_packetq_add(taken + 1)
            /\ freed' = IF FreesQueued THEN freed \cup {taken + 1} ELSE freed
       ELSE UNCHANGED <<taken, rxq, freed>>
    /\ wire' = IF wire = <<>> THEN wire ELSE Tail(wire)
    /\ UNCHANGED relayed

\* What reading a packet's memory yields.
Contents(p) == IF p \in freed THEN {p, Garbage} ELSE {p}

\* poll_proto_* shifts packets until rxq is empty.
drained == Len(rxq)

\* Mutant: shifting a packet leaves it in the queue.
shifted_kept == rxq

\* The queue after that.
shifted == SubSeq(rxq, drained + 1, Len(rxq))

\* poll_proto_homebrew and poll_proto_mmdvm: dmr_packetq_shift and push_proto
\* for each packet drained.
poll_proto ==
    /\ Serve("poll")
    /\ \E f \in [1 .. drained -> 0 .. MaxFrames] :
        /\ \A i \in 1 .. drained : f[i] \in Contents(rxq[i])
        /\ relayed' = relayed \o f
    /\ rxq' = shifted
    /\ UNCHANGED <<wire, taken, freed>>

----------------------------------------------------------------------------
Next ==
    \/ init_proto
    \/ dmr_io_add_protocol
    \/ \E d \in {"frame", "other"} : Arrive(d)
    \/ Wake
    \/ io_readable
    \/ poll_proto

Spec == Init /\ [][Next]_vars

\* The loop keeps running: a step of a round that has begun is never put off.
RxFairness == WF_vars(Wake) /\ WF_vars(io_readable) /\ WF_vars(poll_proto)

FairSpec == Spec /\ RxFairness

----------------------------------------------------------------------------
\* Every variable has its type.
TypeOK ==
    /\ readers \in {<<>>, <<"poll">>, <<"readable", "poll">>}
    /\ wire \in Seq({"frame", "other"})
    /\ taken \in 0 .. MaxFrames
    /\ rxq \in Seq(1 .. MaxFrames)
    /\ freed \subseteq 1 .. MaxFrames
    /\ relayed \in Seq(0 .. MaxFrames)
    /\ at \in 0 .. 2

\* "poll_* is triggered after a proto becomes readable and checks the received
\* parsed packet queue for new frames" (repeater.c): no frame is left in rxq
\* when the loop goes back to sleep.
NothingLeftQueued == at = 0 => rxq = <<>>

\* push_proto is given every frame once, in the order of reception, with the
\* contents it was received with.
RelayedAsReceived == \A i \in DOMAIN relayed : relayed[i] = i

\* Every frame read from the descriptor reaches push_proto without waiting for
\* another one to arrive.
EveryFrameRelayed == \A n \in 1 .. MaxFrames : taken = n ~> Len(relayed) >= n
=============================================================================
