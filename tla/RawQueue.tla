------------------------------ MODULE RawQueue ------------------------------
(***************************************************************************)
(* The bounded queue of raw buffers of raw.c, and who owns each buffer.    *)
(* The tail queue it is kept in is that of Queues; here it is a sequence.  *)
(***************************************************************************)
EXTENDS RawBuffer, FiniteSets

CONSTANTS
    Buffers,
    RawLimits       \* limits of the queue; 0 is none

ASSUME RawLimitsNat == RawLimits \subseteq Nat

VARIABLES
    rawq,           \* [limit, items]
    held,           \* the buffers the callers have
    lost            \* the buffers no one has a pointer to

rawqVars == <<rawq, held, lost>>

Queued == ToSet(rawq.items)
-----------------------------------------------------------------------------
dmr_rawq_new == rawq \in [limit : RawLimits, items : {<<>>}] /\ held = {} /\ lost = {}

NewBuffer(b) ==
    /\ b \notin held \cup lost \cup Queued
    /\ held' = held \cup {b} /\ UNCHANGED <<rawq, lost>>

HasRoom == rawq.limit = 0 \/ Len(rawq.items) < rawq.limit

\* A refused buffer stays with the caller.
dmr_rawq_add(b) ==
    /\ b \in held /\ HasRoom
    /\ rawq' = [rawq EXCEPT !.items = Append(@, b)] /\ held' = held \ {b} /\ UNCHANGED lost

dmr_rawq_unshift(b) ==
    /\ b \in held /\ HasRoom
    /\ rawq' = [rawq EXCEPT !.items = <<b>> \o @] /\ held' = held \ {b} /\ UNCHANGED lost

\* The bytes are copied to a buffer of the queue's own, which nobody frees when
\* it is refused.
dmr_rawq_addb(b) ==
    /\ b \notin held \cup lost \cup Queued
    /\ IF HasRoom THEN rawq' = [rawq EXCEPT !.items = Append(@, b)] /\ UNCHANGED lost
       ELSE lost' = lost \cup {b} /\ UNCHANGED rawq
    /\ UNCHANGED held

dmr_rawq_shift ==
    /\ rawq.items # <<>>
    /\ held' = held \cup {Head(rawq.items)} /\ rawq' = [rawq EXCEPT !.items = Tail(@)]
    /\ UNCHANGED lost

FreeBuffer(b) == b \in held /\ held' = held \ {b} /\ UNCHANGED <<rawq, lost>>

RawqNext ==
    \/ \E b \in Buffers : \/ NewBuffer(b) \/ dmr_rawq_add(b) \/ dmr_rawq_unshift(b)
                          \/ dmr_rawq_addb(b) \/ FreeBuffer(b)
    \/ dmr_rawq_shift
-----------------------------------------------------------------------------
\* A buffer has one owner: it waits once, or a caller has it, so that it is
\* freed once; and only a queue that is full loses buffers (dmr_rawq_addb).
RawOwnedOnce ==
    /\ Cardinality(Queued) = Len(rawq.items) /\ Queued \cap held = {}
    /\ rawq.limit = 0 => lost = {}

\* Buffers hold what was added and nothing else, and have one owner each.
RawSound == RawHoldsAdded /\ RawTailZero /\ RawOwnedOnce
=============================================================================
