--------------------------- MODULE ReceiveProofs ---------------------------
(***************************************************************************)
(* Proofs about what a protocol receives.  The receive path (RxPath), for  *)
(* any number of frames.  The MMDVM modem client (Mmdvm), for any frames   *)
(* the modem may send, any length of the receive buffer and any layout of  *)
(* the structure: a read ends at most two bytes behind the buffer, the     *)
(* parser stays in step with the modem however the line cuts and joins the *)
(* frames, and a DVMEGA is polled.                                         *)
(***************************************************************************)
EXTENDS RxPath, Mmdvm, SequenceTheorems, FiniteSetTheorems, TLAPS

(***************************************************************************)
(* The receive path.                                                       *)
(***************************************************************************)
\* The inductive invariant.  The protocol's callback comes first; before it
\* runs rxq is empty and everything taken has been relayed; between the two
\* callbacks rxq holds at most the frame just taken, which is the next one to
\* relay.
IInv ==
    /\ readers \in Seq({"readable", "poll"})
    /\ Len(readers) = 1 => readers[1] = "poll"
    /\ Len(readers) = 2 => readers[1] = "readable" /\ readers[2] = "poll"
    /\ taken \in Nat
    /\ rxq \in Seq(Nat)
    /\ relayed \in Seq(Nat)
    /\ freed = {}
    /\ at \in Nat
    /\ at # 0 => Len(readers) = 2
    /\ \A i \in DOMAIN relayed : relayed[i] = i
    /\ \/ Len(rxq) = 0 /\ Len(relayed) = taken
       \/ at = 2 /\ Len(rxq) = 1 /\ rxq[1] = taken /\ Len(relayed) + 1 = taken

\* Linking at the head of a list of callbacks.
LEMMA InsertHead ==
    ASSUME NEW S, NEW s \in Seq(S), NEW e \in S
    PROVE  /\ <<e>> \o s \in Seq(S)
           /\ Len(<<e>> \o s) = Len(s) + 1
           /\ (<<e>> \o s)[1] = e
           /\ \A j \in 1 .. Len(s) : (<<e>> \o s)[j + 1] = s[j]
  OBVIOUS

\* Which callback runs tells where in the list the loop is.
LEMMA ServePosition ==
    ASSUME IInv, NEW cb, Serve(cb)
    PROVE  /\ Len(readers) = 2 /\ readers' = readers
           /\ cb = "readable" => at = 1 /\ at' = 2
           /\ cb = "poll" => at = 2 /\ at' = 0
  <1>1. at \in 1 .. Len(readers) /\ readers[at] = cb /\ readers' = readers
    BY DEF Serve, IInv
  <1>2. Len(readers) = 2 /\ readers[1] = "readable" /\ readers[2] = "poll"
    BY <1>1 DEF IInv
  <1>3. at = 1 \/ at = 2
    BY <1>1, <1>2
  <1>4. at' = IF at = 2 THEN 0 ELSE at + 1
    BY <1>2 DEF Serve
  <1> QED
    BY <1>1, <1>2, <1>3, <1>4

\* Every initial state satisfies it.
LEMMA InitIInv == Init => IInv
  BY DEF Init, IInv

\* Every step keeps it, if queued packets are not freed.
LEMMA StepIInv ==
    ASSUME FreesQueued = FALSE
    PROVE  IInv /\ [Next]_vars => IInv'
  <1> SUFFICES ASSUME IInv, [Next]_vars
               PROVE  IInv'
    OBVIOUS
  <1>1. CASE init_proto
    <2>1. readers' = <<"poll">> \o readers /\ Len(readers) = 0
      BY <1>1 DEF init_proto, dmr_io_reg_read
    <2>2. readers' \in Seq({"readable", "poll"}) /\ Len(readers') = 1 /\ readers'[1] = "poll"
      BY <2>1, InsertHead DEF IInv
    <2>3. UNCHANGED <<wire, taken, rxq, freed, relayed, at>>
      BY <1>1 DEF init_proto
    <2> QED
      BY <2>1, <2>2, <2>3 DEF IInv
  <1>2. CASE dmr_io_add_protocol
    <2>1. readers' = <<"readable">> \o readers /\ Len(readers) = 1 /\ readers[1] = "poll"
      BY <1>2 DEF dmr_io_add_protocol, dmr_io_reg_read, IInv
    <2>2. /\ readers' \in Seq({"readable", "poll"})
          /\ Len(readers') = Len(readers) + 1
          /\ readers'[1] = "readable"
          /\ \A j \in 1 .. Len(readers) : readers'[j + 1] = readers[j]
      <3>1. readers \in Seq({"readable", "poll"}) /\ "readable" \in {"readable", "poll"}
        BY DEF IInv
      <3> QED
        BY <2>1, <3>1, InsertHead
    <2>3. Len(readers') = 2 /\ readers'[2] = "poll"
      BY <2>1, <2>2
    <2>4. rxq' = <<>> /\ UNCHANGED <<wire, taken, freed, relayed, at>>
      BY <1>2 DEF dmr_io_add_protocol
    <2>5. at = 0 /\ Len(relayed) = taken
      BY <2>1 DEF IInv
    <2>6. rxq' \in Seq(Nat) /\ Len(rxq') = 0
      BY <2>4
    <2> QED
      BY <2>2, <2>3, <2>4, <2>5, <2>6 DEF IInv
  <1>3. CASE \E d \in {"frame", "other"} : Arrive(d)
    BY <1>3 DEF Arrive, IInv
  <1>4. CASE Wake
    <2>1. Len(readers) = 2 /\ at = 0 /\ at' = 1
      BY <1>4 DEF Wake, Running, IInv
    <2>2. UNCHANGED <<readers, taken, rxq, relayed, freed>>
      BY <1>4 DEF Wake
    <2> QED
      BY <2>1, <2>2 DEF IInv
  <1>5. CASE io_readable
    <2>1. Len(readers) = 2 /\ at = 1 /\ at' = 2 /\ readers' = readers /\ relayed' = relayed
      BY <1>5, ServePosition DEF io_readable
    <2>2. Len(rxq) = 0 /\ Len(relayed) = taken
      BY <2>1 DEF IInv
    <2>3. CASE wire # <<>> /\ wire[1] = "frame"
      <3>1. taken' = taken + 1 /\ rxq' = Append(rxq, taken + 1) /\ freed' = freed
        BY <1>5, <2>3 DEF io_readable, dmr_packetq_add
      <3>2. rxq' \in Seq(Nat) /\ Len(rxq') = 1 /\ rxq'[1] = taken'
        BY <2>2, <3>1 DEF IInv
      <3>3. at' = 2 /\ Len(rxq') = 1 /\ rxq'[1] = taken' /\ Len(relayed') + 1 = taken'
        BY <2>1, <2>2, <3>1, <3>2 DEF IInv
      <3>4. taken' \in Nat /\ freed' = {} /\ Len(readers') = 2
        BY <2>1, <3>1 DEF IInv
      <3>5. \A i \in DOMAIN relayed' : relayed'[i] = i
        BY <2>1 DEF IInv
      <3>6. relayed' \in Seq(Nat) /\ readers' = readers
        BY <2>1 DEF IInv
      <3> QED
        BY <3>2, <3>3, <3>4, <3>5, <3>6 DEF IInv
    <2>4. CASE ~ (wire # <<>> /\ wire[1] = "frame")
      <3>1. UNCHANGED <<taken, rxq, freed>>
        BY <1>5, <2>4 DEF io_readable
      <3> QED
        BY <2>1, <2>2, <3>1 DEF IInv
    <2> QED
      BY <2>3, <2>4
  <1>6. CASE poll_proto
    <2>1. Len(readers) = 2 /\ at = 2 /\ at' = 0
      BY <1>6, ServePosition DEF poll_proto
    <2>2. PICK f \in [1 .. Len(rxq) -> 0 .. MaxFrames] :
            /\ \A i \in 1 .. Len(rxq) : f[i] \in Contents(rxq[i])
            /\ relayed' = relayed \o f
      BY <1>6 DEF poll_proto, drained
    <2>3. /\ rxq' = SubSeq(rxq, Len(rxq) + 1, Len(rxq))
          /\ UNCHANGED <<readers, taken, freed>>
      BY <1>6 DEF poll_proto, drained, shifted, Serve
    <2>4. rxq' \in Seq(Nat) /\ Len(rxq') = 0
      BY <2>3 DEF IInv
    <2>5. f \in Seq(Nat) /\ Len(f) = Len(rxq)
      <3>1. Len(rxq) \in Nat /\ \A i \in 1 .. Len(rxq) : f[i] \in Nat
        BY RxAssumption DEF IInv
      <3> QED
        BY <3>1
    <2>6. \A i \in 1 .. Len(rxq) : f[i] = rxq[i]
      BY <2>2 DEF Contents, IInv
    <2>7. /\ relayed' \in Seq(Nat)
          /\ Len(relayed') = taken
          /\ \A i \in DOMAIN relayed' : relayed'[i] = i
      <3>1. CASE Len(rxq) = 0 /\ Len(relayed) = taken
        BY <2>2, <2>5, <3>1 DEF IInv
      <3>2. CASE Len(rxq) = 1 /\ rxq[1] = taken /\ Len(relayed) + 1 = taken
        <4>1. /\ relayed' \in Seq(Nat)
              /\ Len(relayed') = Len(relayed) + Len(f)
              /\ \A i \in 1 .. Len(relayed) + Len(f) :
                    relayed'[i] = IF i <= Len(relayed) THEN relayed[i] ELSE f[i - Len(relayed)]
          <5>1. relayed \in Seq(Nat) /\ f \in Seq(Nat)
            BY <2>5 DEF IInv
          <5> QED
            BY <2>2, <5>1, ConcatProperties, Zenon
        <4>2. Len(f) = 1 /\ f[1] = taken /\ Len(relayed) \in Nat
          BY <2>5, <2>6, <3>2 DEF IInv
        <4>3. Len(relayed') = taken /\ DOMAIN relayed' = 1 .. taken
          BY <3>2, <4>1, <4>2
        <4>4. ASSUME NEW i \in 1 .. taken PROVE relayed'[i] = i
          <5>1. CASE i <= Len(relayed)
            <6>1. i \in DOMAIN relayed /\ i \in 1 .. Len(relayed) + Len(f)
              BY <4>2, <5>1 DEF IInv
            <6>2. relayed'[i] = relayed[i]
              BY <4>1, <5>1, <6>1
            <6> QED
              BY <6>1, <6>2 DEF IInv
          <5>2. CASE ~ (i <= Len(relayed))
            <6>1. i = taken /\ i - Len(relayed) = 1
              BY <3>2, <4>2, <5>2
            <6> QED
              BY <4>1, <4>2, <5>2, <6>1, <3>2
          <5> QED
            BY <5>1, <5>2
        <4> QED
          BY <4>1, <4>3, <4>4
      <3> QED
        BY <3>1, <3>2 DEF IInv
    <2> QED
      BY <2>1, <2>3, <2>4, <2>7 DEF IInv
  <1>7. CASE UNCHANGED vars
    BY <1>7 DEF vars, IInv
  <1> QED
    BY <1>1, <1>2, <1>3, <1>4, <1>5, <1>6, <1>7 DEF Next

\* For a protocol that leaves queued packets alone, no frame is left behind in
\* rxq when the loop sleeps, and push_proto is given all frames in order.
THEOREM FramesAreRelayed ==
    ASSUME FreesQueued = FALSE
    PROVE  Spec => [](NothingLeftQueued /\ RelayedAsReceived)
  <1>1. IInv => NothingLeftQueued /\ RelayedAsReceived
    BY DEF IInv, NothingLeftQueued, RelayedAsReceived
  <1> QED
    BY <1>1, InitIInv, StepIInv, PTL DEF Spec

----------------------------------------------------------------------------
(***************************************************************************)
(* The modem client.                                                       *)
(***************************************************************************)
\* The modem client alone, without the receive path it is composed with.
MmdvmSpec == MmdvmInit /\ [][MmdvmNext]_mmdvmVars

----------------------------------------------------------------------------
(***************************************************************************)
(* The operators on the receive buffer.                                    *)
(***************************************************************************)
\* The header bytes are bytes.
LEMMA Constants ==
    /\ FRAME_MAX \in Nat /\ FRAME_START \in Byte
    /\ \A b \in Byte : b \in Nat
  BY MmdvmAssumption DEF Byte

\* Bytes are joined in any order.
LEMMA Joined == \A b, s, t \in Seq(Byte) : (b \o s) \o t = b \o (s \o t)
  BY ConcatAssociative

\* A sequence may be split before it is joined.
LEMMA JoinedTwice ==
    ASSUME NEW p \in Seq(Byte), NEW s \in Seq(Byte), NEW t \in Seq(Byte), NEW l \in Seq(Byte)
    PROVE  (p \o s) \o (t \o l) = p \o ((s \o t) \o l)
  <1>1. \A u \in Seq(Byte) : (p \o s) \o u = p \o (s \o u)
    BY Joined, Zenon
  <1>2. (s \o t) \o l = s \o (t \o l)
    BY Joined, Zenon
  <1>3. t \o l \in Seq(Byte)
    BY ConcatProperties
  <1> QED
    BY <1>1, <1>2, <1>3, Zenon

\* Where the bytes of two sequences are when they are joined.
LEMMA JoinedAt ==
    ASSUME NEW S, NEW s \in Seq(S), NEW t \in Seq(S)
    PROVE  /\ Len(s \o t) = Len(s) + Len(t)
           /\ \A i \in 1 .. Len(s) : (s \o t)[i] = s[i]
           /\ \A i \in 1 .. Len(t) : (s \o t)[Len(s) + i] = t[i]
  OBVIOUS

\* A set of natural numbers has a least element: the smallest of the intervals
\* 1 .. n that its elements end.
LEMMA LeastElement ==
    ASSUME NEW S \in SUBSET Nat, S # {}
    PROVE  \E m \in S : \A n \in S : m <= n
  <1> DEFINE T == {1 .. n : n \in S}
             R == StrictSubsetOrdering(Nat)
  <1>1. T \subseteq FiniteSubsetsOf(Nat)
    <2>1. \A n \in S : n \in Int /\ 1 .. n \in SUBSET Nat
      OBVIOUS
    <2>2. \A n \in S : IsFiniteSet(1 .. n)
      BY <2>1, FS_Interval
    <2> QED
      BY <2>1, <2>2 DEF FiniteSubsetsOf
  <1>2. T # {}
    OBVIOUS
  <1>3. IsWellFoundedOn(R, FiniteSubsetsOf(Nat))
    BY FS_StrictSubsetOrderingWellFounded, Zenon
  <1> HIDE DEF R, T
  <1>4. PICK x \in T : \A y \in T : ~ (<<y, x>> \in R)
    BY <1>1, <1>2, <1>3, WFMin, Zenon
  <1>5. PICK m \in S : x = 1 .. m
    BY DEF T
  <1>6. ASSUME NEW n \in S, n < m PROVE FALSE
    <2>1. 1 .. n \in T
      BY DEF T
    <2>2. /\ 1 .. n \in SUBSET Nat /\ 1 .. m \in SUBSET Nat
          /\ 1 .. n \subseteq 1 .. m /\ m \in 1 .. m /\ m \notin 1 .. n
      BY <1>6
    <2>3. <<1 .. n, x>> \in R
      BY <1>5, <2>2 DEF R, StrictSubsetOrdering
    <2> QED
      BY <1>4, <2>1, <2>3
  <1> QED
    BY <1>6

\* Resync drops bytes at the front, none if a frame starts there.
LEMMA ResyncDrops ==
    ASSUME NEW b \in Seq(Byte)
    PROVE  /\ Resync(b) \in Seq(Byte) /\ Len(Resync(b)) <= Len(b)
           /\ b = <<>> \/ b[1] = FRAME_START => Resync(b) = b
  <1> DEFINE starts == {i \in DOMAIN b : b[i] = FRAME_START}
             First(i) == i \in starts /\ \A j \in starts : i <= j
  <1>1. starts \in SUBSET Nat /\ \A i \in starts : i \in 1 .. Len(b)
    BY LenProperties
  <1>2. CASE starts = {}
    <2>1. Resync(b) = <<>>
      BY <1>2 DEF Resync
    <2>2. b # <<>> => 1 \in DOMAIN b
      OBVIOUS
    <2> QED
      BY <1>2, <2>1, <2>2
  <1>3. CASE starts # {}
    <2>1. \E i \in starts : \A j \in starts : i <= j
      <3> HIDE DEF starts
      <3>1. starts \in SUBSET Nat /\ starts # {}
        BY <1>1, <1>3, Zenon
      <3> QED
        BY <3>1, LeastElement
    <2> DEFINE m == CHOOSE i \in starts : \A j \in starts : i <= j
    <2>2. m \in starts /\ \A j \in starts : m <= j
      BY <2>1
    <2>3. Resync(b) = SubSeq(b, m, Len(b))
      BY <1>3 DEF Resync
    <2>4. b[1] = FRAME_START /\ b # <<>> => m = 1
      <3>1. ASSUME b[1] = FRAME_START, b # <<>> PROVE 1 \in starts
        BY <3>1
      <3> QED
        BY <1>1, <2>2, <3>1
    <2>5. b # <<>>
      BY <1>1, <1>3
    <2> HIDE DEF m, starts
    <2>6. m \in 1 .. Len(b)
      BY <1>1, <2>2
    <2>7. SubSeq(b, m, Len(b)) \in Seq(Byte) /\ Len(SubSeq(b, m, Len(b))) <= Len(b)
      BY <2>6
    <2>8. m = 1 => SubSeq(b, m, Len(b)) = b
      BY SubSeqFull
    <2> QED
      BY <2>3, <2>4, <2>5, <2>7, <2>8
  <1> QED
    BY <1>2, <1>3

\* A buffer, the rest of the line, and where the last byte was written.
Held(r) == r[1] \in Seq(Byte) /\ r[2] \in Seq(Byte) /\ r[3] \in Nat /\ Len(r[1]) <= r[3]

\* The bytes that are there start with a frame, if there are any.
InStep(b) == b = <<>> \/ b[1] = FRAME_START

\* One read stays in the room it is given, and loses nothing if it is in step.
LEMMA ReadFits ==
    ASSUME NEW b \in Seq(Byte), NEW l \in Seq(Byte), NEW room \in Int,
           NEW r \in ReadOnce(b, l, room)
    PROVE  /\ Held(r) /\ r[3] <= Len(b) + room
           /\ InStep(b \o l) => r[1] \o r[2] = b \o l
  <1>1. PICK k \in {n \in 1 .. Len(l) : n <= room} :
            r = <<Resync(b \o SubSeq(l, 1, k)), SubSeq(l, k + 1, Len(l)), Len(b) + k>>
    BY DEF ReadOnce
  <1>2. k \in 1 .. Len(l) /\ k <= room
    BY <1>1
  <1> DEFINE s == SubSeq(l, 1, k)
             t == SubSeq(l, k + 1, Len(l))
  <1>3. s \in Seq(Byte) /\ Len(s) = k /\ t \in Seq(Byte)
    BY <1>2
  <1>4. s \o t = l
    BY <1>2, ConcatAdjacentSubSeq, SubSeqFull
  <1> HIDE DEF s, t
  <1>5. b \o s \in Seq(Byte) /\ Len(b \o s) = Len(b) + k
    BY <1>3, ConcatProperties
  <1>6. r[1] = Resync(b \o s) /\ r[2] = t /\ r[3] = Len(b) + k
    BY <1>1 DEF s, t
  <1>7. Held(r) /\ r[3] <= Len(b) + room
    <2>1. r[1] \in Seq(Byte) /\ Len(r[1]) <= Len(b) + k
      BY <1>5, <1>6, ResyncDrops
    <2>2. r[2] \in Seq(Byte)
      BY <1>3, <1>6
    <2>3. Len(b) \in Nat /\ k \in Nat
      BY <1>2
    <2> QED
      BY <1>2, <1>6, <2>1, <2>2, <2>3 DEF Held
  <1>8. ASSUME InStep(b \o l) PROVE r[1] \o r[2] = b \o l
    <2>1. (b \o s) \o t = b \o l
      <3>1. (b \o s) \o t = b \o (s \o t)
        <4>1. s \in Seq(Byte) /\ t \in Seq(Byte)
          BY <1>3
        <4> QED
          BY <4>1, Joined, Zenon
      <3> QED
        BY <1>4, <3>1
    <2>2. b \o l # <<>>
      BY <1>2
    <2>3. (b \o l)[1] = FRAME_START
      BY <1>8, <2>2 DEF InStep
    <2>4. (b \o s)[1] = (b \o l)[1]
      BY <1>2, <1>3, <1>5, <2>1, ConcatProperties
    <2> QED
      BY <1>5, <1>6, <2>1, <2>3, <2>4, ResyncDrops
  <1> QED
    BY <1>7, <1>8

\* So do the two reads of a call, of which the second begins behind at most two
\* bytes.
LEMMA ReadsFit ==
    ASSUME buf \in Seq(Byte), line \in Seq(Byte), Len(buf) <= FRAME_MAX, NEW r \in Reads
    PROVE  /\ Held(r) /\ r[3] <= FRAME_MAX + 2
           /\ InStep(buf \o line) => r[1] \o r[2] = buf \o line
  <1>1. Room(buf) \in Int /\ Len(buf) \in Nat /\ Room(buf) = FRAME_MAX - Len(buf)
    BY Constants DEF Room
  <1>2. CASE r \in ReadOnce(buf, line, Room(buf))
    <2>1. /\ Held(r) /\ r[3] <= Len(buf) + Room(buf)
          /\ InStep(buf \o line) => r[1] \o r[2] = buf \o line
      BY <1>1, <1>2, ReadFits
    <2>2. r[3] \in Nat
      BY <2>1 DEF Held
    <2>3. r[3] <= FRAME_MAX + 2
      BY <1>1, <2>1, <2>2, Constants
    <2> QED
      BY <2>1, <2>3
  <1>3. CASE \E s \in ReadOnce(buf, line, Room(buf)) :
                Len(s[1]) < 3 /\ r \in ReadOnce(s[1], s[2], Room(buf))
    <2>1. PICK s \in ReadOnce(buf, line, Room(buf)) :
                Len(s[1]) < 3 /\ r \in ReadOnce(s[1], s[2], Room(buf))
      BY <1>3
    <2>2. Held(s) /\ (InStep(buf \o line) => s[1] \o s[2] = buf \o line)
      BY <1>1, ReadFits
    <2>3. /\ Held(r) /\ r[3] <= Len(s[1]) + Room(buf)
          /\ InStep(s[1] \o s[2]) => r[1] \o r[2] = s[1] \o s[2]
      BY <1>1, <2>1, <2>2, ReadFits DEF Held
    <2>4. Len(s[1]) \in Nat /\ r[3] \in Nat
      BY <2>2, <2>3 DEF Held
    <2>5. r[3] <= FRAME_MAX + 2
      BY <1>1, <2>1, <2>3, <2>4, Constants
    <2> QED
      BY <2>2, <2>3, <2>5
  <1> QED
    BY <1>2, <1>3 DEF Reads

\* An answer to a command writes a byte into the buffer or none, and none if it does
\* not stray.
LEMMA ParsedBytes ==
    ASSUME NEW b \in Seq(Byte), NEW arg \in Byte
    PROVE  /\ Parsed(b, arg) \in Seq(Byte) /\ Len(Parsed(b, arg)) = Len(b)
           /\ ~ Stray(b, arg) => Parsed(b, arg) = b
  <1>1. Len(b) \in Nat /\ 1 \in Byte /\ FRAME_AT \in Nat /\ arg \in Nat
    BY MmdvmAssumption DEF Byte
  <1>2. AckWritten(b, arg) \in Seq(Byte) /\ Len(AckWritten(b, arg)) = Len(b)
    BY <1>1 DEF AckWritten
  <1>3. ASSUME arg < FRAME_AT PROVE AckWritten(b, arg) = b
    <2>1. \A i \in 1 .. Len(b) : AckWritten(b, arg)[i] = b[i]
      BY <1>1, <1>3 DEF AckWritten
    <2> QED
      BY <1>2, <2>1, SeqEqual
  <1>4. ~ Stray(b, arg) => b[3] # ACK \/ arg < FRAME_AT
    BY <1>1 DEF Stray
  <1> QED
    BY <1>2, <1>3, <1>4 DEF Parsed

\* Taking a frame of at most half the bytes that are there out of the buffer
\* splits them in two; whatever is there, no byte is made up but zeros.
LEMMA ShiftSplits ==
    ASSUME NEW b \in Seq(Byte), Complete(b)
    PROVE  /\ b[2] \in Nat /\ b[2] <= Len(b) /\ b[2] <= FRAME_MAX
           /\ SubSeq(b, 1, b[2]) \in Seq(Byte) /\ Len(SubSeq(b, 1, b[2])) = b[2]
           /\ Shift(b) \in Seq(Byte) /\ Len(Shift(b)) = Len(b) - b[2]
           /\ Len(b) <= 2 * b[2] => SubSeq(b, 1, b[2]) \o Shift(b) = b
  <1> DEFINE n == b[2]
             rest == Len(b) - n
  <1>1. n \in Nat /\ n <= Len(b) /\ Len(b) \in Nat /\ 0 \in Byte /\ n <= FRAME_MAX
    BY Constants DEF Complete, Byte
  <1> HIDE DEF n
  <1>2. Shift(b) = [i \in 1 .. rest |->
                      IF i <= n THEN b[i + n] ELSE IF i <= FRAME_MAX THEN 0 ELSE b[i]]
    BY DEF Shift, n
  <1>3. rest \in Nat /\ \A i \in 1 .. rest : b[i + n] \in Byte /\ b[i] \in Byte
    BY <1>1
  <1>4. Shift(b) \in Seq(Byte) /\ Len(Shift(b)) = rest
    BY <1>1, <1>2, <1>3
  <1>5. SubSeq(b, 1, n) \in Seq(Byte) /\ Len(SubSeq(b, 1, n)) = n
    BY <1>1
  <1>6. ASSUME Len(b) <= 2 * n PROVE Shift(b) = SubSeq(b, n + 1, Len(b))
    <2>1. SubSeq(b, n + 1, Len(b)) \in Seq(Byte) /\ Len(SubSeq(b, n + 1, Len(b))) = rest
      BY <1>1
    <2>2. \A i \in 1 .. rest : SubSeq(b, n + 1, Len(b))[i] = b[i + n] /\ Shift(b)[i] = b[i + n]
      BY <1>1, <1>2, <1>6
    <2> QED
      BY <1>4, <2>1, <2>2, SeqEqual
  <1>7. SubSeq(b, 1, n) \o SubSeq(b, n + 1, Len(b)) = b
    <2>1. 1 \in 1 .. Len(b) + 1 /\ n \in 1 - 1 .. Len(b) /\ Len(b) \in n .. Len(b)
      BY <1>1
    <2>2. SubSeq(b, 1, n) \o SubSeq(b, n + 1, Len(b)) = SubSeq(b, 1, Len(b))
      BY <2>1, ConcatAdjacentSubSeq, Zenon
    <2> QED
      BY <2>2, SubSeqFull
  <1> QED
    BY <1>1, <1>4, <1>5, <1>6, <1>7 DEF n
\* Whatever length a header gives, what the shift leaves are bytes.
LEMMA ShiftTyped ==
    ASSUME NEW b \in Seq(Byte), Len(b) >= 3
    PROVE  Shift(b) \in Seq(Byte)
  <1> DEFINE n == b[2]
             rest == Len(b) - n
             At(i) == IF i <= n THEN b[i + n] ELSE IF i <= FRAME_MAX THEN 0 ELSE b[i]
  <1>1. n \in Nat /\ Len(b) \in Nat /\ 0 \in Byte
    BY Constants DEF Byte
  <1>2. Shift(b) = [i \in 1 .. rest |-> At(i)]
    BY DEF Shift
  <1>3. CASE rest < 1
    <2>1. 1 .. rest = {}
      BY <1>1, <1>3
    <2>2. Shift(b) = <<>>
      BY <1>2, <2>1
    <2> QED
      BY <2>2
  <1>4. CASE rest >= 1
    <2>1. \A i \in 1 .. rest : b[i + n] \in Byte /\ b[i] \in Byte
      BY <1>1
    <2>2. \A i \in 1 .. rest : At(i) \in Byte
      BY <1>1, <2>1
    <2>3. rest \in Nat
      BY <1>1, <1>4
    <2> HIDE DEF At, rest
    <2> QED
      BY <1>2, <2>2, <2>3
  <1> QED
    BY <1>1, <1>3, <1>4

----------------------------------------------------------------------------
(***************************************************************************)
(* Every variable keeps its type.                                          *)
(***************************************************************************)
Told == [version : Byte, modes : Byte, ack : SUBSET Byte]
Packet == [ts : {"TS1", "TS2"}, payload : Seq(Byte)]

\* What a frame does is typed, whatever byte is read for the argument behind a
\* short one.
LEMMA ParseTyped ==
    ASSUME MmdvmTypeOK, NEW b \in Seq(Byte), Complete(b), NEW arg \in Byte,
           dmr_mmdvm_parse_frame(b, arg)
    PROVE  /\ told' \in Told
           /\ packets' \in Seq(Packet)
           /\ wild' \subseteq {"serial", "rxq"}
           /\ instance' \in {instance, "crashed"}
  <1>1. told' = CASE b[3] = GET_VERSION -> [told EXCEPT !.version = arg]
                  [] b[3] = GET_STATUS -> [told EXCEPT !.modes = arg]
                  [] b[3] = ACK /\ arg < SET_MAX -> [told EXCEPT !.ack = @ \cup {arg}]
                  [] OTHER -> told
    BY DEF dmr_mmdvm_parse_frame
  <1>2. packets' = IF b[3] \in {DMR_DATA1, DMR_DATA2}
                   THEN Append(packets, [ts |-> IF arg = DMR_DATA2 THEN "TS2" ELSE "TS1",
                                         payload |-> SubSeq(b, 5, b[2])])
                   ELSE packets
    BY DEF dmr_mmdvm_parse_frame
  <1>3. SubSeq(b, 5, b[2]) \in Seq(Byte)
    BY ShiftSplits
  <1>4. told \in Told
    BY DEF MmdvmTypeOK, Told
  <1>5. told' \in Told
    BY <1>1, <1>4 DEF Told
  <1>6. packets \in Seq(Packet)
    BY DEF MmdvmTypeOK, Packet
  <1>7. \A ts \in {"TS1", "TS2"}, s \in Seq(Byte) :
            Append(packets, [ts |-> ts, payload |-> s]) \in Seq(Packet)
    BY <1>6, AppendProperties DEF Packet
  <1>8. wild' \in {wild, wild \cup PointersAt(arg)}
    BY DEF dmr_mmdvm_parse_frame
  <1>9. wild' \subseteq {"serial", "rxq"}
    BY <1>8 DEF MmdvmTypeOK, PointersAt
  <1>10. instance' \in {instance, "crashed"}
    BY DEF dmr_mmdvm_parse_frame
  <1> QED
    BY <1>2, <1>3, <1>5, <1>6, <1>7, <1>9, <1>10

\* What a call does with a complete frame.
Taken(b, arg) ==
    /\ dmr_mmdvm_parse_frame(b, arg)
    /\ buf' = Shift(Parsed(b, arg))
    /\ parsed' = Append(parsed, SubSeq(b, 1, b[2]))
    /\ parsedBytes' = parsedBytes \o SubSeq(b, 1, b[2])
    /\ intact' = (intact /\ Len(b) <= 2 * b[2] /\ ~ Stray(b, arg))

\* What it does when it leaves the bytes where they are.
Left == UNCHANGED <<told, wild, packets, parsed, parsedBytes, intact>>

\* What a call of mmdvm_io_readable does with what was read.
LEMMA ReadStep ==
    ASSUME MmdvmTypeOK, mmdvm_io_readable
    PROVE  \/ Unreadable /\ instance' = "crashed" /\ Left /\ UNCHANGED <<line, buf, past>>
           \/ /\ Len(buf) <= FRAME_MAX
              /\ \E r \in Reads :
                  /\ Held(r) /\ r[3] <= FRAME_MAX + 2
                  /\ InStep(buf \o line) => r[1] \o r[2] = buf \o line
                  /\ line' = r[2]
                  /\ past' = IF r[3] - FRAME_MAX > past THEN r[3] - FRAME_MAX ELSE past
                  /\ \/ ~ Complete(r[1]) /\ buf' = r[1] /\ Left /\ UNCHANGED instance
                     \/ Complete(r[1]) /\ \E arg \in Byte : Taken(r[1], arg)
  <1>1. buf \in Seq(Byte) /\ line \in Seq(Byte) /\ Len(buf) \in Nat
    BY DEF MmdvmTypeOK
  <1>2. CASE Unreadable
    BY <1>2 DEF mmdvm_io_readable, Left
  <1>3. CASE ~ Unreadable
    <2>1. Len(buf) <= FRAME_MAX
      BY <1>1, <1>3, Constants DEF Unreadable
    <2>2. PICK r \in Reads :
              /\ line' = r[2]
              /\ past' = IF r[3] - FRAME_MAX > past THEN r[3] - FRAME_MAX ELSE past
              /\ IF Complete(r[1])
                 THEN \E arg \in ByteAt(r[1], 4) : Taken(r[1], arg)
                 ELSE buf' = r[1] /\ Left /\ UNCHANGED instance
      BY <1>3 DEF mmdvm_io_readable, Taken, Left
    <2>3. /\ Held(r) /\ r[3] <= FRAME_MAX + 2
          /\ InStep(buf \o line) => r[1] \o r[2] = buf \o line
      BY <1>1, <2>1, ReadsFit
    <2>4. ByteAt(r[1], 4) \subseteq Byte
      BY <2>3 DEF ByteAt, Held
    <2>5. \/ ~ Complete(r[1]) /\ buf' = r[1] /\ Left /\ UNCHANGED instance
          \/ Complete(r[1]) /\ \E arg \in Byte : Taken(r[1], arg)
      BY <2>2, <2>4, Zenon
    <2> QED
      BY <2>1, <2>2, <2>3, <2>5, Zenon
  <1> QED
    BY <1>2, <1>3

\* A step keeps the types.
LEMMA TypeStep == MmdvmTypeOK /\ [MmdvmNext]_mmdvmVars => MmdvmTypeOK'
  <1> SUFFICES ASSUME MmdvmTypeOK, [MmdvmNext]_mmdvmVars PROVE MmdvmTypeOK'
    OBVIOUS
  <1>1. ASSUME NEW f \in ModemFrames, ModemSends(f) PROVE MmdvmTypeOK'
    <2>1. f \in Seq(Byte)
      BY MmdvmAssumption
    <2>2. line' \in Seq(Byte) /\ modemBytes' \in Seq(Byte) /\ frames' \in Seq(ModemFrames)
      BY <1>1, <2>1, ConcatProperties, AppendProperties DEF MmdvmTypeOK, ModemSends
    <2> QED
      BY <1>1, <2>2 DEF MmdvmTypeOK, ModemSends, sender
  <1>2. CASE mmdvm_io_readable
    <2>1. UNCHANGED <<model, frames, modemBytes, sent, unpolled>> /\ instance = "started"
      BY <1>2 DEF mmdvm_io_readable, sender
    <2>2. CASE instance' = "crashed" /\ Left /\ UNCHANGED <<line, buf, past>>
      BY <2>1, <2>2 DEF MmdvmTypeOK, Left
    <2>3. CASE \E r \in Reads :
                  /\ Held(r)
                  /\ line' = r[2]
                  /\ past' = IF r[3] - FRAME_MAX > past THEN r[3] - FRAME_MAX ELSE past
                  /\ \/ buf' = r[1] /\ Left /\ UNCHANGED instance
                     \/ Complete(r[1]) /\ \E arg \in Byte : Taken(r[1], arg)
      <3>1. PICK r \in Reads :
                  /\ Held(r)
                  /\ line' = r[2]
                  /\ past' = IF r[3] - FRAME_MAX > past THEN r[3] - FRAME_MAX ELSE past
                  /\ \/ buf' = r[1] /\ Left /\ UNCHANGED instance
                     \/ Complete(r[1]) /\ \E arg \in Byte : Taken(r[1], arg)
        BY <2>3
      <3>2. line' \in Seq(Byte) /\ r[1] \in Seq(Byte) /\ r[3] \in Nat
        BY <3>1 DEF Held
      <3>3. past' \in Nat
        <4>1. /\ past \in Nat
              /\ past' = past \/ (r[3] - FRAME_MAX > past /\ past' = r[3] - FRAME_MAX)
          BY <3>1 DEF MmdvmTypeOK
        <4> QED
          BY <3>2, <4>1, Constants
      <3>4. CASE buf' = r[1] /\ Left /\ UNCHANGED instance
        BY <2>1, <3>2, <3>3, <3>4 DEF MmdvmTypeOK, Left
      <3>5. ASSUME Complete(r[1]), NEW arg \in Byte, Taken(r[1], arg) PROVE MmdvmTypeOK'
        <4> DEFINE s == SubSeq(r[1], 1, r[1][2])
                   q == Parsed(r[1], arg)
        <4>1. s \in Seq(Byte)
          BY <3>2, <3>5, ShiftSplits
        <4>2. q \in Seq(Byte) /\ Len(q) >= 3
          BY <3>2, <3>5, ParsedBytes DEF Complete
        <4>3. parsed' = Append(parsed, s) /\ parsedBytes' = parsedBytes \o s /\ buf' = Shift(q)
          BY <3>5 DEF Taken
        <4>4. intact' \in BOOLEAN /\ dmr_mmdvm_parse_frame(r[1], arg)
          BY <3>5 DEF Taken, MmdvmTypeOK
        <4> HIDE DEF s, q
        <4>5. parsed' \in Seq(Seq(Byte)) /\ parsedBytes' \in Seq(Byte)
          BY <4>1, <4>3, ConcatProperties, AppendProperties DEF MmdvmTypeOK
        <4>6. buf' \in Seq(Byte)
          BY <4>2, <4>3, ShiftTyped
        <4>7. /\ told' \in Told /\ packets' \in Seq(Packet)
              /\ wild' \subseteq {"serial", "rxq"} /\ instance' \in {instance, "crashed"}
          BY <3>2, <3>5, <4>4, ParseTyped
        <4> QED
          BY <2>1, <3>2, <3>3, <4>4, <4>5, <4>6, <4>7 DEF MmdvmTypeOK, Told, Packet
      <3> QED
        BY <3>1, <3>4, <3>5
    <2> QED
      BY <1>2, <2>2, <2>3, ReadStep
  <1>3. ASSUME NEW ts, NEW o \in Outcomes, dmr_mmdvm_send(ts, o) PROVE MmdvmTypeOK'
    <2>1. sent' \in 0 .. StatusEvery - 1 /\ unpolled' \in Nat
      <3>1. sent \in 0 .. StatusEvery - 1 /\ unpolled \in Nat
        BY DEF MmdvmTypeOK
      <3>2. sent' = sent \/ sent' = (sent + 1) % StatusEvery
        BY <1>3 DEF dmr_mmdvm_send, dmr_mmdvm_send_raw, sender
      <3>3. unpolled' = 0 \/ unpolled' = unpolled \/ unpolled' = unpolled + 1
        BY <1>3 DEF dmr_mmdvm_send, dmr_mmdvm_send_raw, sender
      <3> QED
        BY <3>1, <3>2, <3>3, MmdvmAssumption
    <2>2. UNCHANGED <<model, receiver>> /\ instance' \in {"started", "crashed"}
      BY <1>3 DEF dmr_mmdvm_send
    <2> QED
      BY <2>1, <2>2 DEF MmdvmTypeOK, receiver, history
  <1>4. CASE dmr_mmdvm_start \/ dmr_mmdvm_close
    <2>1. instance' \in {"started", "freed", "crashed"} /\ UNCHANGED <<model, receiver, sender>>
      BY <1>4 DEF dmr_mmdvm_start, dmr_mmdvm_close
    <2> QED
      BY <2>1 DEF MmdvmTypeOK, receiver, sender, history
  <1>5. CASE UNCHANGED mmdvmVars
    BY <1>5 DEF MmdvmTypeOK, mmdvmVars, receiver, sender, history
  <1> QED
    BY <1>1, <1>2, <1>3, <1>4, <1>5 DEF MmdvmNext

\* The initial values have their types.
LEMMA InitTyped == MmdvmInit => MmdvmTypeOK
  <1>1. 0 \in Byte /\ 0 \in 0 .. StatusEvery - 1 /\ 0 <= FRAME_MAX
    BY MmdvmAssumption DEF Byte
  <1> QED
    BY <1>1 DEF MmdvmInit, MmdvmTypeOK

----------------------------------------------------------------------------
(***************************************************************************)
(* A DVMEGA is polled.                                                     *)
(***************************************************************************)
\* To a DVMEGA every frame goes on timeslot 2, so that the code counts every one.
EveryFrameCounted == MmdvmTypeOK /\ (model = "DVMEGA" => unpolled = sent)

\* Whatever timeslots the calls come from and however the writes go, a DVMEGA is
\* asked for its buffer space with every StatusEvery frames (dmr_mmdvm_send_raw).
THEOREM DvmegaIsPolled == MmdvmSpec => []DvmegaPolled
  <1>1. MmdvmInit => EveryFrameCounted
    BY InitTyped DEF MmdvmInit, EveryFrameCounted
  <1>2. EveryFrameCounted /\ [MmdvmNext]_mmdvmVars => EveryFrameCounted'
    <2> SUFFICES ASSUME EveryFrameCounted, [MmdvmNext]_mmdvmVars PROVE EveryFrameCounted'
      OBVIOUS
    <2>1. MmdvmTypeOK'
      BY TypeStep DEF EveryFrameCounted
    <2>2. ASSUME NEW ts, NEW o \in Outcomes, dmr_mmdvm_send(ts, o), model' = "DVMEGA"
          PROVE  unpolled' = sent'
      <3>1. model = "DVMEGA" /\ unpolled = sent /\ sent \in 0 .. StatusEvery - 1
        BY <2>2 DEF dmr_mmdvm_send, EveryFrameCounted, MmdvmTypeOK
      <3>2. CommandFor(ts) = DMR_DATA2
        BY <3>1 DEF CommandFor
      <3>3. dmr_mmdvm_send_raw(DMR_DATA2, o) \/ UNCHANGED <<sent, unpolled>>
        BY <2>2, <3>2 DEF dmr_mmdvm_send, sender
      <3>4. CASE o \in Counted
        <4>1. o # "gave up"
          BY <3>4 DEF Counted
        <4>2. CASE dmr_mmdvm_send_raw(DMR_DATA2, o)
          <5>1. sent' = (sent + 1) % StatusEvery
            BY <3>4, <4>2 DEF dmr_mmdvm_send_raw
          <5>2. unpolled' = IF sent' = 0 THEN 0 ELSE unpolled + 1
            BY <3>4, <4>1, <4>2, <5>1 DEF dmr_mmdvm_send_raw
          <5> QED
            BY <3>1, <5>1, <5>2, MmdvmAssumption
        <4> QED
          BY <3>1, <3>3, <4>2
      <3>5. CASE o \notin Counted
        BY <3>1, <3>3, <3>5 DEF dmr_mmdvm_send_raw, Counted, Outcomes
      <3> QED
        BY <3>4, <3>5
    <2>3. CASE UNCHANGED <<model, sent, unpolled>>
      BY <2>1, <2>3 DEF EveryFrameCounted
    <2> QED
      BY <2>1, <2>2, <2>3 DEF EveryFrameCounted, MmdvmNext, ModemSends, mmdvm_io_readable,
         dmr_mmdvm_start, dmr_mmdvm_close, mmdvmVars, sender
  <1>3. EveryFrameCounted => DvmegaPolled
    BY MmdvmAssumption DEF EveryFrameCounted, MmdvmTypeOK, DvmegaPolled
  <1> QED
    BY <1>1, <1>2, <1>3, PTL DEF MmdvmSpec
----------------------------------------------------------------------------
(***************************************************************************)
(* The parser stays in step.                                               *)
(***************************************************************************)
\* The frames fs lie behind each other in bytes: frame k ends at byte ends[k].
Cut(ends, fs, bytes) ==
    /\ ends[0] = 0 /\ ends[Len(fs)] = Len(bytes)
    /\ \A k \in 1 .. Len(fs) :
        /\ ends[k] = ends[k - 1] + Len(fs[k]) /\ ends[k] <= Len(bytes)
        /\ \A i \in 1 .. Len(fs[k]) : bytes[ends[k - 1] + i] = fs[k][i]

\* The first of them were parsed, and the others are what is in the buffer and on
\* the line.
Aligned ==
    /\ Len(parsed) <= Len(frames)
    /\ \A i \in 1 .. Len(parsed) : parsed[i] = frames[i]
    /\ \E ends \in [0 .. Len(frames) -> Nat] :
        Cut(ends, frames, modemBytes) /\ Len(parsedBytes) = ends[Len(parsed)]
    /\ parsedBytes \o (buf \o line) = modemBytes

\* While the buffer is intact the parser is in step, no read has ended more than two
\* bytes behind the array, and the bytes kept are inside of it.
FrameInv ==
    /\ MmdvmTypeOK
    /\ intact => Aligned /\ past <= 2 /\ Len(buf) <= FRAME_MAX
    /\ intact => wild = {}

\* What every frame of the modem looks like.
LEMMA FrameShape ==
    ASSUME MmdvmTypeOK, NEW k \in 1 .. Len(frames)
    PROVE  /\ frames[k] \in Seq(Byte) /\ Len(frames[k]) >= 4
           /\ frames[k][1] = FRAME_START /\ frames[k][2] = Len(frames[k])
  <1>1. frames[k] \in ModemFrames
    BY DEF MmdvmTypeOK
  <1> QED
    BY <1>1, MmdvmAssumption

\* What is there begins with the first frame that was not parsed.
LEMMA NextFrame ==
    ASSUME MmdvmTypeOK, Aligned, buf \o line # <<>>
    PROVE  LET f == frames[Len(parsed) + 1] IN
           /\ Len(parsed) < Len(frames) /\ Len(f) <= Len(buf \o line)
           /\ \A i \in 1 .. Len(f) : (buf \o line)[i] = f[i]
  <1> DEFINE m == Len(parsed)
             rest == buf \o line
  <1>1. PICK ends \in [0 .. Len(frames) -> Nat] : Cut(ends, frames, modemBytes) /\ Len(parsedBytes) = ends[m]
    BY DEF Aligned
  <1>2. m \in Nat /\ Len(frames) \in Nat /\ m <= Len(frames)
    BY DEF Aligned, MmdvmTypeOK
  <1>3. rest \in Seq(Byte) /\ rest # <<>>
    BY ConcatProperties DEF MmdvmTypeOK
  <1>4. parsedBytes \in Seq(Byte) /\ parsedBytes \o rest = modemBytes
    BY DEF Aligned, MmdvmTypeOK
  <1> HIDE DEF m, rest
  <1>5. /\ Len(modemBytes) = ends[m] + Len(rest)
        /\ \A i \in 1 .. Len(rest) : modemBytes[ends[m] + i] = rest[i]
    <2>1. /\ Len(parsedBytes \o rest) = Len(parsedBytes) + Len(rest)
          /\ \A i \in 1 .. Len(rest) : (parsedBytes \o rest)[Len(parsedBytes) + i] = rest[i]
      BY <1>3, <1>4, JoinedAt
    <2> QED
      BY <1>1, <1>4, <2>1
  <1>6. ends[m] \in Nat /\ Len(rest) \in Nat /\ Len(rest) > 0
    BY <1>1, <1>2, <1>3
  <1>7. m < Len(frames)
    <2>1. ends[Len(frames)] = Len(modemBytes)
      BY <1>1 DEF Cut
    <2>2. m # Len(frames)
      BY <1>5, <1>6, <2>1
    <2> QED
      BY <1>2, <2>2
  <1> DEFINE f == frames[m + 1]
  <1>8. m + 1 \in 1 .. Len(frames) /\ (m + 1) - 1 = m
    BY <1>2, <1>7
  <1>9. f \in Seq(Byte)
    BY <1>8, FrameShape
  <1>10. /\ ends[m + 1] = ends[m] + Len(f) /\ ends[m + 1] <= Len(modemBytes)
         /\ \A i \in 1 .. Len(f) : modemBytes[ends[m] + i] = f[i]
    <2>1. \A k \in 1 .. Len(frames) :
            /\ ends[k] = ends[k - 1] + Len(frames[k]) /\ ends[k] <= Len(modemBytes)
            /\ \A i \in 1 .. Len(frames[k]) : modemBytes[ends[k - 1] + i] = frames[k][i]
      BY <1>1 DEF Cut
    <2> QED
      BY <1>8, <2>1
  <1> HIDE DEF f
  <1>11. Len(f) <= Len(rest)
    BY <1>5, <1>6, <1>9, <1>10
  <1>12. \A i \in 1 .. Len(f) : rest[i] = f[i]
    BY <1>5, <1>6, <1>9, <1>10, <1>11
  <1> QED
    BY <1>7, <1>11, <1>12 DEF f, rest, m

\* So it is in step.
LEMMA RestInStep == MmdvmTypeOK /\ Aligned => InStep(buf \o line)
  <1> SUFFICES ASSUME MmdvmTypeOK, Aligned, buf \o line # <<>>
               PROVE  (buf \o line)[1] = FRAME_START
    BY DEF InStep
  <1> DEFINE m == Len(parsed)
             f == frames[m + 1]
  <1>1. m < Len(frames) /\ \A i \in 1 .. Len(f) : (buf \o line)[i] = f[i]
    BY NextFrame
  <1>2. m \in Nat /\ Len(frames) \in Nat
    BY DEF MmdvmTypeOK
  <1>3. m + 1 \in 1 .. Len(frames)
    BY <1>1, <1>2
  <1> HIDE DEF m
  <1>4. Len(f) >= 4 /\ f[1] = FRAME_START /\ f \in Seq(Byte)
    BY <1>3, FrameShape
  <1> QED
    BY <1>1, <1>4

\* The frames and bytes that the parser has dealt with are sequences.
LEMMA ParserTypes ==
    ASSUME MmdvmTypeOK
    PROVE  /\ parsed \in Seq(Seq(Byte)) /\ Len(parsed) \in Nat /\ Len(frames) \in Nat
           /\ parsedBytes \in Seq(Byte)
  <1>1. parsed \in Seq(Seq(Byte)) /\ frames \in Seq(ModemFrames) /\ parsedBytes \in Seq(Byte)
    BY Zenon DEF MmdvmTypeOK
  <1> QED
    BY <1>1, LenProperties

\* A frame that the modem sends ends the bytes it sent.
LEMMA SendAligned ==
    ASSUME MmdvmTypeOK, Aligned, NEW f \in ModemFrames, ModemSends(f)
    PROVE  Aligned'
  <1> DEFINE n == Len(frames)
             size == Len(modemBytes)
  <1>1. f \in Seq(Byte) /\ Len(f) \in Nat
    BY MmdvmAssumption
  <1>2. /\ frames' = Append(frames, f) /\ modemBytes' = modemBytes \o f /\ line' = line \o f
        /\ UNCHANGED <<buf, parsed, parsedBytes>>
    BY DEF ModemSends
  <1>3. /\ frames \in Seq(ModemFrames) /\ modemBytes \in Seq(Byte) /\ n \in Nat /\ size \in Nat
        /\ buf \in Seq(Byte) /\ line \in Seq(Byte) /\ parsedBytes \in Seq(Byte)
        /\ Len(parsed) \in Nat /\ Len(parsed) <= n
    BY DEF MmdvmTypeOK, Aligned
  <1>4. /\ Len(frames') = n + 1 /\ frames'[n + 1] = f
        /\ \A k \in 1 .. n : frames'[k] = frames[k]
    BY <1>2, <1>3, AppendProperties
  <1>5. /\ Len(modemBytes') = size + Len(f)
        /\ \A i \in 1 .. size : modemBytes'[i] = modemBytes[i]
        /\ \A i \in 1 .. Len(f) : modemBytes'[size + i] = f[i]
    <2>1. /\ Len(modemBytes \o f) = Len(modemBytes) + Len(f)
          /\ \A i \in 1 .. Len(modemBytes) : (modemBytes \o f)[i] = modemBytes[i]
          /\ \A i \in 1 .. Len(f) : (modemBytes \o f)[Len(modemBytes) + i] = f[i]
      BY <1>1, <1>3, JoinedAt
    <2>2. modemBytes' = modemBytes \o f
      BY <1>2
    <2> QED
      BY <2>1, <2>2, Zenon
  <1>6. PICK ends \in [0 .. n -> Nat] : Cut(ends, frames, modemBytes) /\ Len(parsedBytes) = ends[Len(parsed)]
    BY DEF Aligned
  <1>7. /\ ends[0] = 0 /\ ends[n] = size
        /\ \A k \in 1 .. n :
            /\ ends[k] = ends[k - 1] + Len(frames[k]) /\ ends[k] <= size
            /\ \A i \in 1 .. Len(frames[k]) : modemBytes[ends[k - 1] + i] = frames[k][i]
    BY <1>6 DEF Cut
  <1> HIDE DEF n, size
  <1> DEFINE new == [k \in 0 .. n + 1 |-> IF k <= n THEN ends[k] ELSE size + Len(f)]
  <1>8. /\ new \in [0 .. Len(frames') -> Nat]
        /\ \A k \in 0 .. n : new[k] = ends[k]
        /\ new[n + 1] = size + Len(f)
    <2>1. \A k \in 0 .. n + 1 : (IF k <= n THEN ends[k] ELSE size + Len(f)) \in Nat
      BY <1>1, <1>3, <1>6
    <2> QED
      BY <1>3, <1>4, <2>1
  <1> HIDE DEF new
  <1>9. new[0] = 0 /\ new[n + 1] = Len(modemBytes')
    BY <1>3, <1>5, <1>7, <1>8
  <1>10. ASSUME NEW k \in 1 .. n + 1
         PROVE  /\ new[k] = new[k - 1] + Len(frames'[k]) /\ new[k] <= Len(modemBytes')
                /\ \A i \in 1 .. Len(frames'[k]) : modemBytes'[new[k - 1] + i] = frames'[k][i]
    <2>1. CASE k = n + 1
      <3>1. new[k - 1] = size /\ new[k] = size + Len(f) /\ frames'[k] = f
        BY <1>3, <1>4, <1>7, <1>8, <2>1
      <3>2. new[k] = new[k - 1] + Len(frames'[k]) /\ new[k] <= Len(modemBytes')
        BY <1>1, <1>3, <1>5, <3>1
      <3>3. \A i \in 1 .. Len(frames'[k]) : modemBytes'[new[k - 1] + i] = frames'[k][i]
        BY <1>5, <3>1
      <3> QED
        BY <3>2, <3>3
    <2>2. CASE k \in 1 .. n
      <3> DEFINE g == frames[k]
                 a == ends[k - 1]
      <3>1. frames'[k] = g /\ new[k] = ends[k] /\ new[k - 1] = a
        <4>1. k \in 0 .. n /\ k - 1 \in 0 .. n
          BY <1>3, <2>2
        <4> QED
          BY <1>4, <1>8, <2>2, <4>1, Zenon
      <3>2. /\ ends[k] = a + Len(g) /\ ends[k] <= size
            /\ \A i \in 1 .. Len(g) : modemBytes[a + i] = g[i]
        BY <1>7, <2>2
      <3>3. a \in Nat /\ g \in Seq(Byte)
        <4>1. k - 1 \in 0 .. n
          BY <1>3, <2>2
        <4>2. g \in ModemFrames
          BY <1>3, <2>2 DEF n
        <4> QED
          BY <1>6, <4>1, <4>2, MmdvmAssumption
      <3> HIDE DEF g, a
      <3>4. \A i \in 1 .. Len(g) : modemBytes'[a + i] = g[i]
        <4> TAKE i \in 1 .. Len(g)
        <4>1. a + i \in 1 .. size
          <5>1. size \in Nat /\ a \in Nat /\ Len(g) \in Nat /\ a + Len(g) <= size
            BY <1>3, <3>2, <3>3
          <5> QED
            BY <5>1
        <4> QED
          BY <1>5, <3>2, <4>1
      <3>5. ends[k] <= size + Len(f)
        BY <1>1, <1>3, <3>2, <3>3
      <3> QED
        BY <1>5, <3>1, <3>2, <3>4, <3>5
    <2> QED
      BY <1>3, <2>1, <2>2
  <1>11. Cut(new, frames', modemBytes')
    BY <1>4, <1>9, <1>10 DEF Cut
  <1>12. Len(parsedBytes') = new[Len(parsed')]
    <2>1. Len(parsed) \in 0 .. n
      BY <1>3
    <2> QED
      BY <1>2, <1>6, <1>8, <2>1, Zenon
  <1>13. parsedBytes' \o (buf' \o line') = modemBytes'
    <2>1. buf \o line \in Seq(Byte) /\ parsedBytes \o (buf \o line) = modemBytes
      BY <1>3, ConcatProperties DEF Aligned
    <2>2. buf \o (line \o f) = (buf \o line) \o f
      <3>1. buf \in Seq(Byte) /\ line \in Seq(Byte) /\ f \in Seq(Byte)
        BY <1>1, <1>3
      <3> QED
        BY <3>1, Joined, Zenon
    <2>3. parsedBytes \o ((buf \o line) \o f) = (parsedBytes \o (buf \o line)) \o f
      <3>1. parsedBytes \in Seq(Byte) /\ buf \o line \in Seq(Byte) /\ f \in Seq(Byte)
        BY <1>1, <1>3, <2>1
      <3> QED
        BY <3>1, Joined, Zenon
    <2> QED
      BY <1>2, <2>1, <2>2, <2>3
  <1>14. Len(parsed') <= Len(frames') /\ \A i \in 1 .. Len(parsed') : parsed'[i] = frames'[i]
    <2>1. \A i \in 1 .. Len(parsed) : parsed[i] = frames[i]
      BY DEF Aligned
    <2> QED
      BY <1>2, <1>3, <1>4, <2>1 DEF n
  <1> QED
    BY <1>8, <1>11, <1>12, <1>13, <1>14 DEF Aligned

\* Taking a complete frame out of the buffer, of which the shift loses nothing,
\* takes the modem's next frame.
LEMMA TakeAligned ==
    ASSUME MmdvmTypeOK, Aligned, NEW b \in Seq(Byte), NEW l \in Seq(Byte),
           b \o l = buf \o line, Complete(b), Len(b) <= 2 * b[2],
           frames' = frames, modemBytes' = modemBytes, line' = l, buf' = Shift(b),
           parsed' = Append(parsed, SubSeq(b, 1, b[2])),
           parsedBytes' = parsedBytes \o SubSeq(b, 1, b[2])
    PROVE  Aligned'
  <1> DEFINE m == Len(parsed)
             f == frames[m + 1]
             s == SubSeq(b, 1, b[2])
  <1>1. Len(b) >= 3 /\ b[2] <= Len(b)
    BY DEF Complete
  <1>2. Len(b \o l) = Len(b) + Len(l) /\ \A i \in 1 .. Len(b) : (b \o l)[i] = b[i]
    BY JoinedAt
  <1>3. buf \o line # <<>>
    BY <1>1, <1>2
  <1>4. m < Len(frames) /\ \A i \in 1 .. Len(f) : (buf \o line)[i] = f[i]
    BY <1>3, NextFrame
  <1>5. m \in Nat /\ Len(frames) \in Nat /\ parsed \in Seq(Seq(Byte)) /\ parsedBytes \in Seq(Byte)
    BY ParserTypes
  <1>6. m + 1 \in 1 .. Len(frames)
    BY <1>4, <1>5
  <1>7. f \in Seq(Byte) /\ Len(f) >= 4 /\ f[2] = Len(f)
    BY <1>6, FrameShape
  <1>8. b[2] = Len(f)
    <2>1. 2 \in 1 .. Len(b) /\ 2 \in 1 .. Len(f)
      BY <1>1, <1>7
    <2>2. (b \o l)[2] = b[2]
      BY <1>2, <2>1, Zenon
    <2>3. (buf \o line)[2] = f[2]
      BY <1>4, <2>1, Zenon
    <2>4. b \o l = buf \o line
      OBVIOUS
    <2> HIDE DEF f
    <2> QED
      BY <1>7, <2>2, <2>3, <2>4, Zenon
  <1>9. s \in Seq(Byte) /\ Len(s) = Len(f) /\ Shift(b) \in Seq(Byte) /\ s \o Shift(b) = b
    BY <1>8, ShiftSplits
  <1>10. s = f
    <2>1. \A i \in 1 .. Len(f) : s[i] = f[i]
      <3> TAKE i \in 1 .. Len(f)
      <3>1. i \in 1 .. Len(b) /\ Len(b) \in Nat
        BY <1>1, <1>7, <1>8
      <3>2. s[i] = b[i]
        BY <1>7, <1>8, <3>1
      <3> QED
        BY <1>2, <1>4, <3>1, <3>2
    <2> QED
      BY <1>7, <1>9, <2>1, SeqEqual
  <1> HIDE DEF s, f, m
  <1>11. parsed' = Append(parsed, f) /\ parsedBytes' = parsedBytes \o f
    BY <1>10 DEF s
  <1>12. /\ Len(parsed') = m + 1 /\ parsed'[m + 1] = f
         /\ \A i \in 1 .. m : parsed'[i] = parsed[i]
    <2>1. f \in Seq(Byte) /\ parsed \in Seq(Seq(Byte)) /\ m = Len(parsed)
      BY <1>5, <1>7 DEF m
    <2>2. /\ Len(Append(parsed, f)) = Len(parsed) + 1
          /\ Append(parsed, f)[Len(parsed) + 1] = f
          /\ \A i \in 1 .. Len(parsed) : Append(parsed, f)[i] = parsed[i]
      BY <2>1, AppendProperties
    <2> QED
      BY <1>11, <2>1, <2>2, Zenon
  <1>13. Len(parsed') <= Len(frames') /\ \A i \in 1 .. Len(parsed') : parsed'[i] = frames'[i]
    <2>1. \A i \in 1 .. m : parsed[i] = frames[i]
      BY DEF Aligned, m
    <2>2. \A i \in 1 .. m + 1 : i \in 1 .. m \/ i = m + 1
      BY <1>5
    <2>3. Len(parsed') <= Len(frames')
      BY <1>4, <1>5, <1>12
    <2>4. ASSUME NEW i \in 1 .. m + 1 PROVE parsed'[i] = frames[i]
      <3>1. CASE i \in 1 .. m
        BY <1>12, <2>1, <3>1, Zenon
      <3>2. CASE i = m + 1
        BY <1>12, <3>2, Zenon DEF f
      <3> QED
        BY <2>2, <3>1, <3>2, Zenon
    <2> QED
      BY <1>12, <2>3, <2>4, Zenon
  <1>14. \E ends \in [0 .. Len(frames') -> Nat] :
            Cut(ends, frames', modemBytes') /\ Len(parsedBytes') = ends[Len(parsed')]
    <2>1. PICK ends \in [0 .. Len(frames) -> Nat] :
              Cut(ends, frames, modemBytes) /\ Len(parsedBytes) = ends[m]
      BY DEF Aligned, m
    <2>2. ends[m + 1] = ends[(m + 1) - 1] + Len(frames[m + 1])
      BY <1>6, <2>1 DEF Cut
    <2>3. Len(parsedBytes') = Len(parsedBytes) + Len(f)
      <3>1. Len(parsedBytes \o f) = Len(parsedBytes) + Len(f)
        BY <1>5, <1>7, JoinedAt, Zenon
      <3> QED
        BY <1>11, <3>1, Zenon
    <2>4. (m + 1) - 1 = m
      BY <1>5
    <2> QED
      BY <1>12, <2>1, <2>2, <2>3, <2>4 DEF f
  <1>15. parsedBytes' \o (buf' \o line') = modemBytes'
    <2>1. (parsedBytes \o s) \o (Shift(b) \o l) = parsedBytes \o (b \o l)
      <3>1. /\ parsedBytes \in Seq(Byte) /\ s \in Seq(Byte) /\ Shift(b) \in Seq(Byte)
            /\ s \o Shift(b) = b
        BY <1>5, <1>9, Zenon
      <3>2. \A t, u \in Seq(Byte) : (parsedBytes \o s) \o (t \o u) = parsedBytes \o ((s \o t) \o u)
        BY <3>1, JoinedTwice, Zenon
      <3>3. (parsedBytes \o s) \o (Shift(b) \o l) = parsedBytes \o ((s \o Shift(b)) \o l)
        BY <3>1, <3>2, Zenon
      <3> QED
        BY <3>1, <3>3, Zenon
    <2>2. parsedBytes \o (buf \o line) = modemBytes
      BY DEF Aligned
    <2> QED
      BY <2>1, <2>2 DEF s
  <1> QED
    BY <1>13, <1>14, <1>15 DEF Aligned

\* Every step keeps that.
LEMMA FrameStep == FrameInv /\ [MmdvmNext]_mmdvmVars => FrameInv'
  <1> SUFFICES ASSUME FrameInv, [MmdvmNext]_mmdvmVars, intact'
               PROVE  Aligned' /\ past' <= 2 /\ Len(buf') <= FRAME_MAX /\ wild' = {}
    BY TypeStep DEF FrameInv
  <1>1. /\ MmdvmTypeOK
        /\ intact => Aligned /\ past <= 2 /\ Len(buf) <= FRAME_MAX /\ wild = {}
    BY DEF FrameInv
  <1>2. ASSUME NEW f \in ModemFrames, ModemSends(f)
        PROVE  Aligned' /\ past' <= 2 /\ Len(buf') <= FRAME_MAX /\ wild' = {}
    BY <1>1, <1>2, SendAligned DEF ModemSends
  <1>3. CASE mmdvm_io_readable
    <2>1. UNCHANGED <<frames, modemBytes>>
      BY <1>3 DEF mmdvm_io_readable
    <2>2. CASE Left /\ UNCHANGED <<line, buf, past>>
      BY <1>1, <2>1, <2>2 DEF Left, Aligned
    <2>3. CASE \E r \in Reads :
                  /\ Held(r) /\ r[3] <= FRAME_MAX + 2
                  /\ InStep(buf \o line) => r[1] \o r[2] = buf \o line
                  /\ line' = r[2]
                  /\ past' = IF r[3] - FRAME_MAX > past THEN r[3] - FRAME_MAX ELSE past
                  /\ \/ ~ Complete(r[1]) /\ buf' = r[1] /\ Left /\ UNCHANGED instance
                     \/ Complete(r[1]) /\ \E arg \in Byte : Taken(r[1], arg)
      <3>1. PICK r \in Reads :
                  /\ Held(r) /\ r[3] <= FRAME_MAX + 2
                  /\ InStep(buf \o line) => r[1] \o r[2] = buf \o line
                  /\ line' = r[2]
                  /\ past' = IF r[3] - FRAME_MAX > past THEN r[3] - FRAME_MAX ELSE past
                  /\ \/ ~ Complete(r[1]) /\ buf' = r[1] /\ Left /\ UNCHANGED instance
                     \/ Complete(r[1]) /\ \E arg \in Byte : Taken(r[1], arg)
        BY <2>3
      <3> DEFINE b == r[1]
      <3>2. /\ b \in Seq(Byte) /\ r[2] \in Seq(Byte) /\ r[3] \in Nat /\ Len(b) \in Nat
            /\ past \in Nat
        BY <1>1, <3>1 DEF Held, MmdvmTypeOK
      <3>3. intact => past' <= 2
        <4>1. past' = past \/ past' = r[3] - FRAME_MAX
          BY <3>1
        <4> QED
          BY <1>1, <3>1, <3>2, <4>1, Constants
      <3>4. intact => b \o r[2] = buf \o line
        BY <1>1, <3>1, RestInStep
      <3>5. Len(b) >= 3 => b[2] \in Byte /\ b[2] \in Nat /\ b[2] <= FRAME_MAX
        BY <3>2, Constants DEF Byte
      <3>6. CASE ~ Complete(b) /\ buf' = b /\ Left
        <4>1. intact /\ UNCHANGED <<parsed, parsedBytes>> /\ wild' = wild
          BY <3>6 DEF Left
        <4>2. Aligned'
          BY <1>1, <2>1, <3>1, <3>4, <3>6, <4>1 DEF Aligned
        <4>3. Len(b) <= FRAME_MAX
          <5>1. Len(b) < 3 \/ Len(b) < b[2]
            BY <3>2, <3>5, <3>6 DEF Complete
          <5>2. FRAME_MAX >= 3
            BY MmdvmAssumption
          <5> QED
            BY <3>2, <3>5, <5>1, <5>2, Constants
        <4> QED
          BY <1>1, <3>3, <3>6, <4>1, <4>2, <4>3
      <3>7. ASSUME Complete(b), NEW arg \in Byte, Taken(b, arg)
            PROVE  Aligned' /\ past' <= 2 /\ Len(buf') <= FRAME_MAX /\ wild' = {}
        <4>1. intact /\ Len(b) <= 2 * b[2] /\ ~ Stray(b, arg)
          BY <3>7 DEF Taken
        <4>2. Parsed(b, arg) = b
          BY <3>2, <4>1, ParsedBytes
        <4>3. /\ buf' = Shift(b) /\ parsed' = Append(parsed, SubSeq(b, 1, b[2]))
              /\ parsedBytes' = parsedBytes \o SubSeq(b, 1, b[2])
              /\ dmr_mmdvm_parse_frame(b, arg)
          BY <3>7, <4>2 DEF Taken
        <4>4. Aligned'
          BY <1>1, <2>1, <3>1, <3>2, <3>4, <3>7, <4>1, <4>3, TakeAligned
        <4>5. Len(buf') <= FRAME_MAX
          <5>1. Len(Shift(b)) = Len(b) - b[2] /\ b[2] \in Nat /\ b[2] <= FRAME_MAX
            BY <3>2, <3>7, ShiftSplits
          <5> QED
            BY <3>2, <4>1, <4>3, <5>1, Constants
        <4>6. wild' = {}
          <5>1. b[3] = ACK => PointersAt(arg) = {}
            BY <4>1 DEF Stray
          <5> QED
            BY <1>1, <4>1, <4>3, <5>1 DEF dmr_mmdvm_parse_frame
        <4> QED
          BY <3>3, <4>1, <4>4, <4>5, <4>6
      <3> QED
        BY <3>1, <3>6, <3>7
    <2> QED
      BY <1>1, <1>3, <2>2, <2>3, ReadStep
  <1>4. CASE UNCHANGED receiver
    BY <1>1, <1>4 DEF Aligned, receiver, history
  <1> QED
    BY <1>2, <1>3, <1>4 DEF MmdvmNext, mmdvmVars, dmr_mmdvm_send, dmr_mmdvm_start,
       dmr_mmdvm_close

\* It holds when the modem is new.
LEMMA FrameInit == MmdvmInit => FrameInv
  <1> SUFFICES ASSUME MmdvmInit PROVE FrameInv
    OBVIOUS
  <1>1. MmdvmTypeOK
    BY InitTyped
  <1>2. /\ Len(frames) = 0 /\ Len(parsed) = 0 /\ Len(modemBytes) = 0 /\ Len(parsedBytes) = 0
        /\ parsedBytes \o (buf \o line) = modemBytes
        /\ past <= 2 /\ Len(buf) <= FRAME_MAX /\ wild = {}
    BY Constants DEF MmdvmInit
  <1>3. [k \in 0 .. 0 |-> 0] \in [0 .. Len(frames) -> Nat]
        /\ Cut([k \in 0 .. 0 |-> 0], frames, modemBytes)
        /\ Len(parsedBytes) = [k \in 0 .. 0 |-> 0][Len(parsed)]
    BY <1>2 DEF Cut
  <1> QED
    BY <1>1, <1>2, <1>3 DEF Aligned, FrameInv

\* However few bytes there are before it, a read ends at most two bytes behind
\* mmdvm->frame, and no call finds more than the array holds, until dmr_mmdvm_read
\* shifts a buffer of more than twice the frame it parsed or an answer to a command
\* strays.
THEOREM OverrunStaysShort == MmdvmSpec => []OverrunIsShort
  <1>1. FrameInv => OverrunIsShort
    BY DEF FrameInv, OverrunIsShort
  <1> QED
    BY <1>1, FrameInit, FrameStep, PTL DEF MmdvmSpec

\* However the line cuts frames into pieces and runs them together, and although the
\* second read of a call may end behind the array, by at most two bytes, the frames
\* that are parsed are those the modem sent, in order, and no byte is lost or made up,
\* until dmr_mmdvm_read shifts a buffer of more than twice the frame it parsed or an answer
\* to a command strays.
THEOREM FramesAreParsedAsSent == MmdvmSpec => []FramesAsSent
  <1>1. FrameInv => FramesAsSent
    <2> SUFFICES ASSUME MmdvmTypeOK, Aligned
                 PROVE  IsPrefix(parsed, frames) /\ parsedBytes \o buf \o line = modemBytes
      BY DEF FrameInv, FramesAsSent, OverrunIsShort
    <2>1. parsedBytes \o buf \o line = modemBytes
      <3>1. parsedBytes \in Seq(Byte) /\ buf \in Seq(Byte) /\ line \in Seq(Byte)
        BY DEF MmdvmTypeOK
      <3>2. (parsedBytes \o buf) \o line = parsedBytes \o (buf \o line)
        BY <3>1, Joined, Zenon
      <3> QED
        BY <3>2 DEF Aligned
    <2>2. parsed \in Seq(Seq(Byte)) /\ frames \in Seq(Seq(Byte))
      <3>1. ModemFrames \subseteq Seq(Byte)
        BY MmdvmAssumption
      <3> QED
        BY <3>1, SeqMonotonic DEF MmdvmTypeOK
    <2>3. Len(parsed) <= Len(frames) /\ \A i \in 1 .. Len(parsed) : parsed[i] = frames[i]
      BY DEF Aligned
    <2>4. SubSeq(parsed, 1, Len(parsed)) = SubSeq(frames, 1, Len(parsed))
      <3>1. SubSeq(parsed, 1, Len(parsed)) = parsed
        BY <2>2, SubSeqFull
      <3>2. /\ SubSeq(frames, 1, Len(parsed)) \in Seq(Seq(Byte))
            /\ Len(SubSeq(frames, 1, Len(parsed))) = Len(parsed)
            /\ \A i \in 1 .. Len(parsed) : SubSeq(frames, 1, Len(parsed))[i] = frames[i]
        BY <2>2, <2>3
      <3> QED
        BY <2>2, <2>3, <3>1, <3>2, SeqEqual
    <2> QED
      BY <2>1, <2>3, <2>4 DEF IsPrefix
  <1> QED
    BY <1>1, FrameInit, FrameStep, PTL DEF MmdvmSpec
=============================================================================
