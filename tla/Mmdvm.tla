-------------------------------- MODULE Mmdvm --------------------------------
(***************************************************************************)
(* The MMDVM modem client (src/dmr/protocol/mmdvm.c, mmdvm_io.c): the      *)
(* framing of the byte stream that comes over the serial line, what a      *)
(* received frame does, and what is sent to the modem.                     *)
(*                                                                         *)
(* The sequence buf is mmdvm->frame[0 .. pos - 1].  Bytes are              *)
(* 0 .. FRAME_MAX, as in the code, where both end at 255.                  *)
(***************************************************************************)
EXTENDS Integers, Sequences, SequencesExt

CONSTANTS
    FRAME_MAX,      \* DMR_MMDVM_FRAME_MAX
    FRAME_START,    \* DMR_MMDVM_FRAME_START
    GET_VERSION, GET_STATUS, DMR_DATA1, DMR_DATA2, ACK,  \* dmr_mmdvm_command
    SET_MAX,        \* DMR_MMDVM_SET_MAX: the commands mmdvm->ack has room for
    SERIAL_AT, RXQ_AT, FRAME_AT,    \* how far behind mmdvm->ack these members lie
    POINTER_SIZE,   \* the bytes of a pointer
    ModemFrames,    \* the frames the modem may send
    StatusEvery,    \* dmr_mmdvm_send_raw: 6 frames
    MaxReceived,    \* bound: frames the modem sends
    MaxUnpolled     \* bound: frames sent to the modem without a status request

Byte == 0 .. FRAME_MAX
Models == {"G4KLX", "DVMEGA"}

ASSUME MmdvmAssumption ==
    /\ FRAME_MAX \in Nat /\ FRAME_MAX >= 3
    /\ {FRAME_START, GET_VERSION, GET_STATUS, DMR_DATA1, DMR_DATA2, ACK} \subseteq Byte
    /\ SET_MAX \in Byte /\ FRAME_AT \in Byte /\ POINTER_SIZE \in Nat
    /\ SET_MAX <= SERIAL_AT
    /\ SERIAL_AT + POINTER_SIZE <= RXQ_AT /\ RXQ_AT + POINTER_SIZE <= FRAME_AT
    /\ StatusEvery \in Nat \ {0}
    /\ MaxReceived \in Nat
    /\ MaxUnpolled \in Nat
    /\ \A f \in ModemFrames :
        f \in Seq(Byte) /\ Len(f) >= 4 /\ f[1] = FRAME_START /\ f[2] = Len(f)

VARIABLES
    instance,   \* "new", "started", "freed", or "crashed"
    model,      \* mmdvm->model
    line,       \* bytes on their way from the modem
    buf,        \* mmdvm->frame up to mmdvm->pos
    told,       \* what the modem told: protocol_version, modes and ack
    wild,       \* pointers of the structure that were written over
    packets,    \* packets queued for the repeater
    sent,       \* mmdvm->sent, modulo StatusEvery
    unpolled,   \* history: DMR frames sent since the last status request
    frames,     \* history: frames the modem has sent
    parsed,     \* history: frames that were parsed
    modemBytes, \* history: the bytes of the frames the modem has sent
    parsedBytes,\* history: the bytes of the frames that were parsed
    intact,     \* history: no shift of the buffer has lost a byte yet, and no
                \* answer to a command has written into the buffer or a pointer
    past        \* history: most bytes a read has written behind mmdvm->frame

history == <<frames, parsed, modemBytes, parsedBytes, intact, past>>
receiver == <<line, buf, told, wild, packets, history>>
sender == <<sent, unpolled>>
mmdvmVars == <<instance, model, receiver, sender>>

\* dmr_mmdvm_new.
MmdvmInit ==
    /\ instance = "new"
    /\ model \in Models
    /\ line = <<>>
    /\ buf = <<>>
    /\ told = [version |-> 0, modes |-> 0, ack |-> {}]
    /\ wild = {}
    /\ packets = <<>>
    /\ sent = 0
    /\ unpolled = 0
    /\ frames = <<>>
    /\ parsed = <<>>
    /\ modemBytes = <<>>
    /\ parsedBytes = <<>>
    /\ intact = TRUE
    /\ past = 0

----------------------------------------------------------------------------
(***************************************************************************)
(* Receiving.                                                              *)
(***************************************************************************)
\* The modem puts a frame on the line.
ModemSends(f) ==
    /\ instance = "started"
    /\ Len(frames) < MaxReceived
    /\ line' = line \o f
    /\ frames' = Append(frames, f)
    /\ modemBytes' = modemBytes \o f
    /\ UNCHANGED <<instance, model, buf, told, wild, packets, parsed, parsedBytes,
                   intact, past, sender>>

\* Shift the buffer until it begins with FRAME_START, or is empty.
Resync(b) ==
    LET starts == {i \in DOMAIN b : b[i] = FRAME_START}
    IN  IF starts = {} THEN <<>>
        ELSE SubSeq(b, CHOOSE i \in starts : \A j \in starts : i <= j, Len(b))

\* Mutant: with a header there, only the rest of its frame is read.
Room_rest(b) == IF Len(b) < 3 THEN FRAME_MAX - Len(b) ELSE b[2] - Len(b)

\* How much a call reads at once: what is free when it begins, for both reads.
Room(b) == FRAME_MAX - Len(b)

\* One read of at most room bytes: the buffer and the line after it, and where in
\* the array the last byte was written.
ReadOnce(b, l, room) ==
    {<<Resync(b \o SubSeq(l, 1, k)), SubSeq(l, k + 1, Len(l)), Len(b) + k>> :
        k \in {n \in 1 .. Len(l) : n <= room}}

\* With less than a header the code reads once more, which may find nothing.  The
\* bytes kept make that read end up to two bytes behind the array: in the padding
\* and in the lowest byte of mmdvm->trq, which nothing uses.
Reads ==
    LET first == ReadOnce(buf, line, Room(buf))
    IN  first \cup UNION {ReadOnce(r[1], r[2], Room(buf)) : r \in {s \in first : Len(s[1]) < 3}}

\* A header is there, and the length it gives.
Complete(b) == Len(b) >= 3 /\ Len(b) >= b[2]

\* Mutant: clearing begins one byte early.
Shift_clears_early(b) ==
    LET n == b[2]
    IN  [i \in 1 .. Len(b) - n |-> IF i < n THEN b[i + n] ELSE 0]

\* After a frame of n bytes the loop moves the n bytes behind it to the front
\* and clears the rest of the array, though up to Len(b) - n bytes are still to be
\* parsed.
Shift(b) ==
    LET n == b[2]
    IN  [i \in 1 .. Len(b) - n |->
            IF i <= n THEN b[i + n] ELSE IF i <= FRAME_MAX THEN 0 ELSE b[i]]

\* The byte at mmdvm->frame[i - 1]; behind pos it is one from an earlier frame.
ByteAt(b, i) == IF i <= Len(b) THEN {b[i]} ELSE Byte

\* mmdvm->ack[k] with k beyond the array is a later member of the structure: one
\* of its pointers, a byte of the buffer, or one nothing reads any more.
PointersAt(k) ==
    {p \in {"serial", "rxq"} :
        LET at == IF p = "serial" THEN SERIAL_AT ELSE RXQ_AT
        IN  at <= k /\ k < at + POINTER_SIZE}

\* The buffer after mmdvm->ack[k] = true.
AckWritten(b, k) == [i \in 1 .. Len(b) |-> IF i = k - FRAME_AT + 1 THEN 1 ELSE b[i]]

\* The buffer after a frame with that argument is parsed.
Parsed(b, arg) == IF b[3] = ACK THEN AckWritten(b, arg) ELSE b

\* An answer to a command writes outside of mmdvm->ack, where it matters.
Stray(b, arg) == b[3] = ACK /\ (PointersAt(arg) # {} \/ arg >= FRAME_AT)

\* dmr_mmdvm_parse_frame, and mmdvm_io_readable with its packet.  A packet's
\* timeslot is taken from the byte behind the command.  A pointer is written over
\* unless its byte was 1 before.  The program is lost when it follows one, or copies
\* a description of less than no bytes.
dmr_mmdvm_parse_frame(b, arg) ==
    LET packet == b[3] \in {DMR_DATA1, DMR_DATA2}
    IN  /\ told' = CASE b[3] = GET_VERSION -> [told EXCEPT !.version = arg]
                     [] b[3] = GET_STATUS -> [told EXCEPT !.modes = arg]
                     [] b[3] = ACK /\ arg < SET_MAX -> [told EXCEPT !.ack = @ \cup {arg}]
                     [] OTHER -> told
        /\ wild' \in IF b[3] = ACK THEN {wild, wild \cup PointersAt(arg)} ELSE {wild}
        /\ packets' = IF packet
                      THEN Append(packets, [ts |-> IF arg = DMR_DATA2 THEN "TS2" ELSE "TS1",
                                            payload |-> SubSeq(b, 5, b[2])])
                      ELSE packets
        /\ instance' = IF \/ packet /\ "rxq" \in wild
                          \/ b[3] = GET_VERSION /\ b[2] < 4
                       THEN "crashed" ELSE instance

\* With less than no room, or without a port to read from, a read ends the program.
Unreadable == "serial" \in wild \/ Len(buf) > FRAME_MAX

\* mmdvm_io_readable: dmr_mmdvm_read handles at most one frame a call.
mmdvm_io_readable ==
    /\ instance = "started"
    /\ \/ /\ Unreadable
          /\ instance' = "crashed"
          /\ UNCHANGED <<line, buf, told, wild, packets, parsed, parsedBytes, intact, past>>
       \/ /\ ~ Unreadable
          /\ \E r \in Reads :
              /\ line' = r[2]
              /\ past' = IF r[3] - FRAME_MAX > past THEN r[3] - FRAME_MAX ELSE past
              /\ IF Complete(r[1])
                 THEN \E arg \in ByteAt(r[1], 4) :
                         /\ dmr_mmdvm_parse_frame(r[1], arg)
                         /\ buf' = Shift(Parsed(r[1], arg))
                         /\ parsed' = Append(parsed, SubSeq(r[1], 1, r[1][2]))
                         /\ parsedBytes' = parsedBytes \o SubSeq(r[1], 1, r[1][2])
                         /\ intact' = (intact /\ Len(r[1]) <= 2 * r[1][2] /\ ~ Stray(r[1], arg))
                 ELSE /\ buf' = r[1]
                      /\ UNCHANGED <<instance, told, wild, packets, parsed, parsedBytes, intact>>
    /\ UNCHANGED <<model, frames, modemBytes, sender>>

----------------------------------------------------------------------------
(***************************************************************************)
(* Sending.                                                                *)
(***************************************************************************)
\* A write that failed for good returns before the frame is counted; any other,
\* a short one too, counts.
Counted == {"written", "short", "failed"}

\* dmr_mmdvm_send_raw of a DMR frame: every sixth on timeslot 2 is followed by
\* a status and a version request, whose own writes may fail unnoticed.
dmr_mmdvm_send_raw(command, outcome) ==
    LET n == IF command = DMR_DATA2 /\ outcome \in Counted
             THEN (sent + 1) % StatusEvery ELSE sent
        polls == command = DMR_DATA2 /\ outcome \in Counted /\ n = 0
    IN  /\ sent' = n
        /\ unpolled' = IF polls THEN 0
                       ELSE IF outcome = "gave up" THEN unpolled ELSE unpolled + 1

\* Mutant: a DVMEGA is sent frames on the timeslot they came from.
CommandFor_given(ts) == IF ts = "TS1" THEN DMR_DATA1 ELSE DMR_DATA2

\* The DVMEGA works on timeslot 2.
CommandFor(ts) ==
    IF model # "DVMEGA" /\ ts = "TS1" THEN DMR_DATA1 ELSE DMR_DATA2

\* dmr_mmdvm_send, called by push_proto.
dmr_mmdvm_send(ts, outcome) ==
    /\ instance = "started"
    /\ unpolled < MaxUnpolled
    /\ IF "serial" \in wild
       THEN instance' = "crashed" /\ UNCHANGED sender
       ELSE dmr_mmdvm_send_raw(CommandFor(ts), outcome) /\ UNCHANGED instance
    /\ UNCHANGED <<model, receiver>>

\* dmr_mmdvm_start sets mode and configuration; when the port cannot be opened or
\* set up, or a write fails, the instance is freed.
dmr_mmdvm_start ==
    /\ instance = "new"
    /\ instance' \in {"started", "freed"}
    /\ UNCHANGED <<model, receiver, sender>>

\* dmr_mmdvm_close, when the program ends or from mmdvm_io_error.
dmr_mmdvm_close ==
    /\ instance = "started"
    /\ instance' = IF "serial" \in wild THEN "crashed" ELSE "freed"
    /\ UNCHANGED <<model, receiver, sender>>

----------------------------------------------------------------------------
Outcomes == {"written", "short", "failed", "gave up"}

MmdvmNext ==
    \/ dmr_mmdvm_start
    \/ \E f \in ModemFrames : ModemSends(f)
    \/ mmdvm_io_readable
    \/ \E ts \in {"TS1", "TS2"}, o \in Outcomes : dmr_mmdvm_send(ts, o)
    \/ dmr_mmdvm_close

\* The loop serves a readable descriptor.
MmdvmFairness == WF_mmdvmVars(mmdvm_io_readable)

----------------------------------------------------------------------------
\* Every variable has its type.
MmdvmTypeOK ==
    /\ instance \in {"new", "started", "freed", "crashed"}
    /\ model \in Models
    /\ line \in Seq(Byte)
    /\ buf \in Seq(Byte)
    /\ told \in [version : Byte, modes : Byte, ack : SUBSET Byte]
    /\ wild \subseteq {"serial", "rxq"}
    /\ packets \in Seq([ts : {"TS1", "TS2"}, payload : Seq(Byte)])
    /\ sent \in 0 .. StatusEvery - 1
    /\ unpolled \in Nat
    /\ frames \in Seq(ModemFrames)
    /\ parsed \in Seq(Seq(Byte))
    /\ modemBytes \in Seq(Byte) /\ parsedBytes \in Seq(Byte)
    /\ intact \in BOOLEAN
    /\ past \in Nat

\* The second read of a call, which is given the room of the first, writes at most
\* two bytes behind mmdvm->frame, and the call then takes out so much that the next
\* one finds the bytes inside the array: the room it works out does not wrap around
\* (dmr_mmdvm_read, len and read_again), as long as the buffer is intact.
OverrunIsShort == intact => past <= 2 /\ Len(buf) <= FRAME_MAX

\* However the line cuts frames into pieces and runs them together, as long as
\* the buffer is intact the frames that are parsed are those the modem sent, in
\* order, and no byte is lost or invented, although the second read of a call may
\* write behind the array, by no more than two bytes (dmr_mmdvm_read).
FramesAsSent ==
    /\ intact => /\ IsPrefix(parsed, frames)
                 /\ parsedBytes \o buf \o line = modemBytes
    /\ OverrunIsShort

\* A DVMEGA has been sent fewer DMR frames than StatusEvery since it was last
\* asked for its buffer space, whatever timeslot they were received on and however
\* their writes went (dmr_mmdvm_send_raw: "Every 6th DMR data frame we request the
\* modem status").
DvmegaPolled == model = "DVMEGA" => unpolled < StatusEvery

\* As long as the buffer is intact the receiver never stops reading: all the modem
\* sent is taken off the line, unless the instance is closed.  (Once bytes were
\* lost, a payload can be taken for a header; one that gives the length 0 in a
\* full buffer is never shifted out.)
LineDrains == (instance = "started") ~> (line = <<>> \/ instance # "started" \/ ~intact)
=============================================================================
