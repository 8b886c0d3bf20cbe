----------------------------- MODULE MCReceive -----------------------------
(***************************************************************************)
(* What a protocol receives, for TLC: the queue between a link's reader    *)
(* and the repeater, the serial line of a modem, and the port to it.  The  *)
(* queue shares no state with a modem, and what a modem sends shares with  *)
(* what it is sent only the pointer to the port, so one of the three is    *)
(* chosen and the others stay as they began; a modem is sent frames while  *)
(* it sends some only once a pointer was written over.                     *)
(*                                                                         *)
(* The frame counts bound the run.  Frames are shorter than the modem's,   *)
(* in proportion to the buffer, so that it fills up; one payload contains  *)
(* FRAME_START.  Two answers are to commands behind the end of ack[].      *)
(***************************************************************************)
EXTENDS RxPath, Mmdvm

VARIABLE part

receiveVars == <<vars, mmdvmVars, part>>

TheFrames ==
    {<<FRAME_START, 4, ACK, 3>>,                           \* answer to a set command
     <<FRAME_START, 4, ACK, SERIAL_AT>>, <<FRAME_START, 4, ACK, FRAME_AT + 5>>,
     <<FRAME_START, 5, GET_STATUS, 2, 7>>,                 \* status
     <<FRAME_START, 7, DMR_DATA2, 6, FRAME_START, 0, 5>>}  \* a packet

ReceiveInit ==
    /\ part \in {"queue", "line", "port"}
    /\ Init /\ MmdvmInit
    /\ part # "port" => model = "G4KLX"

ReceiveNext ==
    \/ part = "queue" /\ Next /\ UNCHANGED <<mmdvmVars, part>>
    \/ part = "line" /\ MmdvmNext /\ (wild = {} => UNCHANGED sender) /\ UNCHANGED <<vars, part>>
    \/ part = "port" /\ MmdvmNext /\ UNCHANGED <<frames, vars, part>>

ReceiveSpec == ReceiveInit /\ [][ReceiveNext]_receiveVars /\ RxFairness /\ MmdvmFairness
=============================================================================
