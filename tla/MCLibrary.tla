----------------------------- MODULE MCLibrary -----------------------------
(***************************************************************************)
(* The HTTP server with its parser, the containers, the raw buffers with   *)
(* the frames built in them, the configuration, and logging, for TLC.      *)
(* They share no state, so one of them is chosen and the others stay as    *)
(* they began.                                                             *)
(***************************************************************************)
EXTENDS MCHttp, Queues, RbTree, SplayTree, RawQueue, HomebrewFrames, NoisebridgeConfig, LogError

VARIABLE part

httpVars == <<parserVars, urlVars, serverVars>>
containerVars == <<queueVars, idVars, splayVars>>
bytesVars == <<rawVars, rawqVars, frameVars>>
programVars == <<configVars, logVars>>
libraryVars == <<httpVars, containerVars, bytesVars, programVars, part>>

Parts == {"parser", "url", "server", "queue", "id", "splay", "raw", "rawq", "frames", "config", "log"}

TheNames == [id \in Ids |-> IF id = 3 THEN {"a", "b"} ELSE {"a"}]

\* The last of them ends where an allocation does when four bytes stand before it.
TheTexts == {<<65>>, <<66, 67, 68>>, [i \in 1 .. 124 |-> i]}
TheWords == {[size |-> 1, value |-> 171], [size |-> 2, value |-> 4660],
             [size |-> 4, value |-> 19088743]}

\* Every data type, the two frames of a superframe that are numbered, and
\* sequence numbers on both sides of a byte.
ThePackets ==
    [ts : {0, 1}, flco : {0, 1}, data_type : 0 .. DATA_TYPE_INVALID \cup {SYNC_VOICE, VOICE_SYNC, VOICE},
     voice_frame : {0, 5}, sequence : {255, 256}, src_id : {2042214}, dst_id : {9},
     repeater_id : {204342}, stream_id : {77777777}, packet : {[i \in 1 .. PACKET_LEN |-> i]}]

\* Texts shorter and longer than the fields of a configuration frame.
TheFieldTexts == {<<>>, <<65>>, [i \in 1 .. 25 |-> 65], [i \in 1 .. 130 |-> 65]}

TheDigest == [i \in 1 .. 32 |-> 7 * i]

TheKeys == [s \in SectionKinds \cup {"top"} |->
    CASE s = "repeater" -> {"script", "timeout", "x"}
      [] s = "httpd" -> {"bind", "port", "root", "x"}
      [] s = "homebrew" -> {"name", "port", "tx_power", "host", "x"}
      [] s = "mbe" -> {"name", "quality", "x"}
      [] s = "mmdvm" -> {"name", "color_code", "port", "model", "x"}
      [] OTHER -> {}]

TheAsked == {-1, 0, 1, 2, 4, 6, 7, 9}

Init ==
    /\ part \in Parts
    /\ ParserInit /\ (part # "parser" => wire = Req(<<Old>>))
    /\ UrlInit /\ (part # "url" => url = <<>> /\ ~isConnect)
    /\ ServerInit /\ (part # "server" => request = Requested(IndexPath, Slash))
    /\ QueueInit /\ (part # "queue" => kind = "SLIST")
    /\ IdInit /\ SplayInit
    /\ RawInit /\ dmr_rawq_new /\ FrameInit
    /\ part # "rawq" => rawq.limit = 0
    /\ ConfigInit /\ LogInit

Http ==
    \/ part = "parser" /\ ParserNext /\ UNCHANGED <<urlVars, serverVars>>
    \/ part = "url" /\ UrlNext /\ UNCHANGED <<parserVars, serverVars>>
    \/ part = "server" /\ ServerNext /\ UNCHANGED <<parserVars, urlVars>>

Containers ==
    \/ part = "queue" /\ QueueNext /\ UNCHANGED <<idVars, splayVars>>
    \/ part = "id" /\ IdNext /\ UNCHANGED <<queueVars, splayVars>>
    \/ part = "splay" /\ SplayNext /\ UNCHANGED <<queueVars, idVars>>

Buffered ==
    \/ part = "raw" /\ RawNext /\ UNCHANGED <<rawqVars, frameVars>>
    \/ part = "rawq" /\ RawqNext /\ UNCHANGED <<rawVars, frameVars>>
    \/ part = "frames" /\ FrameNext /\ UNCHANGED <<rawVars, rawqVars>>

Program ==
    \/ part = "config" /\ ConfigNext /\ UNCHANGED logVars
    \/ part = "log" /\ LogNext /\ UNCHANGED configVars

Next ==
    /\ UNCHANGED part
    /\ \/ Http /\ UNCHANGED <<containerVars, bytesVars, programVars>>
       \/ Containers /\ UNCHANGED <<httpVars, bytesVars, programVars>>
       \/ Buffered /\ UNCHANGED <<httpVars, containerVars, programVars>>
       \/ Program /\ UNCHANGED <<httpVars, containerVars, bytesVars>>

Spec == Init /\ [][Next]_libraryVars

\* Both trees of tree.h hold the keys given to them in order, at every turn of
\* their loops, and the red-black one is balanced between them.
TreesKeepKeys == RedBlack /\ AnswersAsDictionary /\ SplayKeepsKeys
=============================================================================
