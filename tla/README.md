# TLA+ models of dmrlib

dmrlib is a C library for Digital Mobile Radio (ETSI TS 102 361) with a small
set of programs. The main one is *noisebridge*: it connects DMR networks
("protocols": a Homebrew IPSC master reached over UDP, an MMDVM modem on a
serial port) and relays the frames received from one to the others, under the
control of a Lua script. This directory holds TLA+ models of the parts that
carry state and interact, TLC configurations that check them on small
instances, and TLAPS proofs of what holds for every instance.

## 1. Inventory

### Parts, their state and their operations

| Part | Source | State | Operations |
|---|---|---|---|
| Call state machine | `src/src/cmd/noisebridge/repeater.c` | two timeslots (`state`, `last_frame_received`, the packet that opened the call) and the slot timers in the loop | `push_proto`, `slot_timer`, `new_*_call`, `end_*_call` |
| Routing script | `repeater.c` `route`, `script.c` | one Lua state whose stack lives as long as the program | one `lua_pcall` per destination, `lua_modify_packet` |
| Homebrew client | `src/src/dmr/protocol/homebrew.c`, `homebrew_io.c` | `state`, `nonce`, `last_ping`, `last_pong` | `dmr_homebrew_auth`, `_read`, `_send`, `_close`, the ping timer, the error callback |
| I/O loop | `src/src/dmr/io.c` | a list of entries per kind of request, timers, a count, three descriptor sets, `closed` | `dmr_io_reg_*`, `dmr_io_del_*`, `dmr_io_close`, `dmr_io_loop`, the signal handler |
| Receive path | `io.c`, `homebrew_io.c`, `mmdvm_io.c`, `packetq.c`, `repeater.c` `poll_proto_*` | the protocol's `rxq`, the order of the read callbacks | reading, queueing, draining |
| MMDVM modem | `src/src/dmr/protocol/mmdvm.c`, `mmdvm_io.c` | receive buffer `frame` and `pos`, `ack`, version, status, count of frames sent | `dmr_mmdvm_read`, `_parse_frame`, `_send`, `_start`, `_close` |
| Raw buffers | `src/src/dmr/raw.c` | buffer, length, allocation; queue with limit | append, encode, grow, reset; add, shift, unshift |
| HTTP parser | `src/src/cmd/noisebridge/http_parser.c` | `state`, `header_state`, `index`, `flags`, `nread`, `content_length` | `http_parser_execute`, `http_parser_parse_url` |
| HTTP server | `src/src/cmd/noisebridge/http.c` | clients, their parser, their I/O entries | accept, read, respond, error |
| Containers | `src/include/dmr/queue.h`, `tree.h`, `src/src/dmr/id.c` | intrusive pointers, node colours | insert, remove, find, walk, splay |
| Codes and payloads | `src/src/dmr/fec/`, `payload/`, `packet.c`, `crc.c`, `bits.c` | tables; the matrix that collects embedded signalling | encode, decode, check and repair |
| Voice codec | `src/src/mbelib/` | three sets of vocoder parameters that are copied around | correct, unscramble, decode, predict, conceal |
| Threads | `src/src/dmr/thread.c` | mutex, condition, once flag, list of thread-specific values | lock, wait, signal, call once, destroy |
| Configuration, main program | `config.c`, `main.c` | the section being read, the protocols | one line at a time; start in order |
| Log and errors | `log.c`, `error.c` | priority, callback; last error of each thread | log, set, clear |
| Tools | `src/src/cmd/*` | | read, print or send in a loop |

`PROJECT.json` lists the same parts with what is modelled of each.

### How they interact

noisebridge is single threaded (the thread layer is there for other users of the library).
`init_repeater` sets up each protocol (it registers a *poll* callback for the protocol's
descriptor, then calls `dmr_io_add_protocol`, which registers the protocol's own *readable*,
*error* and timer callbacks), registers a one-shot SIGINT handler and enters `dmr_io_loop`.
From there everything happens in callbacks of the loop:

    select -> expired timers:   homebrew_io_ping_timer, slot_timer
           -> per descriptor:   error, then readable (protocol), poll (noisebridge),
                                then writable
    readable: read one datagram or frame, append the packet to rxq
    poll:     shift packets off rxq, push_proto each
    push_proto: open, continue or end a call; for every other protocol ask the
                Lua script, then send

Callbacks register and delete entries of the lists the loop is walking, and the
signal handler runs between any two instructions of it.

### What is hard

* Calls on two timeslots share timers that are told apart by nothing.
* The slot timeout depends on a time that must be refreshed by every frame.
* The Lua stack outlives each call; what one call leaves is seen by the next.
* The login is a sequence of UDP exchanges without retry, in which the
  acknowledgements of two different requests are the same datagram.
* A callback's return value, a signal, `io->closed` and `select` meet in one loop.
* Lists are walked while callbacks free their entries.
* A frame is relayed in the round it arrived in only because of the order in
  which two callbacks were registered.
* A serial stream must be cut into frames whatever pieces it arrives in.
* Four encoders write into one burst, and their decoders must read what they wrote
  through a channel that inverts bits.
* The embedded link control arrives in four pieces, in a matrix that is reset by one
  call only; its repair may make worse what its check must then refuse.
* A voice stream is concealed from parameters that damaged frames have already
  written to, in arrays that longer frames have filled.
* An HTTP message is cut anywhere, and the parser goes on from a dozen fields alone.
* Intrusive lists and trees hold the same fact in two or three pointers; one that is
  not moved shows several operations later.
* A condition variable is built from events and a count, between an unlock and a wait.
* A packet is owned by the queue, the reader or the relay; freeing it in two
  places, or in none, shows only later.

The list `hazards` of `PROJECT.json` gives these with their
line and the properties that watch over it.

## 2. Modules

| Module | Models | Checked by |
|---|---|---|
| `SlotOwnership` | abstract: a timeslot is a lock that a stream takes | refined by `Repeater` |
| `Repeater` | `push_proto`, calls, slot timers | its two configurations, `RepeaterProofs` |
| `LuaRoute` | `route`, `lua_modify_packet`, the loop over destinations | `MCLuaRoute`, `LuaRouteProofs` |
| `Homebrew` | the client, an unreliable network, an external master | its configuration, `HomebrewProofs` |
| `DmrIo` | the select loop, its registrations and its walks | `MCDmrIo`, `DmrIoProofs` |
| `RxPath` | from a readable descriptor to `push_proto` | its configuration, `MCReceive`, `ReceiveProofs` |
| `Mmdvm` | the modem client: framing, received frames, sending | `MCReceive`, `ReceiveProofs` |
| `BurstCodes` | the codes of `fec/` as linear codes | through the modules that use it |
| `Burst` | one burst with its encoders and decoders, and the channel | `MCCodec` |
| `EmbSignalling` | link control over four bursts | `MCCodec` |
| `DataBlocks` | data headers and rate 3/4 blocks, CRC, trellis | `MCCodec` |
| `MbeEcc`, `MbeFields` | voice frames: error correction; which bit goes where | `MCCodec` |
| `MbeVoice` | what is played for a stream of voice frames | `MCCodec`, `VoiceProofs` |
| `HttpSyntax`, `HttpParser` | `http_parser.c` | `MCLibrary` (constants in `MCHttp`) |
| `HttpUrl` | `http_parser_parse_url` | `MCLibrary`, `LibraryProofs` |
| `HttpWire` | abstract: messages, what is written for them and what a reader is owed | `MCLibrary` |
| `HttpServer` | one client of `http.c` | `MCLibrary` |
| `Queues` | `queue.h` | `MCLibrary`, `LibraryProofs` |
| `SplayTree`, `RbTree` | `tree.h` and the id map | `MCLibrary` |
| `RawBuffer`, `RawQueue` | `raw.c` | `MCLibrary`, `LibraryProofs` |
| `HomebrewFrames` | the bytes of the Homebrew frames, built in a `RawBuffer` | `MCLibrary`, `LibraryProofs` |
| `NoisebridgeConfig` | `config.c` and `main.c` | `MCLibrary`, `LibraryProofs` |
| `LogError` | `log.c` and `error.c` | `MCLibrary`, `LibraryProofs` |
| `ThreadSync`, `CallOnce`, `ThreadLocals`, `ThreadTime` | the Win32 half of `thread.c` | `MCThread`, `ThreadProofs` |

A module whose constants need no definitions of their own (`Repeater`, `Homebrew`,
`RxPath`) is checked as it is; the others have an MC module that defines them.
`MCReceive`, `MCCodec`, `MCLibrary` and `MCThread` put parts side by side that share no
state: their variable `part` is chosen in the initial state, the chosen part takes its
steps and the others stay as they began. A state of such a run is a state of one part.

A module states several named properties where its part has several ways to go wrong, and
one that joins them (`BurstReadBack`, `LocksSound`, `RawSound`, ...); the runs check the
joined ones.

Definitions keep the names of the functions they translate; `map` in
`PROJECT.json` gives the lines of each. Definitions whose comment begins with
"Mutant" are not part of a specification: each one is a plausible mistake in the
definition below it, and shows that some property would notice it.

### Repeater

`ts[t]` is `repeater->ts[t]`; the packet stored at the start of a call is kept
as its stream identifier, which is all that is compared later. `timers` are the
`slot_timer` entries of the loop, each as its deadline less `io->wallclock`.
`push_proto` is one action: it first lets the frame change the slot (`IdleFrame`,
`CallFrame`) or drops it (`PushIgnored`), then offers it to every protocol but
its source (`Route`; which of them get it is the script's choice, left open here
and made in `LuaRoute`). `new_voice_call` and `new_data_call` return early when
the slot is already in their state, but `push_proto` sets the state before it
calls them, so both tests see the state just set and the timer is always
registered. Ending a call removes the *first* timer whose callback is
`slot_timer`, whoever registered it. `HandleTimers` is one pass of
`io_handle_timers`: the wall clock moves by `elapsed`, expired timers call
`slot_timer` with the real clock `lag` ahead, and are armed again.
`last_frame_received` is never assigned by the code, and so never here.

### LuaRoute

The stack is a sequence of Lua values, bottom first. A value is its type and what
it holds. The four fields that a script may rewrite are one value of `Fields`,
since they are read and written together. A call pushes its return value or, on
failure, its message (which stays: `route_failed`). Booleans are read at index 1,
tables at index 1, the type at the top, as the code does. A table without an
integer field, or an index-1 value that is no table, ends in a Lua error outside
`lua_pcall`, which aborts the program.

### Homebrew

The client's phases are before and after `dmr_homebrew_auth`, stopped by SIGINT,
and freed by `homebrew_io_error`. Datagrams are records in a bag for each
direction: a bag is a network that reorders; the faults `loss`, `repeat` and
`refusal` of the variable `network` add losing, repeating, and a master that
refuses or restarts. The master is not in this repository; it is modelled from
what the client's states presume (a challenge for a login, acknowledgements for
key and configuration, pongs) and marked external. The bytes of the frames are `HomebrewFrames`'s.
A callback's return value closes nothing
(`homebrew.c:236` and `homebrew_io.c:81` call it "request closing from the I/O loop",
but `io_handle_readable` and `io_handle_timers` drop it), so a refused client stays up,
idle. `since_pong`
saturates one second past the timeout, where all comparisons are decided.

### DmrIo

An entry is its address, descriptor, callback and one-shot flag; an address is
reused only when nothing holds it. The loop is cut at the points where other code
runs: `select`, each callback, and the step between two entries of a walk. Within
a callback any number of registrations, deletions and `dmr_io_close` may happen
before `CallbackReturns`; `io_handle_signal` may happen at any point. Following a
pointer to an entry that was freed leads to `undefined`; `cut` remembers whether a
callback has freed the entry it was called for, or the one the walk had saved as the next.

Two facts about this code show in the model. `dmr_io_reg_close` does not count its entry
and `io_handle_close` does not count it out, so `io->entries` is not the "total number of
entries in all lists" of `io.h:81`; `LoopRunsForWork` states what the loop makes of it.
And an interrupt can be lost: `dmr_io_loop` clears `io->closed` when it starts
(`io.c:295`), after a handler registered earlier may have set it, and a `select` that a
signal interrupts is called again without a look at `io->closed` (`io.c:312`);
`CloseEndsLoop` claims the end only from inside the loop and not for a loop that waits in
`select` with no timer.

### RxPath

Setup is part of the model, because the order of the two read callbacks is what
the properties rest on: `init_proto` registers *poll*, `dmr_io_add_protocol` later
registers *readable* in front of it. `FreesQueued` is TRUE for the modem, whose
`mmdvm_io_readable` frees the packet it has queued; the contents of a freed packet
are either still there or anything else.

### Mmdvm

`buf` is `frame[0 .. pos - 1]`. `mmdvm_io_readable` reads what has arrived, drops what comes
before a start byte, and handles at most one frame.
`Shift` is the loop after it: it moves as many bytes as the handled frame was long and
clears everything behind, so when more bytes than that had been read, some are lost;
`intact` remembers whether this has happened, and the properties say what holds until
then; `modemBytes` and `parsedBytes` remember all that the modem sent and all that was
handled. After a loss a payload may be taken for a header; one that gives the length 0 at
the head of a full buffer is never shifted out, and the receiver is stuck for good.

`dmr_mmdvm_read` works out its room once (`mmdvm.c:274`) and uses it for both reads of a
call (`mmdvm.c:309`), the second of which begins behind what the first has kept: it may
write up to two bytes behind `frame[]`, into the padding and the lowest byte of `trq`,
which nothing uses. `past` remembers how far; `OverrunIsShort`, a part of `FramesAsSent`,
bounds it, and says that the call then takes out so much that the next one finds all of
its bytes inside the array. An answer to a command sets `ack[frame[3]]` with whatever byte
the modem sent (`mmdvm.c:250`): beyond the 15 elements of the array lie the pointers
`serial` and `rxq`, the buffer, and bytes that nothing reads. `SET_MAX`, `SERIAL_AT`,
`RXQ_AT`, `FRAME_AT` and `POINTER_SIZE` are that layout, `wild` the pointers that have
been written over, and whoever follows one crashes. `intact` ends with such a stray write
too. Bytes behind `pos` that the parser looks
at are left open. A write to the modem ends in one of four ways, of which giving up
after 16 retries alone leaves the frame uncounted; a short write leaves the rest of the
frame unsent and counts as sent. `dmr_mmdvm_start` is one step.

### BurstCodes and Burst

A word is the set of the positions of its one bits, so exclusive or is the symmetric
difference and every code is a parity of set sizes. The tables of the code (logarithms
of GF(256), Golay encoder and decoder, QR encoder) are replaced by the linear codes
they tabulate. For a syndrome that no pattern of up to three errors has, the Golay
decoder's table holds some heavier pattern; the model then says nothing (`None`).

`Burst` has one action per encoder and `Flip` for the channel; `lc`, `sync`, `slot` and
`emb` remember what was encoded last and not overwritten since. The model shows these
peculiarities of the code: `dmr_bptc_196_96_encode` writes the whole packet and takes
its middle from an array it never filled (`StackBits`); the BPTC decoder checks column 1
only and the Hamming decoder repairs nothing; `dmr_slot_type_decode` masks the wrong
bits of `packet[19]`, so that a slot type whose encoding has ones where bits are lost and
zeros where sync bits come in is misread after a sync pattern that ends in two ones
(colour code 7 with a voice header, for one); `dmr_emb_decode` reads colour code and
privacy indicator from other bits than `dmr_emb_encode` writes.

### EmbSignalling and DataBlocks

The sender packs a link control into a matrix of eight rows of 16 cells and takes four
fragments of 32 bits from it; the receiver adds fragments at an offset that only wiping
sets back, then checks, repairs and reads. A matrix is the set of its one cells, and a
new one holds whatever the heap held (`HeapCells`). `dmr_emb_encode_lc` converts
`sizeof` of a pointer bytes, so the ninth byte of the link control is not sent: the
properties compare with the bits that were encoded. The encoder ors column parities
where the checker adds them modulo two; `CleanAccepted` says exactly which undamaged
matrices this refuses.

A data header is the 96 bits of a BPTC with a CRC that is computed and only warned of.
The trellis decoder reads the burst in place of its two halves and packs bytes from an
array it has cleared: a rate 3/4 block comes out empty or is refused. The model has
both, and what remains true of headers is `HeaderNeverWrong`.

### MbeEcc, MbeFields and MbeVoice

`MbeEcc` is one voice frame of each of the four formats, damaged row by row, through
correction and unscrambling. `golayMatrix` is replaced by what it holds (for every
syndrome of up to three errors their data bits). `hammingMatrix` is not: it fits its
codes in some columns only, which `Repairable` names. `MbeFields` decodes every pitch of
every codec and keeps which bit goes where and which index is used. `MbeVoice` is the
stream: `cur_mp`, `prev_mp` and `prev_mp_enhanced` hold, for each band, the frame an
amplitude was decoded from and how often it was enhanced. A frame's amplitudes are thus
told apart without their values; floating point, phases and synthesis are left out.

### HttpSyntax, HttpParser, HttpUrl, HttpWire, HttpServer

`HttpParser` has one operator per state of `http_parser_execute` and runs one call of it
per step, over whatever a read returned; `HTTP_PARSER_STRICT` is 1, as by default.
Characters are one representative for each class the code distinguishes, and the words
matched letter by letter (methods, `Content-Length`, `chunked`, ...) are shortened to
prefixes that still pass through every matching state. `HttpWire` does not know the
parser: it says what text stands for a message and which callbacks its reader is owed,
and `StreamReadBack` compares. For malformed text there is no such promise;
`AnyInputHandled` compares the reads with one read of everything.

`HttpServer` is one client from accept to close. The read entry is one-shot and nothing
registers another, so a request that comes in two pieces is answered after the first,
with 404 if it was cut: `NothingElseServed` claims that it is never answered as another.
`AnswerHeadReadable` and `BodyShifted` give what is written to the project's own parser:
the head says what was meant, and the content comes one byte late, because `http.c:71`
ends the head with `\n\r` (below). A path that does not fit `request_path`
(`http.c:630`) makes the program undefined; a second request behind the first in one read
is not modelled.

### Queues, SplayTree, RbTree

`Queues` has the macros of all five kinds on heads with shared elements, pointers as
places, and free elements with stale pointers. An address is the set of its one bits, so
that the cookie of an XSIMPLEQ masks it as the code does. The trees run their loops one turn per
step. tree.h writes everything twice, for left and right; the models write it once with
the side as a parameter. `RbTree` is the tree of `id.c`, whose order is reversed.

### RawBuffer, RawQueue, HomebrewFrames

A buffer is as long as its allocation, so that a write past its end is seen; `added` is
what the calls so far stand for. Two things the calls stand for are not what `raw.h` says
and are stated as the code has them (`CutDigits`, `AddUintLe`): see below.
`HomebrewFrames` builds the frames with these operators and compares them to their last
byte, the identifier's cut digit included; the key frame is 32 zero bytes longer than it
should be. Identifiers that are read stay the bytes they are read from: the conversions of
`homebrew.c:333-335` and `:350` are in `common/byte.h`, which is not in this repository.

### NoisebridgeConfig and LogError

One action per kind of line, by section, with the defaults, the checks at a closing brace
and at the end of the file; then the steps of `main`. A value is what `atoi` makes of it.
`given` remembers what the file said; a protocol key is given once, a time limit as often
as the file likes. The time limit is set back by every line between the sections
(`Defaults`), so what remains of it is the last section's (`TimeLimitOfLastSection`).
`LogError` has priorities with the unsigned
comparison of the clamp, callbacks, and the last error of each thread. That threads do not
see each other's error is thread-local storage, and is so in the model by construction.

### ThreadSync, CallOnce, ThreadLocals, ThreadTime

On POSIX every call is one pthread call; modelled is the Win32 half, which builds them.
`ThreadSync` is a mutex of any of four types with a condition variable, used by consumers
that wait while there is nothing and producers that add and wake. A step is a system
call. Waits may time out, and a thread may exit holding a kernel mutex. `CallOnce` reads
its status word twice per turn of the loop. `ThreadLocals` has values that are the
generation of their key, to see a value reach the destructor of a later use of the same
index. `ThreadTime` is the arithmetic of deadlines, with DWORD as a modulus.

### Where the code is not what a document says

Four runs show disagreements that are findings. The following are in the models too. A
property that meets one of them is stated for what the code does and names the line, in
its comment and here; none of them is hidden by a bound.

* `io.h:81` calls `io->entries` the "total number of entries in all lists":
  `dmr_io_reg_close` does not count (`io.c:523-540`). `LoopRunsForWork` leaves close entries out.
* `raw.h:57,75` and `raw.rst:84,108` call numbers "little endian" that are written with the
  most significant byte first, because `swap_uint32` is followed by an encoder that starts
  from the least (`raw.c:88-92,100-103`). `raw.h:66-78` and `raw.rst:90-112` call numbers
  "hex encoded" of which the last digit is a NUL (`raw.c:113`), the identifiers of the login
  frames among them (`homebrew.c:104`). `RawSound` and `FramesReadBack` have both.
* `homebrew.c:302`: the data type `SYNC_VOICE` does not fit its four bits and is read back
  as a privacy indicator. `PacketsReadBack` says so.
* `noisebridge.cfg.example:15-18` gives the time limit in its first section, and
  `config.c:366-367` ("Defaults") takes it back at the first line after it.
  `TimeLimitOfLastSection` says what remains. A key whose field has a default other than 0
  (`port`, `quality`, the modem's `color_code`) can never be given: `CONFIG_INT`
  (`config.c:62-64`) takes the default for an earlier line (`:218`, `:258`, `:284`).
* `thread.h:262-264` says that a signal unblocks one of the threads that wait: two signals
  set one event, and the second is lost if no waiter ran in between (`thread.c:351`).
  `WaitersServed` excepts it (`merged`), and a kernel mutex that was abandoned, or tried by
  its owner, and is lost (`HandleLost`; `thread.c:119`, `:251`).
* `thread.h:420` says that a destructor "will definitely be called when appropriate": that of
  every key between the first and the last that the thread has set is not
  (`thread.c:866-873`).
  `ValuesDestroyed` says which are.
* `thread.h:296-297` says that a wait ends "after the specified time": it may end up to a
  millisecond before (`thread.c:457-460`). `CondTimeoutToTheMs` says when.
* `http.c:70-71` ends the head with `\n\r` where a message has `\r\n`: a reader takes the
  `\r` for the first byte of the content and misses the last. `BodyShifted` says so.
* `crc.c:4`: the CRC-9 of a confirmed block does not depend on its data, and the trellis
  decoder's bytes stay empty: nothing of a rate 3/4 block is decoded. The model has it
  (`ReceiveBlock`), and there is nothing to claim of it. `crc.c:60`: `dmr_crc16_finish` makes
  half of its shifts.

### What the models show and no document speaks of

* A lost datagram of the login is never sent again: the client waits for ever
  (`homebrew.c:172`). `LoginCompletes` is about a network without loss.
* A repeated acknowledgement of the key is taken for that of the configuration
  (`homebrew.c:210`): the client's login ends before the master has the configuration.
  `LoginAgreed` is about networks that repeat nothing.
* `io.c:123`: a one-shot error entry clears its descriptor from the write set.
* `mmdvm.c:428`: a short write leaves the rest of a frame unsent and is reported as success;
  `mmdvm.c:241`: the timeslot of a received packet is not the one its command names.
* `http_parser.c:1549`: a callback that pauses at the end of a value skips the count of the
  head's length. `http_parser.c:1736`: a folded line undoes `Connection: close`.
* `http.c:697`: a read that would block is repeated inside the callback.
* `config.c:394`: one protocol too many overwrites their count; `:372`: a brace without a
  name is read through NULL; `:194`: a file that ends inside a section is not checked.

## 3. Runs

| Run | Checks | Result |
|---|---|---|
| `repeater_calls` | `TimersMatchCalls`, refinement `SlotsSpec` | holds |
| `repeater_silence` | `SilentSlotsAreFreed` | violated: the slot timeout never fires |
| `lua_stack` | `PlainScriptObeyed`, `TopDecisionsObeyed` | holds |
| `lua_script` | `ScriptObeyed` | violated once the script has returned a table |
| `homebrew_login` | `KeyWasAccepted`, `UnansweredPingsBounded`, `LoginAgreed`, `NonceStable`, `LoginCompletes` | holds |
| `io_loop` | `LoopRunsForWork`, `WatchedFdsHaveEntries`, `DanglingOnlyIfCut`, `CloseEndsLoop` | holds |
| `io_http` | `NoDanglingEntry` | violated by a callback that deletes its own entry |
| `receive_paths` | `RelayedAsReceived`, `EveryFrameRelayed`, `FramesAsSent`, `DvmegaPolled`, `LineDrains` | holds |
| `rx_mmdvm` | `RelayedAsReceived` | violated: a queued packet is freed |
| `codec_frames` | `BurstReadBack`, `LcNeverWrong`, `EmbLcReadBack`, `HeaderNeverWrong`, `VoiceBitsPlaced`, `VoiceReadBack`, `RightFrameHeard` | holds |
| `library_parts` | `StreamReadBack`, `AnyInputHandled`, `UrlFieldsRight`, `ClientsAnswered`, `QueuesAsSequences`, `TreesKeepKeys`, `RawSound`, `FramesReadBack`, `ConfigAsGiven`, `ReportsRight` | holds |
| `thread_sync` | `LocksSound`, `WaitersServed`, `OnceBeforeUse`, `ValuesDestroyed`, `DeadlinesKept` | holds |

The violated ones state what a comment, a script or a document of the repository
says; `findings` in `PROJECT.json` quotes the line.

### Bounds

* `repeater_calls`: two protocols, two streams, both timeslots, `Timeout` 2 with
  steps of up to 3, so a timer expires in one step or after several, and a callback
  may be faster or slower than the timeout; at most 4 timers, two more than there
  can be calls, so that two calls can time out and be followed by two others. The
  bound on timers is a bound of the model only: the program's list grows.
* `lua_*`: three protocols (two destinations: the one decided first can influence
  the second), two field values, stacks of up to 18 or 24 values, enough for two
  rewrites and the decisions after them.
* `homebrew_login`: ping period 2 and pong timeout 4 keep the code's ratio of 5 to 10
  seconds, which decides how many pings fit; two nonces distinguish a stale
  challenge from the current one; two datagrams in flight each way allow
  one to overtake another. The network is one of four: without faults, with loss and
  refusals, with loss and repetition, with repetition and refusals.
* `io_*`: three addresses allow two entries of a list and a third being
  added or freed; the registrations are those the program makes (`MCDmrIo`), and for
  the other kinds one of each. In both runs a callback may delete the entry it is called
  for, as those of the HTTP server do.
* `receive_paths`, `rx_mmdvm`: for the Homebrew queue four frames, up to three waiting, mixed
  with data that is no frame. The modem sends up to three frames of 4 to 7 bytes into a
  buffer of 16, so that it can be full with two frames and a part of the next, that a
  second read ends behind it, and that a short frame is followed by more bytes than its
  shift moves; one payload contains a start byte and a zero, and two answers are to
  commands behind the end of `ack[]`, one in a pointer and one in the buffer.
* `codec_frames`: two link controls (a group and a private call, identifiers at both ends of
  their range), four sync patterns, three slot types, two headers, and nine bits that can be
  inverted, up to three at a time, chosen so that three of them pass the row parity of the
  BPTC and others hit the bits that two encoders share. Two embedded link controls in up to
  five fragments, one more than a matrix takes, seven cells of which two can be inverted.
  Embedded signalling in a burst would be misread at four or five inverted bits, which are
  not reached. Nine data headers, one of each format, with up to two inverted bits. Voice:
  all pitches of every codec (128 and 256), up to three errors in each row, in the same
  three columns; streams of six frames with 2, 3 or 5 of at most 6 bands, so that frames get
  longer and shorter, and four damaged ones, which is one more than are concealed.
* `library_parts`: a largest length of 255, heads of up to 100 and answers of up to 200
  characters, which some of the messages exceed; reads of 1, 2, 7 and 40 characters, which
  cut every message at every place or not at all. Addresses are seeds and up to four more
  typed characters. Three elements on two queues; seven identifiers; seven operations on a splay
  tree of four keys. Buffers that grow by steps of 128 bytes, from 0 or 4, with a text that
  ends where the first step does; queues without limit and of two. Seven lines of
  configuration and two places for protocols: two sections are complete, a third meets the
  full table. Two threads that report errors.
* `thread_sync`: two consumers, one of which waits with a time limit, and a producer, which
  allows a wakeup to be taken by the wrong one; three callers of `dmr_call_once`, so that
  one comes late to a lock that another waits for; two signals, the second of which may meet
  the first; a thread with three keys, one of which another thread deletes and creates
  again; times that borrow between seconds and nanoseconds, and a DWORD of 16.

Addresses of entries are interchangeable in `io_http`, which checks no liveness; no other
run uses symmetry.

### Fairness

`Repeater!FairSpec`: the loop passes over the timers while some are registered and
time moves on (`select` returns at the latest when the first timer expires).
`Homebrew!FairSpec`: the loop serves a readable socket and an expired timer, time
passes, and the master handles what it receives; nothing is assumed of losses.
`DmrIo!FairSpec`: steps of the loop are taken and callbacks return; `select` must
return only when a timer bounds its wait, because otherwise nothing obliges it to.
`RxPath!FairSpec`: a descriptor with data is reported, and a round that has begun
is finished. `MmdvmFairness`: the loop serves a readable serial port. `SyncFairness`: a
thread that can take a step takes it (weak), and is not passed over for ever when it tries
to enter a section that others take and leave (strong); neither is assumed of waits that time out, of
threads that die or of beginning another round. No action of
the environment (arrivals, signals, frames) is fair.

Deadlock checking is off where the system may stop: a freed loop, a stopped client,
a script that aborted the program, a run that used up its bound.

## 4. Proofs

Each proof module proves, for all values of the constants that satisfy the named
assumptions of the component's module, facts that the runs show on an instance.

| Theorem | Says | Argument |
|---|---|---|
| `RepeaterProofs!CallInvariants` | the slot timers are as many as calls and timeouts, hence cover the calls | types and the count are inductive together; each of `OpenCall`, `EndCall`, `HandleTimers` changes both sides alike, and no call can end without a timer because the count covers it |
| `RepeaterProofs!RepeaterImplementsSlotOwnership` | `Spec => Slots!Spec` | under the type invariant and `CallHasStream`, every step maps to `Pass`, `Ignore`, `Expire` or a stutter |
| `LuaRouteProofs!PlainScriptsAreObeyed` | a script is obeyed until it returns a table or fails | while `plain`, the stack is empty between calls, so index 1 and the top are the same value |
| `LuaRouteProofs!TopDecisionsAreObeyed` | nil, useless values and errors are obeyed whatever is on the stack | `TopInv`: the stack holds Lua values, so `RouteByTop` applies to whatever earlier calls left below the new one |
| `HomebrewProofs!KeyAcceptedBeforeLogin` | no configuration is sent before a key was accepted, on any network | strengthened by the causes of every acknowledgement in flight and of the master's session |
| `HomebrewProofs!LoginIsAgreed` | without repeated datagrams, client and master agree on nonce and configuration | see below |
| `HomebrewProofs!PingsBounded` | at most `PongTimeout \div PingPeriod + 1` unanswered pings | the invariant ties the number of pings to the time since the last pong plus the time left on the timer |
| `HomebrewProofs!NonceStays` | a nonce in use is never replaced | only `read_nonce` assigns it, and only in a state in which no key was sent |
| `DmrIoProofs!LoopAlwaysRunsForWork` | the loop's condition holds exactly while something but a close entry is registered | one length per list, changed with the count by every action |
| `DmrIoProofs!OnlyCutWalksDangle` | the walk follows a freed entry only after a callback freed the one it was called for or the saved next one | unless `cut`, the current and the saved next entry of a walk are entries of its list, one after the other, and addresses are unique |
| `DmrIoProofs!WatchedFdsAlwaysHaveEntries` | no descriptor is watched without an entry, self-deletion included | `FdInv`: addresses are distinct in a list, and if the entry being served is still at its address it still has its descriptor (`HeldServes`); without this the one-shot deletion after a callback could clear the wrong descriptor |
| `ReceiveProofs!FramesAreRelayed` | a protocol that does not free queued packets has them relayed at once, in order | the queue is empty except between the two callbacks, and what was relayed followed by what is queued is what was taken |
| `ReceiveProofs!FramesAreParsedAsSent` | until a shift loses bytes or an answer strays, the frames parsed are those sent | see below |
| `ReceiveProofs!OverrunStaysShort` | until then a read ends at most two bytes behind the array, and no call finds more than the array holds | a second read follows fewer than three bytes; what it brings contains the rest of the frame begun, which the call takes out |
| `ReceiveProofs!DvmegaIsPolled` | a DVMEGA is asked for its status with every so many frames | to a DVMEGA every frame goes on timeslot 2, so the code's counter and the count of frames not polled for are equal (`EveryFrameCounted`) |
| `ThreadProofs!LocksAreSound` | mutual exclusion, no section left behind, no waiter uncounted | see below |
| `ThreadProofs!OnceIsBeforeUse` | the function runs once, before anybody returns | `OnceInv`: the status word tells where the one winner of the exchange is (`StageFits`), so that no second caller can be past it |
| `ThreadProofs!DestructorsOwnValues` | for any number of keys: a destructor gets values of its own key only, while no key is deleted that somebody has a value for | see below |
| `ThreadProofs!ValuesAreDestroyed` | for any number of keys: the values of the first and last key a thread has set are destroyed when it exits, the others never | see below |
| `ThreadProofs!DeadlinesAreKept` | of the four ways of computing a timeout three cover the deadline, and one is exact to the millisecond | the clock and the deadline are normalised (`TimeInv`); the rest is arithmetic |
| `LibraryProofs!ReportsAreRight` | every message has a tag, the last error is its cause's | `LogInv`: the message of the last error is that of the thread's last failure, while its number and priority may be another's; a clamped priority is never the one without a tag |
| `LibraryProofs!ConfigurationIsAsGiven` | a program that runs has a complete configuration, the one the file gave | see below |
| `LibraryProofs!RawBuffersAreSound` | a buffer holds what the calls stand for, as the code has it, and zeros behind it; a queued buffer has one owner | see below |
| `LibraryProofs!QueuesHold` | any number of queues of any kind hold what was put in, in order, from either end | see below |
| `LibraryProofs!UrlsAreCut` | an address of any length is refused or cut into fields in order with delimiters only between them, and the number its port writes fits sixteen bits | see below |
| `LibraryProofs!FramesAreReadBack` | every packet is read back from its frame but for what the frame has no room for; the frames of the login hold their bytes to the last; every text of a configuration stands in its own field | see below |
| `VoiceProofs!RightFrameIsHeard` | what is played and predicted from is of the right frame; damaged frames fall silent | see below |

The type invariants of these components are proved with them, as the first parts of
the inductive invariants.

### The inductive invariants

*Login.* `LoginAgreed` alone is not inductive: the acknowledgement of a key and that of a
configuration are the same datagram, so the step that takes one must know which of them
is in flight. `LoginInv` says that all login datagrams together, in both directions, are
at most one (`OneLoginMessage`): a token that client and master pass to each other, which
a network may lose but not double. With it every request and every answer in flight fits
the state of the client (`RequestFits`, `AnswerFits`). A repeating network would double
the token, which is why the property is not claimed of it.

*Frames.* `FramesAsSent` says that what was parsed is a prefix of the frames; what a step
needs is that the parser stands at the end of one. `Aligned` names a witness: numbers
`ends` at which the bytes of the modem are cut into its frames, the bytes parsed ending
at one of them. A header in the buffer is then the header of the next frame, and its
length the distance to the next cut. The witness is extended when the modem sends and
read off when a frame is handled; what is skipped before a start byte is nothing, since
the next cut is one.

*Locks.* `SyncInv` has the owner of the underlying handle beside the threads' places:
whoever is inside owns it (`HoldersOwn`), a critical section is held by nobody else and
exactly as often as its holder entered it (`SectionsHeld`; false of kernel mutexes, whose
refused and abandoned locks stay), and the waiters are finitely many and counted
(`WaitersInv`). The steps that do not touch the mutex are treated together (`Elsewhere`).

*Thread-specific values.* A thread's list is described as the code builds it, not as it
should be: its tail does not move, so only the head has a next node (`ListsLinked`), a slot
of a key in use holds the caller's node for that key (`SlotsOwn`), and a value is of the
last creation of its key (`ValuesCurrent`). This is inductive for any number of keys and
enough for `DestructorsOwnValues`. Which values are missed is told by the history `lost`: a
node is in its thread's list or lost, and it is lost only from a list that holds two others
(`NodesInLists`), which a third key brings about (`thread.c:869`). The nodes that a pass has
left behind are empty as long as it has called no destructor (`VisitedEmpty`), since only a
destructor can set a value during the cleanup.

*Configuration.* Keys are given to the section that is open, and the properties are about
protocols whose sections were closed long ago. `SectionsNumbered` says that a section's
number names one protocol and that only the last one can be open, so a new key changes
what was given to no other (`KeptElsewhere`). `ProtocolsSound` is the property while the
file is still being read: every protocol holds what it was given, and every homebrew one
has its peer, but for the one whose section is open. It has to say so of sections of
other kinds too: while a web server's section is read, the last protocol is complete.
The table overflows only in the step that ends the program.

*Buffers.* `RawInv` compares the buffer with what the calls stand for byte by byte. `Grown`
and `Put` say what growing and writing keep; each of the six ways to add is an instance of
`Added`. For the queue, `RawqInv` has that no buffer stands in it twice; counting the
elements is left to `DistinctCount`.

*Queues.* `QueueInv` says pointer by pointer what it means that a queue holds a sequence:
each place points to the element behind it, the last pointer is at the place of the NULL,
a back pointer at the place that points here, and no element is in two places
(`QueueShape`). Nothing is said of free elements, so an operation may not rely on what
they held before. The macros change a sequence in four ways, `Inserted`, `Removed`,
`Replaced` and `Concatenated`, each stated once for all kinds as what it does to `next`,
`last` and `prev`; every macro is one of them. That a walk from the head then meets the
elements of the sequence (`QueueWalks`) is an induction over the queue's length, done with
`LeastElement` (below); it takes at most as many turns as there are elements because they differ.

*Addresses.* There is one step here and all the work is in two passes over the text. What
a pass keeps is `Cut`: the characters read so far are the fields begun so far, in order,
and between them delimiters only. Which fields have begun is bounded by the state
(`UrlRank`, `HostRank`), so a field that begins now lies behind all the others; a field
that goes on was the last one. `UrlSound` adds to it what the state knows of the character
just read (that a `/` begins a path, a `?` was a delimiter), and `HostSound` says the same
of the second pass, which cuts the host again, into user, host and port; `CutMerged` puts
the second cut in the place of the first one's host. The value of the port is
`strtoul`'s, whose cut-off changes no number below 65536. That a pass keeps what each of its
steps keeps (`FoldKeeps`, `SameFold`) is an induction over the text, by `LeastElement`.

*Frames of the link.* Here too there is one step, which builds a frame, and the work is in
what it adds. `FieldsUpTo` says that the first k fields of a layout stand in their places
and that the buffer ends where the next one starts; adding a field makes it true of k + 1
(`NextField`), so after the last one every slice reads the field that was written there
(`FieldsBuilt`, `SliceIs`). This is the same for the eight fields of a DMRD frame and the
fourteen of a configuration, whose buffer is made too small and has to grow on the way.
The byte with timeslot, call and frame type is packed by one side and taken apart by the
other with different cases: `SlotInfoReadBack` goes through them. The frame for a packet
of type `SYNC_VOICE` is the one that is read as what it was not, and the property says what
it becomes.

*Voice.* `RightFrameHeard` is about what was just played, and what is played next is in
the two kept sets of parameters. `VoiceInv` says of them that they are of good frames or
of none, that below their number of bands each amplitude is silent or their own
(`OwnBands`), enhanced never in `prev_mp` and once in `prev_mp_enhanced`, and that
`prev_mp` has a logarithm of its own in each band (`OwnLogs`); above that number they may
hold anything, which is where an older, longer frame stays. The count of repetitions is
the number of damaged frames until the mute clears it, and from then on nothing is left to
repeat (`Counted`). What the interpolation reads exists in the kept frame for any two
lengths: `InterpolatedBands`.

### Assumptions and limits

The assumptions are only about the kinds of the constants (`RepeaterAssumption`,
`LuaRouteAssumption`, `HomebrewAssumption`, `IoAssumption`, `RxAssumption`,
`MmdvmAssumption`, `SyncAssumption`, `LocalsAssumption`, `TimeAssumption`, `LowestPriority`,
`ConfigConstants`, `SectionsKnown`, `RawConstants`, `RawLimitsNat`, `FrameConstants`,
`QueueConstants`, `UrlConstants`, `MbeVoiceAssumption`); TLC evaluates them in every run of
their module. Bounds are arbitrary natural numbers in the
proofs: any number of threads, frames, protocols, lines, bands, queues and elements,
an address or a text of any length. What is assumed of a value is
what the code makes of it: the frames of a modem begin with a start byte and carry their
own length, a poll is at most a second, a time is normalised, elements and heads lie at
different addresses other than NULL, the fields of a packet have their types.

That a buffer has a first start byte would be an induction over its length, and so would
what a walk along a queue returns, what a pass over an address keeps and what the
steps that build a frame leave. `ReceiveProofs` and `LibraryProofs` take the least
counterexample instead: every set of natural numbers has a least element because finite
sets are well-founded under inclusion (`LeastElement`).

Only model-checked: every liveness property (the prover has no rules for fairness that
these would need), and these safety properties:

* what the codes compute (`BurstReadBack`, `LcNeverWrong`, `EmbLcReadBack`,
  `HeaderNeverWrong`, `VoiceReadBack`, `VoiceBitsPlaced`): facts about particular finite codes and
  layouts, decided by evaluating them, with nothing to generalise over;
* `StreamReadBack`, `AnyInputHandled`: one parser over a stream compared with another over
  the same stream in other pieces, an induction over both; too many states for a hand
  proof of this kind;
* `TreesKeepKeys`: that pointers form a tree is reachability, and the order of its keys
  relates each node to all below it at every rotation: not attempted;
* `ClientsAnswered`, which rests on the parser.

## 5. Not modelled

* `noisebridge.old` and `noisebridge/old`: superseded and not built.
* `payload/csbk.c`: commented out as a whole. `dmr_crc32`: no caller.
* The tools (`dmrdump`, `mmdvmplay`, `mmdvmtest`, `serialdump`) and what serves only them
  (`dmr_emb_bytes_decode`, `dmr_emb_null`), names and dumps of packets, the Python binding:
  sequential, no interaction.
* Amplitudes, phases and the synthesis of samples in `mbelib`: floating point.
* Thread creation, join, names and identity: one system call each. The POSIX half of
  `thread.c`: one pthread call each.
* Headers of other projects kept for cross builds (`support/`).
* Memory beyond which packets and entries were freed: the leak of relayed packets
  (`repeater.c:427`) changes no behaviour that the models observe. Allocation does not fail.
* Retry of a lost login datagram: the code has none.

## 6. Plan

Done: the call state machine with its abstract lock, the routing script, the Homebrew link
and its frames, the I/O loop, the receive path, the modem client, the burst with its codes,
embedded link control, data headers, the voice codec, the HTTP parser and server, the
containers, raw buffers, configuration, log and errors, the thread layer; theorems for the
parts that make up noisebridge's loop, the modem client, the thread layer, the
configuration, log and errors, the raw buffers, the lists and queues, the cutting of
addresses, the frames of the Homebrew link and the vocoder's parameters.

Next, in this order:

1. Theorems: the types of the HTTP parser's state for every stream.
2. A composition of `DmrIo`, the protocols and `Repeater` for the lifetime of a protocol
   instance after an error (`homebrew_io.c:126`), and of an HTTP client.
