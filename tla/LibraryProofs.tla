---------------------------- MODULE LibraryProofs ----------------------------
(***************************************************************************)
(* Proofs about the parts of the library that the programs are built on:   *)
(* the logger and the last error (module LogError), the configuration of   *)
(* noisebridge (NoisebridgeConfig), the raw buffers and their queue        *)
(* (RawBuffer, RawQueue), the lists and queues of queue.h (Queues), the    *)
(* addresses that http_parser_parse_url cuts into fields (HttpUrl) and the *)
(* frames that the Homebrew protocol sends (HomebrewFrames).               *)
(***************************************************************************)
EXTENDS LogError, NoisebridgeConfig, RawQueue, Queues, HttpUrl, HomebrewFrames,
        SequenceTheorems, FiniteSetTheorems, WellFoundedInduction, TLAPS

\* The logger and the last error.
LogSpec == LogInit /\ [][LogNext]_logVars

----------------------------------------------------------------------------
(***************************************************************************)
(* The logger and the last error.                                          *)
(***************************************************************************)
\* What the message of an error may be.
Messages == {MessageOf(no) : no \in Errnos} \cup {"", "formatted"}

\* The priority stays between TRACE and CRITICAL, so that a message with no
\* priority is never urgent enough; the message of the last error is that of the
\* thread's last failure, whatever happened to its number.
LogInv ==
    /\ log_priority \in TRACE .. CRITICAL /\ tagged # "NULL"
    /\ error \in [LogThreads -> [no : Errnos \cup {0}, msg : Messages, priority : {0, ERROR, CRITICAL}]]
    /\ cause \in [LogThreads -> Messages]
    /\ \A t \in LogThreads : error[t].msg = cause[t]

\* Only the priority 0 has the tag NULL.
LEMMA TagOfPriority ==
    ASSUME NEW p \in Nat, p >= TRACE
    PROVE  dmr_log_priority_tags[Lesser(p, PRIORITIES)] # "NULL"
  BY DEF TRACE, PRIORITIES, Lesser, dmr_log_priority_tags

\* What dmr_log_priority_set makes of a priority is one of the names.
LEMMA ClampedIsPriority == ASSUME NEW p \in Int PROVE Clamped(p) \in TRACE .. CRITICAL
  BY LowestPriority DEF Clamped, Lesser, Greater, PRIORITIES, TRACE, INFO, CRITICAL

\* A message that is let through has a tag.
LEMMA MessageTagged ==
    ASSUME NEW p \in Nat, NEW limit \in TRACE .. CRITICAL, tagged # "NULL", dmr_log_messagev(p, limit)
    PROVE  tagged' # "NULL"
  <1>1. CASE log_cb = "stderr" /\ p >= limit
    <2>1. p >= TRACE
      BY <1>1 DEF TRACE, CRITICAL
    <2> QED
      BY <1>1, <2>1, TagOfPriority DEF dmr_log_messagev, log_stderr
  <1> QED
    BY <1>1 DEF dmr_log_messagev

\* Every failure, every message set and every message cleared leaves the thread
\* with the message of its last failure (error.c).
LEMMA ErrorStep ==
    ASSUME LogInv, NEW t \in LogThreads,
           (\E no \in Errnos : dmr_error(t, no)) \/ dmr_error_set(t) \/ dmr_error_clear(t)
    PROVE  LogInv'
  <1>1. UNCHANGED <<log_priority, tagged>>
    BY DEF dmr_error, dmr_error_set, dmr_error_clear
  <1> DEFINE Errors == [no : Errnos \cup {0}, msg : Messages, priority : {0, ERROR, CRITICAL}]
  <1>2. error \in [LogThreads -> Errors] /\ cause \in [LogThreads -> Messages]
        /\ \A u \in LogThreads : error[u].msg = cause[u]
    BY DEF LogInv
  <1>3. PICK e \in Errors, m \in Messages :
            error' = [error EXCEPT ![t] = e] /\ cause' = [cause EXCEPT ![t] = m] /\ e.msg = m
    <2>1. ASSUME NEW no \in Errnos, dmr_error(t, no)
          PROVE  \E e \in Errors, m \in Messages :
                    error' = [error EXCEPT ![t] = e] /\ cause' = [cause EXCEPT ![t] = m] /\ e.msg = m
      <3>1. CASE no = LASTERROR
        <4> DEFINE e == [error[t] EXCEPT !.no = no]
        <4>1. e \in Errors /\ e.msg = cause[t]
          BY <1>2
        <4>2. error' = [error EXCEPT ![t] = e] /\ cause' = [cause EXCEPT ![t] = cause[t]]
          BY <1>2, <2>1, <3>1 DEF dmr_error, ErrorSet
        <4> QED
          BY <1>2, <4>1, <4>2
      <3>2. CASE no # LASTERROR
        <4> DEFINE p == IF no = ENOMEM THEN CRITICAL ELSE ERROR
                   e == [no |-> no, msg |-> MessageOf(no), priority |-> p]
        <4>1. e \in Errors /\ MessageOf(no) \in Messages
          BY DEF Messages
        <4>2. error' = [error EXCEPT ![t] = e] /\ cause' = [cause EXCEPT ![t] = MessageOf(no)]
          <5>1. error' = [error EXCEPT ![t].no = no, ![t].msg = MessageOf(no), ![t].priority = p]
            BY <2>1, <3>2 DEF dmr_error, ErrorSet
          <5>2. cause' = [cause EXCEPT ![t] = MessageOf(no)]
            BY <2>1, <3>2 DEF dmr_error
          <5>3. error' \in [LogThreads -> Errors] /\ error'[t] = e
            BY <1>2, <4>1, <5>1
          <5> QED
            BY <1>2, <4>1, <5>1, <5>2, <5>3
        <4> QED
          BY <4>1, <4>2
      <3> QED
        BY <3>1, <3>2
    <2>2. ASSUME NEW m \in Messages, error' = [error EXCEPT ![t].msg = m],
                 cause' = [cause EXCEPT ![t] = m]
          PROVE  \E e \in Errors : error' = [error EXCEPT ![t] = e] /\ e.msg = m
      <3> DEFINE e == [error[t] EXCEPT !.msg = m]
      <3>1. e \in Errors /\ e.msg = m
        BY <1>2
      <3> QED
        BY <1>2, <2>2, <3>1
    <2>3. CASE dmr_error_set(t)
      <3>1. error' = [error EXCEPT ![t].msg = "formatted"] /\ cause' = [cause EXCEPT ![t] = "formatted"]
        BY <2>3 DEF dmr_error_set
      <3>2. "formatted" \in Messages
        BY DEF Messages
      <3>3. \E e \in Errors : error' = [error EXCEPT ![t] = e] /\ e.msg = "formatted"
        BY <2>2, <3>1, <3>2
      <3> HIDE DEF Errors
      <3> QED
        BY <3>1, <3>2, <3>3
    <2>4. CASE dmr_error_clear(t)
      <3>1. error' = [error EXCEPT ![t].msg = ""] /\ cause' = [cause EXCEPT ![t] = ""]
        BY <2>4 DEF dmr_error_clear
      <3>2. "" \in Messages
        BY DEF Messages
      <3>3. \E e \in Errors : error' = [error EXCEPT ![t] = e] /\ e.msg = ""
        BY <2>2, <3>1, <3>2
      <3> HIDE DEF Errors
      <3> QED
        BY <3>1, <3>2, <3>3
    <2> HIDE DEF Errors
    <2> QED
      BY <2>1, <2>3, <2>4
  <1> QED
    BY <1>1, <1>2, <1>3 DEF LogInv

\* Whatever priorities the program and its script ask for and log with, no message
\* is written without a tag; and whatever the threads fail at, each reads the
\* message of its own last failure (log.c, error.c).
THEOREM ReportsAreRight == LogSpec => []ReportsRight
  <1>1. LogInit => LogInv
    <2> SUFFICES ASSUME LogInit PROVE LogInv
      OBVIOUS
    <2>1. log_priority \in TRACE .. CRITICAL /\ tagged # "NULL"
      <3>1. INFO \in TRACE .. CRITICAL
        BY DEF INFO, TRACE, CRITICAL
      <3>2. log_priority = INFO /\ tagged = "none"
        BY DEF LogInit
      <3> QED
        BY <3>1, <3>2
    <2>2. error = [t \in LogThreads |-> [no |-> 0, msg |-> "", priority |-> 0]]
          /\ cause = [t \in LogThreads |-> ""]
      BY DEF LogInit
    <2>3. "" \in Messages
      BY DEF Messages
    <2> QED
      BY <2>1, <2>2, <2>3 DEF LogInv
  <1>2. LogInv /\ [LogNext]_logVars => LogInv'
    <2> SUFFICES ASSUME LogInv, [LogNext]_logVars PROVE LogInv'
      OBVIOUS
    <2>1. ASSUME NEW p \in Asked, dmr_log_priority_set(p) PROVE LogInv'
      <3>1. log_priority' \in TRACE .. CRITICAL
        BY <2>1, ClampedIsPriority, LowestPriority DEF dmr_log_priority_set
      <3>2. tagged' # "NULL"
        <4>1. DEBUG \in Nat /\ Clamped(p) \in TRACE .. CRITICAL
          BY ClampedIsPriority, LowestPriority DEF DEBUG
        <4> QED
          BY <2>1, <4>1, MessageTagged DEF dmr_log_priority_set, LogInv
      <3> QED
        BY <2>1, <3>1, <3>2 DEF dmr_log_priority_set, LogInv
    <2>2. CASE dmr_log_priority_reset
      BY <2>2 DEF dmr_log_priority_reset, LogInv, INFO, TRACE, CRITICAL
    <2>3. CASE dmr_log_message
      <3>1. PICK p \in 0 .. PRIORITIES + 1 \cup {log_priority} : dmr_log_messagev(p, log_priority)
        BY <2>3 DEF dmr_log_message
      <3>2. p \in Nat
        BY DEF LogInv, PRIORITIES, TRACE, CRITICAL
      <3>3. tagged' # "NULL"
        BY <3>1, <3>2, MessageTagged DEF LogInv
      <3> QED
        BY <2>3, <3>3 DEF dmr_log_message, LogInv
    <2>4. CASE \E cb \in {"stderr", "callback", "none"} : dmr_log_cb(cb)
      BY <2>4 DEF dmr_log_cb, LogInv
    <2>5. CASE UNCHANGED logVars
      BY <2>5 DEF logVars, LogInv
    <2> QED
      BY <2>1, <2>2, <2>3, <2>4, <2>5, ErrorStep DEF LogNext
  <1>3. LogInv => ReportsRight
    BY DEF LogInv, ReportsRight, MessagesHaveTags, LastErrorIsTheCause, dmr_error_get
  <1> QED
    BY <1>1, <1>2, <1>3, PTL DEF LogSpec
----------------------------------------------------------------------------
(***************************************************************************)
(* The configuration.                                                      *)
(***************************************************************************)
\* The start of noisebridge.
ConfigSpec == ConfigInit /\ [][ConfigNext]_configVars

\* A protocol with its fields.
Protocols ==
    UNION {[type : {sect}, number : Nat, fields : [FieldsOf(sect) -> Nat]] : sect \in ProtoKinds}

\* What conf holds of the web server, and conf itself.
WebRecords == [enabled : BOOLEAN, port : Nat, bind : Nat, root : Nat]
ConfigRecords ==
    [section : SectionKinds \cup {"top"}, number : Nat, timeout : Nat, script : Nat,
     httpd : WebRecords, protos : Seq(Protocols)]

ConfigType ==
    /\ conf \in ConfigRecords
    /\ \A g \in given : g[1] \in Nat /\ g[3] \in Nat

\* Sections are numbered as they are opened, so that a number names one protocol,
\* and only the last protocol can be the section that is open.
SectionsNumbered ==
    /\ \A i \in DOMAIN conf.protos :
        /\ conf.protos[i].number <= conf.number
        /\ conf.protos[i].number = conf.number =>
              i = Current /\ Section \in {"top", conf.protos[i].type}
    /\ \A i, j \in DOMAIN conf.protos :
        conf.protos[i].number = conf.protos[j].number => i = j
    /\ Section \in ProtoKinds =>
        /\ conf.protos # <<>>
        /\ conf.protos[Current].type = Section /\ conf.protos[Current].number = conf.number
    /\ \A g \in given : g[1] <= conf.number

\* A field of the protocol p is its default if no value was given, and otherwise
\* the one value that was.
FieldKept(p, k, values) ==
    \/ values = {} /\ p.fields[k] = FieldDefaults(p.type)[k]
    \/ values = {p.fields[k]}

\* What the keys gs give to a section, as texts and as numbers.
KeyIn(gs, number, k) == {g \in gs : g[1] = number /\ g[2] = k}
TextsIn(gs, number, k) == {Text(g[3]) : g \in KeyIn(gs, number, k)}
NumbersIn(gs, number, k) == {Narrow(k, g[3]) : g \in KeyIn(gs, number, k)} \ {0}

Kept(p, gs) ==
    /\ \A k \in TextKeys(p.type) : FieldKept(p, k, TextsIn(gs, p.number, k))
    /\ \A k \in NumberKeys(p.type) : FieldKept(p, k, NumbersIn(gs, p.number, k))

\* What holds of every protocol while the file is read, before the program runs:
\* one whose section is no longer open has its peer, and every one what it was given.
ProtocolsSound ==
    \A i \in DOMAIN conf.protos :
        /\ conf.protos[i].type = "homebrew" /\ (Section # "homebrew" \/ i < Current) =>
              conf.protos[i].fields["host"] # 0
        /\ Kept(conf.protos[i], given)

\* The time limit is the last that the open section gives, and the default where it
\* gives none; before the first line outside the sections there is nothing to give
\* it in.
TimeLimitKept ==
    LET asked == KeyIn(given, conf.number, "timeout") IN
    IF conf.number = 0 THEN Section = "top" /\ conf.script = 0
    ELSE \/ asked = {} /\ conf.timeout = 180
         \/ asked # {} /\ \A g \in asked : conf.timeout = Narrow("timeout", g[3])

ConfigInv ==
    /\ ConfigType /\ SectionsNumbered /\ ProtocolsSound /\ TimeLimitKept
    /\ program # "crashed" => Len(conf.protos) <= MAX_PROTOS
    /\ Running => conf.script # 0 /\ conf.protos # <<>>

\* The three kinds of keys are apart, and each of them names a field.
LEMMA KeysApart ==
    ASSUME NEW sect \in ProtoKinds
    PROVE  /\ TextKeys(sect) \cap NumberKeys(sect) = {}
           /\ TextKeys(sect) \cup NumberKeys(sect) \subseteq FieldsOf(sect)
           /\ (AddressKeys(sect) \cup {"device", "model"})
                  \cap (TextKeys(sect) \cup NumberKeys(sect)) = {}
           /\ AddressKeys(sect) \cup {"device", "model"} \subseteq FieldsOf(sect)
           /\ sect = "homebrew" => "host" \in FieldsOf(sect)
           /\ "host" \notin TextKeys(sect) \cup NumberKeys(sect) \cup {"device", "model"}
           /\ "timeout" \notin FieldsOf(sect)
  BY DEF ProtoKinds, TextKeys, NumberKeys, AddressKeys, FieldsOf

\* A value is a natural number whatever the width of its field.
LEMMA ValuesAreNumbers ==
    ASSUME NEW v \in Values, NEW k
    PROVE  Text(v) \in Nat /\ Text(v) # 0 /\ Narrow(k, v) \in Nat /\ v \in Nat
  <1>1. v \in Nat
    BY ConfigConstants
  <1>2. v % 65536 \in Nat /\ v % 256 \in Nat
    BY <1>1
  <1>3. Narrow(k, v) \in {v % 65536, v % 256, v}
    <2>1. CASE k \in {"port", "bind_port", "timeout"}
      BY <2>1 DEF Narrow
    <2>2. CASE k \in {"tx_power", "color_code"}
      BY <2>2 DEF Narrow
    <2>3. CASE k \notin {"port", "bind_port", "timeout"} /\ k \notin {"tx_power", "color_code"}
      BY <2>3 DEF Narrow
    <2> QED
      BY <2>1, <2>2, <2>3
  <1> QED
    BY <1>1, <1>2, <1>3 DEF Text

\* The defaults of a section are numbers.
LEMMA DefaultsAreNumbers ==
    ASSUME NEW sect \in ProtoKinds PROVE FieldDefaults(sect) \in [FieldsOf(sect) -> Nat]
  BY DEF FieldDefaults

\* What a protocol is.
LEMMA ProtocolShape ==
    ASSUME ConfigType, NEW i \in DOMAIN conf.protos
    PROVE  LET p == conf.protos[i] IN
           /\ p.type \in ProtoKinds /\ p.number \in Nat
           /\ p.fields \in [FieldsOf(p.type) -> Nat]
           /\ p = [type |-> p.type, number |-> p.number, fields |-> p.fields]
  <1>1. conf.protos \in Seq(Protocols)
    BY DEF ConfigType, ConfigRecords
  <1>2. conf.protos[i] \in Protocols
    BY <1>1
  <1>3. PICK sect \in ProtoKinds :
            conf.protos[i] \in [type : {sect}, number : Nat, fields : [FieldsOf(sect) -> Nat]]
    BY <1>2 DEF Protocols
  <1> QED
    BY <1>3

\* Steps that leave the file's part of the state alone keep what holds of it.
LEMMA NothingRead ==
    ASSUME ConfigInv, UNCHANGED <<conf, given>>,
           program' # "crashed" => program # "crashed",
           Running' => conf.script # 0 /\ conf.protos # <<>>
    PROVE  ConfigInv'
  <1>1. ConfigType'
    BY DEF ConfigInv, ConfigType
  <1>2. SectionsNumbered'
    BY DEF ConfigInv, SectionsNumbered, Section, Current
  <1>3. ProtocolsSound'
    BY DEF ConfigInv, ProtocolsSound, Section, Current
  <1>4. TimeLimitKept'
    BY DEF ConfigInv, TimeLimitKept, Section
  <1> QED
    BY <1>1, <1>2, <1>3, <1>4 DEF ConfigInv

\* A protocol keeps what it was given when only another section's keys change.
LEMMA KeptElsewhere ==
    ASSUME NEW p, NEW gs, NEW hs, NEW m, p.number # m, Kept(p, gs),
           \A g : g[1] # m => (g \in hs <=> g \in gs)
    PROVE  Kept(p, hs)
  <1>1. \A j : KeyIn(hs, p.number, j) = KeyIn(gs, p.number, j)
    BY DEF KeyIn
  <1> QED
    BY <1>1 DEF Kept, TextsIn, NumbersIn

\* The time limit stands while the section that is open gives no other one.
LEMMA TimeLimitStands ==
    ASSUME TimeLimitKept, Section # "top", conf'.number = conf.number,
           conf'.timeout = conf.timeout,
           KeyIn(given', conf.number, "timeout") = KeyIn(given, conf.number, "timeout")
    PROVE  TimeLimitKept'
  BY DEF TimeLimitKept

\* A line of a section that is no protocol's: the protocols stay, and the keys that
\* are given are that section's.
LEMMA OtherLine ==
    ASSUME ConfigInv, ConfigType', Section' = Section, conf'.number = conf.number,
           conf'.protos = conf.protos, TimeLimitKept',
           Section \notin ProtoKinds \cup {"top"},
           \A g : g[1] # conf.number => (g \in given' <=> g \in given),
           program' = program, ~ Running
    PROVE  ConfigInv'
  <1>1. ConfigType /\ SectionsNumbered /\ ProtocolsSound
    BY DEF ConfigInv
  <1>2. SectionsNumbered'
    <2>1. conf.number \in Nat
      BY <1>1 DEF ConfigType, ConfigRecords
    <2>2. \A g \in given' : g[1] <= conf.number
      BY <1>1, <2>1 DEF SectionsNumbered
    <2> QED
      BY <1>1, <2>2 DEF SectionsNumbered, Current
  <1>3. ProtocolsSound'
    <2> SUFFICES ASSUME NEW i \in DOMAIN conf.protos
                 PROVE  Kept(conf.protos[i], given')
      BY <1>1 DEF ProtocolsSound, Current
    <2>1. Kept(conf.protos[i], given)
      BY <1>1 DEF ProtocolsSound
    <2>2. conf.protos[i].type \in ProtoKinds
      BY <1>1, ProtocolShape
    <2>3. conf.protos[i].number # conf.number
      BY <1>1, <2>2 DEF SectionsNumbered
    <2> QED
      BY <2>1, <2>3, KeptElsewhere
  <1> QED
    BY <1>1, <1>2, <1>3 DEF ConfigInv, Running

\* What a line outside the sections makes of the configuration.
LEMMA DefaultsShape ==
    ASSUME conf \in ConfigRecords
    PROVE  /\ Defaults(conf) = [section |-> conf.section, number |-> conf.number + 1, timeout |-> 180,
                                script |-> conf.script, httpd |-> conf.httpd, protos |-> conf.protos]
           /\ Defaults(conf) \in ConfigRecords
  <1> DEFINE n == conf.number
             c == [conf EXCEPT !.timeout = 180]
             e == [section |-> conf.section, number |-> n, timeout |-> 180,
                   script |-> conf.script, httpd |-> conf.httpd, protos |-> conf.protos]
             f == [section |-> conf.section, number |-> n + 1, timeout |-> 180,
                   script |-> conf.script, httpd |-> conf.httpd, protos |-> conf.protos]
  <1>1. c = e /\ c.number = n /\ n + 1 \in Nat
    BY DEF ConfigRecords
  <1>2. Defaults(conf) = [c EXCEPT !.number = n + 1]
    <2>1. Defaults(conf) = [c EXCEPT !.number = conf.number + 1]
      BY DEF Defaults, ConfigRecords
    <2> QED
      BY <2>1
  <1> HIDE DEF c
  <1>3. [e EXCEPT !.number = n + 1] = f
    OBVIOUS
  <1>4. Defaults(conf) = f
    BY <1>1, <1>2, <1>3, Zenon
  <1>5. f \in ConfigRecords
    BY <1>1 DEF ConfigRecords
  <1> QED
    BY <1>4, <1>5

\* "dmrids" outside the sections sets the default time limit.
LEMMA DefaultsLine ==
    ASSUME ConfigInv, Section = "top", conf' = Defaults(conf), given' = given,
           program' = program, ~ Running
    PROVE  ConfigInv'
  <1> DEFINE n == conf.number
  <1>1. ConfigType /\ SectionsNumbered /\ ProtocolsSound
    BY DEF ConfigInv
  <1>2. /\ conf' \in ConfigRecords /\ Section' = Section /\ conf'.number = n + 1
        /\ conf'.protos = conf.protos /\ conf'.timeout = 180 /\ n \in Nat
    <2>1. conf \in ConfigRecords /\ n \in Nat
      BY <1>1 DEF ConfigType, ConfigRecords
    <2> QED
      BY <2>1, DefaultsShape DEF Section
  <1>3. ConfigType'
    BY <1>1, <1>2 DEF ConfigType
  <1>4. /\ \A i \in DOMAIN conf.protos : conf.protos[i].number \in Nat /\ conf.protos[i].number <= n
        /\ \A g \in given : g[1] \in Nat /\ g[1] <= n
    BY <1>1, ProtocolShape DEF SectionsNumbered, ConfigType
  <1>5. "top" \notin ProtoKinds
    BY DEF ProtoKinds
  <1>6. SectionsNumbered'
    <2>1. \A i \in DOMAIN conf.protos : conf.protos[i].number <= n + 1 /\ conf.protos[i].number # n + 1
      BY <1>2, <1>4
    <2>2. \A g \in given : g[1] <= n + 1
      BY <1>2, <1>4
    <2> HIDE DEF n
    <2> QED
      BY <1>1, <1>2, <1>5, <2>1, <2>2 DEF SectionsNumbered
  <1>7. ProtocolsSound'
    BY <1>1, <1>2 DEF ProtocolsSound, Current
  <1>8. KeyIn(given', n + 1, "timeout") = {} /\ n + 1 # 0
    <2>1. \A g \in given : g[1] # n + 1
      BY <1>2, <1>4
    <2> QED
      BY <1>2, <2>1 DEF KeyIn
  <1> HIDE DEF n
  <1>9. TimeLimitKept'
    BY <1>2, <1>8 DEF TimeLimitKept
  <1> QED
    BY <1>2, <1>3, <1>6, <1>7, <1>9 DEF ConfigInv, Running

\* A key of the open protocol: its field is set, once if it is a text or a number.
LEMMA FieldSet ==
    ASSUME ConfigInv, Section \in ProtoKinds, NEW k \in FieldsOf(Section), NEW v \in Values,
           NEW stored \in Nat,
           k \in TextKeys(Section) => stored = Text(v) /\ conf.protos[Current].fields[k] = 0,
           k \in NumberKeys(Section) => stored = Narrow(k, v) /\ conf.protos[Current].fields[k] = 0,
           conf' = [conf EXCEPT !.protos[Current].fields[k] = stored],
           given' = given \cup {<<conf.number, k, v>>},
           program' = program, ~ Running
    PROVE  ConfigInv'
  <1> DEFINE c == Current
             n == conf.number
             P == conf.protos
             p == P[c]
             q == [type |-> Section, number |-> n, fields |-> [p.fields EXCEPT ![k] = stored]]
  <1>1. ConfigType /\ SectionsNumbered /\ ProtocolsSound
    BY DEF ConfigInv
  <1>2. /\ P \in Seq(Protocols) /\ P # <<>> /\ c = Len(P) /\ c \in DOMAIN P /\ n \in Nat
        /\ p.type = Section /\ p.number = n
    BY <1>1 DEF ConfigType, ConfigRecords, SectionsNumbered, Current
  <1>3. p.fields \in [FieldsOf(Section) -> Nat]
        /\ p = [type |-> Section, number |-> n, fields |-> p.fields]
    BY <1>1, <1>2, ProtocolShape
  <1>4. /\ conf' = [conf EXCEPT !.protos = [P EXCEPT ![c] = [p EXCEPT !.fields[k] = stored]]]
        /\ [p EXCEPT !.fields[k] = stored] = q
    <2>1. [p EXCEPT !.fields[k] = stored] = q
      BY <1>3
    <2>2. conf' = [conf EXCEPT !.protos = [P EXCEPT ![c] = [p EXCEPT !.fields[k] = stored]]]
      BY <1>1, <1>2 DEF ConfigType, ConfigRecords
    <2> QED
      BY <2>1, <2>2
  <1>5. q \in Protocols
    <2>1. [p.fields EXCEPT ![k] = stored] \in [FieldsOf(Section) -> Nat]
      BY <1>3
    <2>2. q \in [type : {Section}, number : Nat, fields : [FieldsOf(Section) -> Nat]]
      BY <1>2, <2>1
    <2> QED
      BY <2>2 DEF Protocols
  <1> HIDE DEF q, p, P, c, n
  <1>6. /\ conf'.protos = [P EXCEPT ![c] = q] /\ Section' = Section /\ conf'.number = n
        /\ conf' \in ConfigRecords /\ conf'.timeout = conf.timeout
    <2>1. [P EXCEPT ![c] = q] \in Seq(Protocols)
      BY <1>2, <1>5
    <2> QED
      BY <1>1, <1>4, <2>1 DEF ConfigType, ConfigRecords, Section, n, P
  <1>7. /\ DOMAIN conf'.protos = DOMAIN P /\ Len(conf'.protos) = Len(P) /\ conf'.protos[c] = q
        /\ \A i \in DOMAIN P : i # c => conf'.protos[i] = P[i]
    <2>1. /\ Len([P EXCEPT ![c] = q]) = Len(P) /\ [P EXCEPT ![c] = q][c] = q
          /\ DOMAIN [P EXCEPT ![c] = q] = DOMAIN P
          /\ \A i \in DOMAIN P : i # c => [P EXCEPT ![c] = q][i] = P[i]
      BY <1>2, <1>5
    <2> QED
      BY <1>6, <2>1, Zenon
  <1>8. ConfigType'
    <2>1. \A g \in given' : g[1] \in Nat /\ g[3] \in Nat
      <3>1. \A g \in given : g[1] \in Nat /\ g[3] \in Nat
        BY <1>1 DEF ConfigType, ConfigRecords
      <3>2. <<n, k, v>>[1] \in Nat /\ <<n, k, v>>[3] \in Nat
        BY <1>2, ValuesAreNumbers
      <3> QED
        BY <3>1, <3>2 DEF n
    <2> QED
      BY <1>6, <2>1 DEF ConfigType
  <1>9. /\ q.type = Section /\ q.number = n /\ q.fields[k] = stored
        /\ \A j \in FieldsOf(Section) : j # k => q.fields[j] = p.fields[j]
    BY <1>3 DEF q
  <1>10. /\ \A i \in DOMAIN P : conf'.protos[i].number = P[i].number
                               /\ conf'.protos[i].type = P[i].type
    BY <1>2, <1>7, <1>9 DEF p
  <1>11. SectionsNumbered'
    <2>1. \A g \in given' : g[1] <= n
      BY <1>1, <1>2 DEF SectionsNumbered, n
    <2>2. Current' = c
      BY <1>2, <1>7 DEF Current
    <2>3. conf'.protos # <<>>
      BY <1>2, <1>7
    <2>4. SectionsNumbered
      BY <1>1
    <2>5. /\ Len(conf'.protos) = Len(P) /\ conf'.number = n /\ Section' = Section
          /\ \A i \in 1 .. Len(P) : conf'.protos[i].number = P[i].number
                                 /\ conf'.protos[i].type = P[i].type
      BY <1>2, <1>6, <1>7, <1>10
    <2> QED
      BY <2>1, <2>2, <2>3, <2>4, <2>5 DEF SectionsNumbered, n, P, c
  <1>12. Kept(q, given')
    <2>1. Kept(p, given)
      BY <1>1, <1>2 DEF ProtocolsSound, p, P
    <2>2. TextKeys(Section) \subseteq FieldsOf(Section) /\ NumberKeys(Section) \subseteq FieldsOf(Section)
      BY KeysApart
    <2>3. KeyIn(given', n, k) = KeyIn(given, n, k) \cup {<<n, k, v>>}
      BY DEF KeyIn, n
    <2>4. \A j : j # k => KeyIn(given', n, j) = KeyIn(given, n, j)
      BY DEF KeyIn, n
    <2>5. \A g \in KeyIn(given, n, k) : g[3] \in Nat
      BY <1>1 DEF ConfigType, KeyIn
    <2>6. ASSUME NEW j \in TextKeys(Section) PROVE FieldKept(q, j, TextsIn(given', n, j))
      <3>1. FieldKept(p, j, TextsIn(given, n, j))
        BY <1>2, <2>1 DEF Kept
      <3>2. CASE j # k
        BY <1>2, <1>9, <2>2, <2>4, <3>1, <3>2 DEF FieldKept, TextsIn
      <3>3. CASE j = k
        <4>1. stored = Text(v) /\ p.fields[k] = 0
          BY <3>3 DEF p, P, c
        <4>2. 0 \notin TextsIn(given, n, k)
          BY <2>5 DEF TextsIn, Text
        <4>3. TextsIn(given, n, k) = {}
          BY <3>1, <3>3, <4>1, <4>2 DEF FieldKept
        <4>4. TextsIn(given', n, k) = {stored}
          <5> DEFINE w == <<n, k, v>>
          <5>1. w[3] = v
            OBVIOUS
          <5> HIDE DEF w
          <5>2. {Text(g[3]) : g \in KeyIn(given, n, k) \cup {w}}
                    = {Text(g[3]) : g \in KeyIn(given, n, k)} \cup {Text(v)}
            BY <5>1
          <5> QED
            BY <2>3, <4>1, <4>3, <5>2 DEF TextsIn, w
        <4> QED
          BY <1>9, <3>3, <4>4 DEF FieldKept
      <3> QED
        BY <3>2, <3>3
    <2>7. ASSUME NEW j \in NumberKeys(Section) PROVE FieldKept(q, j, NumbersIn(given', n, j))
      <3>1. FieldKept(p, j, NumbersIn(given, n, j))
        BY <1>2, <2>1 DEF Kept
      <3>2. CASE j # k
        BY <1>2, <1>9, <2>2, <2>4, <3>1, <3>2 DEF FieldKept, NumbersIn
      <3>3. CASE j = k
        <4>1. stored = Narrow(k, v) /\ p.fields[k] = 0
          BY <3>3 DEF p, P, c
        <4>2. NumbersIn(given, n, k) = {} /\ p.fields[k] = FieldDefaults(Section)[k]
          BY <1>2, <3>1, <3>3, <4>1 DEF FieldKept, NumbersIn
        <4>3. NumbersIn(given', n, k) = {stored} \ {0}
          <5> DEFINE w == <<n, k, v>>
          <5>1. w[3] = v
            OBVIOUS
          <5> HIDE DEF w
          <5>2. {Narrow(k, g[3]) : g \in KeyIn(given, n, k) \cup {w}}
                    = {Narrow(k, g[3]) : g \in KeyIn(given, n, k)} \cup {Narrow(k, v)}
            BY <5>1
          <5> QED
            BY <2>3, <4>1, <4>2, <5>2 DEF NumbersIn, w
        <4> QED
          BY <1>9, <3>3, <4>1, <4>2, <4>3 DEF FieldKept
      <3> QED
        BY <3>2, <3>3
    <2> QED
      BY <1>9, <2>6, <2>7 DEF Kept
  <1>13. ProtocolsSound'
    <2>1. ASSUME NEW i \in DOMAIN P, i # c PROVE Kept(P[i], given')
      <3>1. Kept(P[i], given) /\ P[i].number # n
        BY <1>1, <1>2, <2>1 DEF ProtocolsSound, SectionsNumbered, P, n, c
      <3>2. \A g : g[1] # n => (g \in given' <=> g \in given)
        <4>1. <<n, k, v>>[1] = n
          OBVIOUS
        <4> HIDE DEF n
        <4>2. given' = given \cup {<<n, k, v>>}
          BY DEF n
        <4> QED
          BY <4>1, <4>2
      <3> QED
        BY <3>1, <3>2, KeptElsewhere
    <2>2. ASSUME NEW i \in DOMAIN P, P[i].type = "homebrew", i < c PROVE P[i].fields["host"] # 0
      BY <1>1, <2>2 DEF ProtocolsSound, P, c
    <2>3. Section' = q.type /\ Current' = c /\ DOMAIN P = 1 .. c
      BY <1>2, <1>6, <1>7, <1>9 DEF Current
    <2>4. ASSUME NEW i \in DOMAIN P, i = c
          PROVE  ~ (conf'.protos[i].type = "homebrew" /\ (Section' # "homebrew" \/ i < c))
      <3>1. conf'.protos[i].type = Section'
        BY <1>7, <2>3, <2>4, Zenon
      <3>2. ~ i < c
        BY <1>2, <2>4
      <3> QED
        BY <3>1, <3>2
    <2>5. ASSUME NEW i \in DOMAIN P, i # c
          PROVE  i < c /\ conf'.protos[i] = P[i]
      BY <1>2, <1>7, <2>3, <2>5
    <2>6. \A i \in DOMAIN P :
              conf'.protos[i].type = "homebrew" /\ (Section' # "homebrew" \/ i < c) =>
                  conf'.protos[i].fields["host"] # 0
      BY <2>2, <2>4, <2>5
    <2>7. \A i \in DOMAIN P : Kept(conf'.protos[i], given')
      BY <1>7, <1>12, <2>1, <2>5
    <2> QED
      BY <1>7, <2>3, <2>6, <2>7 DEF ProtocolsSound
  <1>14. TimeLimitKept'
    <2>1. k # "timeout" /\ Section # "top"
      BY KeysApart DEF ProtoKinds
    <2>2. KeyIn(given', n, "timeout") = KeyIn(given, n, "timeout")
      BY <2>1 DEF KeyIn, n
    <2>3. TimeLimitKept
      BY DEF ConfigInv
    <2> QED
      BY <1>6, <2>1, <2>2, <2>3, TimeLimitStands DEF n
  <1> QED
    BY <1>1, <1>2, <1>7, <1>8, <1>11, <1>13, <1>14 DEF ConfigInv, Running, P

\* What a new protocol holds is the defaults of its kind: nothing was given to a
\* number that has not been used.
LEMMA NewProtocol ==
    ASSUME ConfigInv, NEW sect \in ProtoKinds
    PROVE  LET p == [type |-> sect, number |-> conf.number + 1, fields |-> FieldDefaults(sect)]
           IN  p \in Protocols /\ Kept(p, given)
  <1> DEFINE n == conf.number + 1
             p == [type |-> sect, number |-> n, fields |-> FieldDefaults(sect)]
  <1>1. ConfigType /\ SectionsNumbered
    BY DEF ConfigInv
  <1>2. conf.number \in Nat /\ \A g \in given : g[1] <= conf.number
    BY <1>1 DEF ConfigType, ConfigRecords, SectionsNumbered
  <1>3. p \in Protocols
    BY <1>2, DefaultsAreNumbers DEF Protocols
  <1>4. \A j : KeyIn(given, n, j) = {}
    <2>1. \A g \in given : g[1] # n
      BY <1>1, <1>2 DEF ConfigType, ConfigRecords
    <2> QED
      BY <2>1 DEF KeyIn
  <1> HIDE DEF n
  <1>5. p.type = sect /\ p.number = n /\ p.fields = FieldDefaults(sect)
    OBVIOUS
  <1> HIDE DEF p
  <1>6. Kept(p, given)
    BY <1>4, <1>5 DEF Kept, FieldKept, TextsIn, NumbersIn
  <1> QED
    BY <1>3, <1>6 DEF p, n

\* A configuration after the line that opens a section.
Opened(sect, m, h, P) ==
    [section |-> sect, number |-> m, timeout |-> 180, script |-> conf.script, httpd |-> h, protos |-> P]

\* A section is opened: a protocol's is appended to the table, whose bound is
\* passed only by the step that ends the program.
LEMMA SectionOpened ==
    ASSUME ConfigInv, NEW sect \in SectionKinds, OpenSection(sect), conf' # conf
    PROVE  ConfigInv'
  <1> DEFINE n == conf.number
             P == conf.protos
             new == [type |-> sect, number |-> n + 1, fields |-> FieldDefaults(sect)]
  <1>1. ConfigType /\ SectionsNumbered /\ ProtocolsSound
    BY DEF ConfigInv
  <1>2. program = "config" /\ Section = "top" /\ given' = given /\ TableRoom(sect)
    BY DEF OpenSection, Line, Fail
  <1>3. /\ conf' \in ConfigRecords /\ Section' = sect /\ conf'.number = n + 1
        /\ conf'.protos = (IF sect \in ProtoKinds THEN Append(P, new) ELSE P)
        /\ conf'.timeout = 180
    <2> DEFINE d == [Defaults(conf) EXCEPT !.section = sect]
    <2>1. /\ conf \in ConfigRecords /\ conf.httpd \in WebRecords /\ P \in Seq(Protocols)
          /\ n + 1 \in Nat /\ conf.script \in Nat
      BY <1>1 DEF ConfigType, ConfigRecords
    <2>2. d = Opened(sect, n + 1, conf.httpd, P)
      <3> DEFINE e == [section |-> conf.section, number |-> n + 1, timeout |-> 180,
                       script |-> conf.script, httpd |-> conf.httpd, protos |-> P]
      <3>1. Defaults(conf) = e
        BY <2>1, DefaultsShape
      <3>2. [e EXCEPT !.section = sect] = Opened(sect, n + 1, conf.httpd, P)
        BY DEF Opened
      <3> HIDE DEF e, n
      <3> QED
        BY <3>1, <3>2, Zenon DEF d
    <2>3. /\ ~ (sect = "httpd" /\ conf.httpd.enabled)
          /\ conf' = CASE sect = "httpd" -> [d EXCEPT !.httpd.enabled = TRUE]
                       [] sect \in ProtoKinds ->
                            [d EXCEPT !.protos = Append(@, [type |-> sect, number |-> d.number,
                                                            fields |-> FieldDefaults(sect)])]
                       [] OTHER -> d
      BY Zenon DEF OpenSection, Fail
    <2> HIDE DEF d
    <2>4. ASSUME NEW h \in WebRecords, NEW Q \in Seq(Protocols), conf' = Opened(sect, n + 1, h, Q)
          PROVE  /\ conf' \in ConfigRecords /\ Section' = sect /\ conf'.number = n + 1
                 /\ conf'.protos = Q /\ conf'.timeout = 180
      <3>1. sect \in SectionKinds \cup {"top"} /\ 180 \in Nat
        OBVIOUS
      <3> QED
        BY <2>1, <2>4, <3>1 DEF ConfigRecords, Opened, Section
    <2>5. CASE sect \in ProtoKinds
      <3>1. new \in Protocols /\ sect # "httpd"
        BY <2>5, NewProtocol DEF ProtoKinds
      <3>2. Append(P, new) \in Seq(Protocols)
        BY <2>1, <3>1, AppendProperties
      <3>3. conf' = [d EXCEPT !.protos = Append(@, [type |-> sect, number |-> d.number,
                                                    fields |-> FieldDefaults(sect)])]
        BY <2>3, <2>5, <3>1
      <3>4. conf' = Opened(sect, n + 1, conf.httpd, Append(P, new))
        <4>1. d.number = n + 1 /\ d.protos = P
          BY <2>2 DEF Opened
        <4>2. conf' = [d EXCEPT !.protos = Append(P, new)]
          BY <3>3, <4>1 DEF new
        <4> HIDE DEF new
        <4> QED
          BY <2>2, <4>2 DEF Opened
      <3> HIDE DEF new, n, P
      <3>5. /\ conf' \in ConfigRecords /\ Section' = sect /\ conf'.number = n + 1
            /\ conf'.protos = Append(P, new) /\ conf'.timeout = 180
        BY <2>1, <2>4, <3>2, <3>4, Zenon
      <3> QED
        BY <2>5, <3>5, Zenon
    <2>6. CASE sect = "httpd"
      <3> DEFINE h == [conf.httpd EXCEPT !.enabled = TRUE]
      <3>1. sect \notin ProtoKinds /\ h \in WebRecords
        BY <2>1, <2>6 DEF ProtoKinds, WebRecords
      <3>2. conf' = [d EXCEPT !.httpd.enabled = TRUE]
        BY <2>3, <2>6, <3>1
      <3>3. conf' = Opened(sect, n + 1, h, P)
        <4>1. d.httpd = conf.httpd
          BY <2>2 DEF Opened
        <4>2. conf' = [d EXCEPT !.httpd = h]
          BY <3>2, <4>1 DEF h
        <4> HIDE DEF h
        <4> QED
          BY <2>2, <4>2 DEF Opened
      <3> HIDE DEF h, n, P
      <3>4. /\ conf' \in ConfigRecords /\ Section' = sect /\ conf'.number = n + 1
            /\ conf'.protos = P /\ conf'.timeout = 180
        BY <2>1, <2>4, <3>1, <3>3, Zenon
      <3> QED
        BY <3>1, <3>4, Zenon
    <2>7. CASE sect # "httpd" /\ sect \notin ProtoKinds
      <3>1. conf' = d
        BY <2>3, <2>7
      <3> QED
        BY <2>1, <2>2, <2>4, <2>7, <3>1
    <2> QED
      BY <2>5, <2>6, <2>7
  <1>4. P \in Seq(Protocols) /\ n \in Nat /\ \A i \in DOMAIN P : P[i].number <= n
    BY <1>1 DEF ConfigType, ConfigRecords, SectionsNumbered
  <1>5. \A i \in DOMAIN P : P[i].number \in Nat /\ P[i].type \in ProtoKinds
    BY <1>1, ProtocolShape
  <1>6. /\ \A i \in DOMAIN P : Kept(P[i], given)
        /\ \A i \in DOMAIN P : P[i].type = "homebrew" => P[i].fields["host"] # 0
        /\ \A i, j \in DOMAIN P : P[i].number = P[j].number => i = j
        /\ \A g \in given : g[1] \in Nat /\ g[3] \in Nat /\ g[1] <= n
    BY <1>1, <1>2 DEF ProtocolsSound, SectionsNumbered, ConfigType
  <1>7. ConfigType'
    BY <1>1, <1>2, <1>3 DEF ConfigType
  <1>8. sect # "top"
    BY DEF SectionKinds
  <1>9. TimeLimitKept'
    <2>1. \A g \in given : g[1] # n + 1
      BY <1>4, <1>6
    <2>2. KeyIn(given', n + 1, "timeout") = {} /\ n + 1 # 0
      BY <1>2, <1>4, <2>1 DEF KeyIn
    <2> HIDE DEF n
    <2> QED
      BY <1>3, <2>2 DEF TimeLimitKept
  <1>10. CASE sect \notin ProtoKinds
    <2>1. conf'.protos = P /\ Current' = Current
      BY <1>3, <1>10 DEF Current
    <2>2. SectionsNumbered'
      BY <1>2, <1>3, <1>4, <1>5, <1>6, <1>10, <2>1 DEF SectionsNumbered
    <2>3. ProtocolsSound'
      BY <1>2, <1>6, <2>1 DEF ProtocolsSound
    <2>4. program' = program
      BY <1>2, <1>10 DEF TableRoom
    <2> QED
      BY <1>2, <1>7, <1>9, <2>1, <2>2, <2>3, <2>4 DEF ConfigInv, Running
  <1>11. CASE sect \in ProtoKinds
    <2> DEFINE Q == conf'.protos
               c == Len(P) + 1
    <2>1. new \in Protocols /\ Kept(new, given)
      BY <1>11, NewProtocol
    <2>2. new.number = n + 1 /\ new.type = sect
      OBVIOUS
    <2> HIDE DEF new, P
    <2>3. /\ Len(Q) = c /\ DOMAIN Q = 1 .. c /\ Q[c] = new /\ c \in 1 .. c
          /\ \A i \in 1 .. c : i # c => i \in DOMAIN P /\ Q[i] = P[i] /\ i < c
      BY <1>3, <1>4, <1>11, <2>1, AppendProperties
    <2>4. Current' = c /\ Q # <<>>
      BY <2>3 DEF Current
    <2> HIDE DEF Q
    <2>5. SectionsNumbered'
      <3>1. \A i \in 1 .. c : Q[i].number <= n + 1
        BY <1>4, <1>5, <2>2, <2>3
      <3>2. \A i \in 1 .. c : Q[i].number = n + 1 => i = c /\ Q[i].type = sect
        BY <1>4, <1>5, <2>2, <2>3
      <3>3. ASSUME NEW i \in 1 .. c, NEW j \in 1 .. c, Q[i].number = Q[j].number PROVE i = j
        <4>1. CASE i = c \/ j = c
          BY <2>2, <2>3, <3>2, <3>3, <4>1
        <4>2. CASE i # c /\ j # c
          BY <1>6, <2>3, <3>3, <4>2
        <4> QED
          BY <4>1, <4>2
      <3>4. \A g \in given' : g[1] <= n + 1
        BY <1>2, <1>4, <1>6
      <3> QED
        BY <1>3, <1>11, <2>2, <2>3, <2>4, <3>1, <3>2, <3>3, <3>4 DEF SectionsNumbered, Q
    <2>6. ProtocolsSound'
      <3>1. \A i \in 1 .. c : Kept(Q[i], given')
        BY <1>2, <1>6, <2>1, <2>3
      <3>2. \A i \in 1 .. c : Q[i].type = "homebrew" /\ i < c => Q[i].fields["host"] # 0
        BY <1>6, <2>3
      <3> QED
        BY <1>3, <2>2, <2>3, <2>4, <3>1, <3>2 DEF ProtocolsSound, Q
    <2>7. program' # "crashed" => program' = "config" /\ Len(Q) <= MAX_PROTOS
      <3>1. Len(P) <= MAX_PROTOS
        BY <1>2 DEF ConfigInv, P
      <3>2. Current # MAX_PROTOS \/ program' = "crashed"
        BY <1>2, <1>11 DEF TableRoom
      <3>3. Len(P) \in Nat /\ Current = Len(P)
        BY <1>4 DEF Current, P
      <3>4. program' # "crashed" => program' = "config"
        BY <1>2 DEF TableRoom
      <3> QED
        BY <2>3, <3>1, <3>2, <3>3, <3>4, ConfigConstants
    <2> QED
      BY <1>7, <1>9, <2>5, <2>6, <2>7 DEF ConfigInv, Running, Q
  <1> QED
    BY <1>10, <1>11

\* A section is closed: a homebrew one only with its peer.
LEMMA SectionClosed ==
    ASSUME ConfigInv, CloseSection, conf' # conf
    PROVE  ConfigInv'
  <1> DEFINE c == [conf EXCEPT !.section = "top"]
  <1>1. ConfigType /\ SectionsNumbered /\ ProtocolsSound
    BY DEF ConfigInv
  <1>2. /\ program = "config" /\ program' = program /\ given' = given /\ Section # "top"
        /\ ~ (Section = "homebrew" /\ conf.protos[Current].fields["host"] = 0)
        /\ conf' = c \/ conf' = [c EXCEPT !.httpd.port = 8042]
    BY DEF CloseSection, Line, Keep, Fail
  <1>3. /\ conf' \in ConfigRecords /\ Section' = "top" /\ conf'.number = conf.number
        /\ conf'.protos = conf.protos /\ conf'.timeout = conf.timeout
    <2>1. conf \in ConfigRecords
      BY <1>1 DEF ConfigType
    <2>2. /\ c \in ConfigRecords /\ c.section = "top" /\ c.number = conf.number
          /\ c.protos = conf.protos /\ c.timeout = conf.timeout
      BY <2>1 DEF ConfigRecords
    <2> HIDE DEF c
    <2>3. ASSUME conf' = [c EXCEPT !.httpd.port = 8042]
          PROVE  /\ conf' \in ConfigRecords /\ conf'.section = "top" /\ conf'.number = conf.number
                 /\ conf'.protos = conf.protos /\ conf'.timeout = conf.timeout
      <3>1. c.httpd \in WebRecords
        BY <2>2 DEF ConfigRecords
      <3>2. [c.httpd EXCEPT !.port = 8042] \in WebRecords
        BY <3>1 DEF WebRecords
      <3>3. conf' = [c EXCEPT !.httpd = [c.httpd EXCEPT !.port = 8042]]
        BY <2>2, <2>3 DEF ConfigRecords
      <3> QED
        BY <2>2, <3>2, <3>3 DEF ConfigRecords
    <2> QED
      BY <1>2, <2>2, <2>3 DEF Section
  <1>4. ConfigType'
    BY <1>1, <1>2, <1>3 DEF ConfigType
  <1>5. Current' = Current /\ "top" \notin ProtoKinds
    BY <1>3 DEF Current, ProtoKinds
  <1>6. SectionsNumbered'
    BY <1>1, <1>2, <1>3, <1>5 DEF SectionsNumbered
  <1>7. ProtocolsSound'
    <2> SUFFICES ASSUME NEW i \in DOMAIN conf.protos, conf.protos[i].type = "homebrew"
                 PROVE  conf.protos[i].fields["host"] # 0
      BY <1>1, <1>2, <1>3, <1>5 DEF ProtocolsSound
    <2>1. i < Current \/ i = Current
      <3>1. conf.protos \in Seq(Protocols)
        BY <1>1 DEF ConfigType, ConfigRecords
      <3> QED
        BY <3>1 DEF Current
    <2> QED
      BY <1>1, <1>2, <2>1 DEF ProtocolsSound
  <1>8. TimeLimitKept'
    <2>1. TimeLimitKept
      BY DEF ConfigInv
    <2> QED
      BY <1>2, <1>3, <2>1, TimeLimitStands
  <1> QED
    BY <1>1, <1>2, <1>3, <1>4, <1>5, <1>6, <1>7, <1>8 DEF ConfigInv, Running
\* A line that fails ends the program and leaves the configuration.
LEMMA FailedLine == ASSUME ConfigInv, program # "crashed", Fail PROVE ConfigInv'
  <1>1. UNCHANGED <<conf, given>> /\ program' = "exited"
    BY DEF Fail
  <1>2. ~ Running'
    BY <1>1 DEF Running
  <1> QED
    BY <1>1, <1>2, NothingRead

\* A line of a protocol's section.
LEMMA ProtocolLine ==
    ASSUME ConfigInv, NEW k, NEW v \in Values, read_config_proto(k, v)
    PROVE  ConfigInv'
  <1>1. program = "config" /\ Section \in ProtoKinds /\ ~ Running
    BY DEF read_config_proto, Line, Running
  <1>2. Text(v) \in Nat /\ Narrow(k, v) \in Nat /\ v \in Nat /\ v % 2 \in Nat
    BY ValuesAreNumbers
  <1>3. CASE Fail
    BY <1>1, <1>3, FailedLine
  <1>4. ASSUME NEW j \in AddressKeys(Section) \cup {"device", "model"}, NEW stored \in Nat,
               Store(j, stored, v)
        PROVE  ConfigInv'
    BY <1>1, <1>4, KeysApart, FieldSet DEF Store, Keep, Given
  <1>5. ASSUME k \in TextKeys(Section), SetOnce(k, Text(v), v), ~ Fail PROVE ConfigInv'
    <2>1. k \in FieldsOf(Section) /\ k \notin NumberKeys(Section)
      BY <1>1, <1>5, KeysApart
    <2> QED
      BY <1>1, <1>2, <1>5, <2>1, FieldSet DEF SetOnce, Keep, Given
  <1>6. ASSUME k \in NumberKeys(Section), SetOnce(k, Narrow(k, v), v), ~ Fail PROVE ConfigInv'
    <2>1. k \in FieldsOf(Section) /\ k \notin TextKeys(Section)
      BY <1>1, <1>6, KeysApart
    <2> QED
      BY <1>1, <1>2, <1>6, <2>1, FieldSet DEF SetOnce, Keep, Given
  <1>7. \/ k \in TextKeys(Section) /\ SetOnce(k, Text(v), v)
        \/ k \in NumberKeys(Section) /\ SetOnce(k, Narrow(k, v), v)
        \/ k \in AddressKeys(Section) /\ Store(k, v, v)
        \/ Store("device", Text(v), v) \/ Store("model", v % 2, v)
        \/ Fail
    BY DEF read_config_proto
  <1> QED
    BY <1>2, <1>3, <1>4, <1>5, <1>6, <1>7

\* A line of a section that is no protocol's, or "dmrids" outside the sections.
LEMMA PlainLine ==
    ASSUME ConfigInv,
           \/ \E k : \E v \in Values : read_config_repeater(k, v)
           \/ \E k \in Values : read_config_dmrid(k)
           \/ read_dmrids
    PROVE  ConfigInv'
  <1>1. ConfigType /\ conf \in ConfigRecords /\ "repeater" \notin ProtoKinds \cup {"top"}
    BY DEF ConfigInv, ConfigType, ProtoKinds
  <1>2. CASE Fail
    BY <1>2, FailedLine DEF read_config_repeater, read_config_dmrid, read_dmrids, Line
  <1>3. ASSUME NEW k, NEW v \in Values, read_config_repeater(k, v), ~ Fail PROVE ConfigInv'
    <2> DEFINE n == conf.number
               w == <<n, k, v>>
    <2>1. /\ Section = "repeater" /\ program = "config" /\ program' = program
          /\ \/ /\ k = "script" /\ conf' = [conf EXCEPT !.script = Text(v)]
                /\ given' = given \cup {w}
             \/ /\ k = "timeout" /\ conf' = [conf EXCEPT !.timeout = Narrow(k, v)]
                /\ given' = {g \in given : ~ (g[1] = n /\ g[2] = k)} \cup {w}
      BY <1>3 DEF read_config_repeater, Line, Keep, Given, GivenAgain
    <2>2. Text(v) \in Nat /\ Narrow(k, v) \in Nat /\ v \in Nat /\ n \in Nat
      BY <1>1, ValuesAreNumbers DEF ConfigRecords
    <2>3. w[1] = n /\ w[2] = k /\ w[3] = v
      OBVIOUS
    <2>4. /\ conf' \in ConfigRecords /\ Section' = Section /\ conf'.number = n
          /\ conf'.protos = conf.protos
          /\ k = "script" => conf'.timeout = conf.timeout
          /\ k = "timeout" => conf'.timeout = Narrow(k, v)
      BY <1>1, <2>1, <2>2 DEF ConfigRecords, Section
    <2> HIDE DEF w, n
    <2>5. \A g \in given' : g \in given \/ g = w
      BY <2>1
    <2>6. ConfigType'
      BY <1>1, <2>2, <2>3, <2>4, <2>5 DEF ConfigType
    <2>7. \A g : g[1] # n => (g \in given' <=> g \in given)
      BY <2>1, <2>3
    <2>8. TimeLimitKept'
      <3>1. CASE k = "script"
        <4>1. KeyIn(given', n, "timeout") = KeyIn(given, n, "timeout")
          BY <2>1, <2>3, <3>1 DEF KeyIn
        <4> QED
          BY <2>1, <2>4, <3>1, <4>1, TimeLimitStands DEF ConfigInv, n
      <3>2. CASE k = "timeout"
        <4>1. KeyIn(given', n, "timeout") = {w}
          BY <2>1, <2>3, <3>2 DEF KeyIn
        <4>2. n # 0
          BY <2>1 DEF ConfigInv, TimeLimitKept, n
        <4> QED
          BY <2>3, <2>4, <3>2, <4>1, <4>2 DEF TimeLimitKept
      <3> QED
        BY <2>1, <3>1, <3>2
    <2> QED
      BY <1>1, <2>1, <2>4, <2>6, <2>7, <2>8, OtherLine DEF Running, n
  <1>4. ASSUME NEW k \in Values, read_config_dmrid(k), ~ Fail PROVE ConfigInv'
    BY <1>4, NothingRead DEF read_config_dmrid, Line, Keep, Running
  <1>5. ASSUME read_dmrids, ~ Fail PROVE ConfigInv'
    <2>1. /\ conf' = Defaults(conf) /\ program = "config" /\ program' = program /\ given' = given
          /\ Section = "top"
      BY <1>5 DEF read_dmrids, Line, Keep
    <2> QED
      BY <2>1, DefaultsLine DEF Running
  <1> QED
    BY <1>2, <1>3, <1>4, <1>5

\* A line of the web server's section.
LEMMA ServerLine ==
    ASSUME ConfigInv, NEW k, NEW v \in Values, read_config_httpd(k, v)
    PROVE  ConfigInv'
  <1>1. /\ ConfigType /\ conf \in ConfigRecords /\ conf.httpd \in WebRecords
        /\ "httpd" \notin ProtoKinds \cup {"top"}
        /\ Section = "httpd" /\ program = "config"
    BY DEF ConfigInv, ConfigType, ConfigRecords, ProtoKinds, read_config_httpd, Line
  <1>2. CASE Fail
    BY <1>1, <1>2, FailedLine
  <1>3. CASE ~ Fail
    <2>1. /\ program' = program /\ given' = given \cup {<<conf.number, k, v>>} /\ k # "timeout"
          /\ \/ conf' = [conf EXCEPT !.httpd.port = Narrow(k, v)]
             \/ k = "bind" /\ conf' = [conf EXCEPT !.httpd["bind"] = Text(v)]
             \/ k = "root" /\ conf' = [conf EXCEPT !.httpd["root"] = Text(v)]
      BY <1>3 DEF read_config_httpd, Keep, Given
    <2>2. Text(v) \in Nat /\ Narrow(k, v) \in Nat /\ v \in Nat
      BY ValuesAreNumbers
    <2>3. \E h \in WebRecords : conf' = [conf EXCEPT !.httpd = h]
      <3>1. CASE conf' = [conf EXCEPT !.httpd.port = Narrow(k, v)]
        <4>1. [conf.httpd EXCEPT !.port = Narrow(k, v)] \in WebRecords
          BY <1>1, <2>2 DEF WebRecords
        <4>2. conf' = [conf EXCEPT !.httpd = [conf.httpd EXCEPT !.port = Narrow(k, v)]]
          BY <1>1, <3>1 DEF ConfigRecords
        <4> QED
          BY <4>1, <4>2, Zenon
      <3>2. CASE conf' = [conf EXCEPT !.httpd["bind"] = Text(v)]
        <4>1. [conf.httpd EXCEPT !.bind = Text(v)] \in WebRecords
          BY <1>1, <2>2 DEF WebRecords
        <4>2. conf' = [conf EXCEPT !.httpd = [conf.httpd EXCEPT !.bind = Text(v)]]
          BY <1>1, <3>2 DEF ConfigRecords
        <4> QED
          BY <4>1, <4>2, Zenon
      <3>3. CASE conf' = [conf EXCEPT !.httpd["root"] = Text(v)]
        <4>1. [conf.httpd EXCEPT !.root = Text(v)] \in WebRecords
          BY <1>1, <2>2 DEF WebRecords
        <4>2. conf' = [conf EXCEPT !.httpd = [conf.httpd EXCEPT !.root = Text(v)]]
          BY <1>1, <3>3 DEF ConfigRecords
        <4> QED
          BY <4>1, <4>2, Zenon
      <3> QED
        BY <2>1, <3>1, <3>2, <3>3
    <2>4. /\ conf' \in ConfigRecords /\ Section' = Section /\ conf'.number = conf.number
          /\ conf'.protos = conf.protos /\ conf'.timeout = conf.timeout
      BY <1>1, <2>3 DEF ConfigRecords, Section
    <2>5. \A g \in given' : g[1] \in Nat /\ g[3] \in Nat
      BY <1>1, <2>1, <2>2 DEF ConfigType, ConfigRecords
    <2>6. ConfigType'
      BY <2>4, <2>5 DEF ConfigType
    <2>7. /\ \A g : g[1] # conf.number => (g \in given' <=> g \in given)
          /\ KeyIn(given', conf.number, "timeout") = KeyIn(given, conf.number, "timeout")
      <3> DEFINE w == <<conf.number, k, v>>
      <3>1. w[1] = conf.number /\ w[2] = k
        OBVIOUS
      <3> HIDE DEF w
      <3>2. given' = given \cup {w}
        BY <2>1 DEF w
      <3> QED
        BY <2>1, <3>1, <3>2 DEF KeyIn
    <2>8. TimeLimitKept'
      BY <1>1, <2>4, <2>7, TimeLimitStands DEF ConfigInv
    <2> QED
      BY <1>1, <2>1, <2>4, <2>6, <2>7, <2>8, OtherLine DEF Running
  <1> QED
    BY <1>2, <1>3

\* The invariant is kept by every step of the program.
LEMMA ConfigInvStep == ConfigInv /\ [ConfigNext]_configVars => ConfigInv'
  <1> SUFFICES ASSUME ConfigInv, [ConfigNext]_configVars PROVE ConfigInv'
    OBVIOUS
  <1>1. CASE UNCHANGED configVars
    BY <1>1, NothingRead DEF configVars, ConfigInv, Running
  <1>2. CASE main_args
    BY <1>2, NothingRead DEF main_args, Running
  <1>3. CASE BlankLine \/ NamelessSection
    BY <1>3, NothingRead DEF BlankLine, NamelessSection, Line, Running
  <1>4. CASE BadLine
    BY <1>4, FailedLine DEF BadLine, Line
  <1>5. ASSUME NEW sect \in SectionKinds, OpenSection(sect) PROVE ConfigInv'
    <2>1. CASE conf' = conf
      BY <1>5, <2>1, NothingRead DEF OpenSection, TableRoom, Line, Fail, Running
    <2> QED
      BY <1>5, <2>1, SectionOpened
  <1>6. CASE CloseSection
    <2>1. CASE conf' = conf
      BY <1>6, <2>1, NothingRead DEF CloseSection, Line, Fail, Keep, Running
    <2> QED
      BY <1>6, <2>1, SectionClosed
  <1>7. CASE EndOfFile
    BY <1>7, NothingRead, FailedLine DEF EndOfFile
  <1>8. CASE main_end
    BY <1>8, NothingRead DEF main_end, Started, ConfigInv, Running
  <1>9. ASSUME NEW k, NEW v \in Values,
               \/ read_config_repeater(k, v) \/ read_config_dmrid(v)
               \/ read_config_httpd(k, v) \/ read_config_proto(k, v)
        PROVE  ConfigInv'
    BY <1>9, PlainLine, ServerLine, ProtocolLine
  <1>10. CASE read_dmrids
    BY <1>10, PlainLine
  <1>11. CASE \E sect \in SectionChoice : OpenSection(sect)
    BY <1>5, <1>11, SectionsKnown
  <1>12. CASE \/ \E k \in KeyChoice["repeater"], v \in Values : read_config_repeater(k, v)
              \/ \E k \in Values : read_config_dmrid(k)
              \/ \E k \in KeyChoice["httpd"], v \in Values : read_config_httpd(k, v)
              \/ \E k \in KeyChoice[Section], v \in Values : read_config_proto(k, v)
    BY <1>9, <1>12
  <1> QED
    BY <1>1, <1>2, <1>3, <1>4, <1>6, <1>7, <1>8, <1>10, <1>11, <1>12, Zenon DEF ConfigNext

\* What the invariant says of a program that got past its configuration.
LEMMA ConfigInvIsAsGiven == ConfigInv => ConfigAsGiven
  <1> SUFFICES ASSUME ConfigInv, Running PROVE ConfigAsGiven
    BY DEF ConfigAsGiven, PeersConfigured, GivenOnceAndKept, LoopConfigured, TimeLimitOfLastSection
  <1>1. PeersConfigured
    BY DEF PeersConfigured, ConfigInv, ProtocolsSound
  <1>2. GivenOnceAndKept
    <2> SUFFICES ASSUME NEW i \in DOMAIN conf.protos
                 PROVE  LET p == conf.protos[i]
                            Is(k, values) == \/ values = {} /\ p.fields[k] = FieldDefaults(p.type)[k]
                                             \/ values = {p.fields[k]}
                        IN  /\ \A k \in TextKeys(p.type) :
                                  Is(k, {Text(g[3]) : g \in GivenTo(p.number, k)})
                            /\ \A k \in NumberKeys(p.type) :
                                  Is(k, {Narrow(k, g[3]) : g \in GivenTo(p.number, k)} \ {0})
      BY Zenon DEF GivenOnceAndKept
    <2>1. Kept(conf.protos[i], given)
      BY DEF ConfigInv, ProtocolsSound
    <2>2. \A n, k : GivenTo(n, k) = KeyIn(given, n, k)
      BY DEF GivenTo, KeyIn
    <2> QED
      BY <2>1, <2>2, Zenon DEF Kept, FieldKept, TextsIn, NumbersIn
  <1>3. LoopConfigured
    <2>1. conf.protos \in Seq(Protocols) /\ conf.protos # <<>> /\ Len(conf.protos) <= MAX_PROTOS
      BY DEF ConfigInv, ConfigType, ConfigRecords, Running
    <2>2. Len(conf.protos) \in 1 .. MAX_PROTOS
      BY <2>1, ConfigConstants
    <2> QED
      BY <2>2 DEF LoopConfigured, ConfigInv
  <1>4. TimeLimitOfLastSection
    <2>1. GivenTo(conf.number, "timeout") = KeyIn(given, conf.number, "timeout")
      BY DEF GivenTo, KeyIn
    <2>2. conf.number # 0 /\ TimeLimitKept
      BY DEF ConfigInv, TimeLimitKept
    <2> QED
      BY <2>1, <2>2 DEF TimeLimitKept, TimeLimitOfLastSection
  <1> QED
    BY <1>1, <1>2, <1>3, <1>4 DEF ConfigAsGiven

\* A program that gets as far as its loop runs with a script, with protocols that
\* fit the table, each with its peer and with what its own section gave, and with
\* the time limit of the last section, the default if that gives none (config.c:366,
\* main.c).
THEOREM ConfigurationIsAsGiven == ConfigSpec => []ConfigAsGiven
  <1>1. ConfigInit => ConfigInv
    <2> SUFFICES ASSUME ConfigInit PROVE ConfigInv
      OBVIOUS
    <2>1. /\ conf.protos = <<>> /\ conf.number = 0 /\ Section = "top" /\ given = {}
          /\ conf.script = 0
          /\ program = "args"
      BY DEF ConfigInit, Section
    <2>2. ConfigType
      <3>1. /\ <<>> \in Seq(Protocols) /\ "top" \in SectionKinds \cup {"top"}
            /\ [enabled |-> FALSE, port |-> 8042, bind |-> 1, root |-> 1] \in WebRecords
        BY DEF WebRecords
      <3> QED
        BY <2>1, <3>1 DEF ConfigInit, ConfigType, ConfigRecords
    <2>3. "top" \notin ProtoKinds
      BY DEF ProtoKinds
    <2> QED
      BY <2>1, <2>2, <2>3, ConfigConstants
         DEF ConfigInv, SectionsNumbered, ProtocolsSound, TimeLimitKept, Running
  <1> QED
    BY <1>1, ConfigInvStep, ConfigInvIsAsGiven, PTL DEF ConfigSpec
----------------------------------------------------------------------------
(***************************************************************************)
(* Raw buffers.                                                            *)
(***************************************************************************)
\* The buffer and the queue of buffers, each in a program of its own.
RawSpec ==
    /\ RawInit /\ dmr_rawq_new
    /\ [][(RawNext /\ UNCHANGED rawqVars) \/ (RawqNext /\ UNCHANGED rawVars)]_<<rawVars, rawqVars>>

\* The numbers in the frames that are sent (dmr_homebrew_send), and the identifiers
\* in the frames of the login.
FrameWords == UNION {{Word(3, p.src_id), Word(3, p.dst_id), Word(4, p.repeater_id),
                      Word(4, p.stream_id)} : p \in Packets}
IdWords == {Word(4, id) : id \in RepeaterIds}
AllWords == RawWords \cup FrameWords \cup IdWords
AllTexts == RawTexts \cup {Digest}

\* What may stand in a buffer.
BytesIn(w) == {Bytes(w)[i] : i \in 1 .. w.size}
DigitsIn(s) == {HexOf(s)[i] : i \in 1 .. 2 * Len(s)}

AllBytes == UNION {BytesIn(w) : w \in AllWords}
AllDigits == UNION {DigitsIn(Bytes(w)) \cup DigitsIn(Reverse(Bytes(w))) : w \in AllWords}
AllTextDigits == UNION {DigitsIn(t) : t \in AllTexts}

Stored == Nat \cup AllBytes \cup AllDigits \cup AllTextDigits

RawType(r) == r \in [buf : Seq(Stored), len : Nat] /\ r.len <= Len(r.buf)

\* Behind its length a buffer is zero.
ZeroTail(r) == \A i \in 1 .. Len(r.buf) : i > r.len => r.buf[i] = 0

\* A buffer to which a field of w bytes was added.
Extended(r, q, w, c) ==
    /\ RawType(q) /\ ZeroTail(q) /\ q.len = r.len + w /\ Len(q.buf) >= Len(r.buf)
    /\ \A i \in 1 .. r.len : q.buf[i] = r.buf[i]
    /\ \A j \in 1 .. w : q.buf[r.len + j] = c[j]

\* A buffer has room for what it holds, and holds it byte for byte.
Holds(r, content) ==
    /\ RawType(r) /\ ZeroTail(r) /\ content \in Seq(Stored) /\ Len(content) = r.len
    /\ \A i \in 1 .. r.len : r.buf[i] = content[i]

\* A buffer holds what was added.
RawInv == (raw = NoRaw /\ added = <<>>) \/ Holds(raw, added)

\* The allocation is rounded up, never down.
LEMMA RoundedUp == ASSUME NEW n \in Nat PROVE RoundUp(n) \in Nat /\ RoundUp(n) >= n
  BY DEF RoundUp, ROUND

\* Zeroed memory.
LEMMA ZeroBytes ==
    ASSUME NEW n \in Nat
    PROVE  Zeros(n) \in Seq(Stored) /\ Len(Zeros(n)) = n /\ \A i \in 1 .. n : Zeros(n)[i] = 0
  <1>1. 0 \in Stored
    BY DEF Stored
  <1> QED
    BY <1>1 DEF Zeros

\* A buffer that has grown holds what it held, and zeros behind it.
LEMMA Grown ==
    ASSUME NEW r, RawType(r), ZeroTail(r), NEW n \in Nat
    PROVE  LET g == dmr_raw_grow(r, n) IN
           /\ RawType(g) /\ ZeroTail(g) /\ g.len = r.len
           /\ n >= r.len => n <= Len(g.buf)
           /\ Len(g.buf) >= Len(r.buf)
           /\ \A i \in 1 .. r.len : g.buf[i] = r.buf[i]
  <1>1. CASE n < Allocated(r)
    BY <1>1 DEF dmr_raw_grow, Allocated, RawType
  <1>2. CASE ~ n < Allocated(r)
    <2> DEFINE m == RoundUp(n)
               s == SubSeq(r.buf, 1, r.len)
               z == Zeros(m - r.len)
    <2>1. r.buf \in Seq(Stored) /\ r.len \in Nat /\ r.len <= Len(r.buf) /\ Len(r.buf) \in Nat
      BY DEF RawType
    <2>2. m \in Nat /\ m >= n /\ n >= r.len /\ m - r.len \in Nat /\ m >= Len(r.buf)
      <3>1. m \in Nat /\ m >= n
        BY RoundedUp
      <3>2. n >= Len(r.buf)
        BY <1>2, <2>1 DEF Allocated
      <3> HIDE DEF m
      <3> QED
        BY <2>1, <3>1, <3>2
    <2>3. s \in Seq(Stored) /\ Len(s) = r.len /\ \A i \in 1 .. r.len : s[i] = r.buf[i]
      BY <2>1, SubSeqProperties
    <2>4. z \in Seq(Stored) /\ Len(z) = m - r.len /\ \A i \in 1 .. m - r.len : z[i] = 0
      BY <2>2, ZeroBytes
    <2> HIDE DEF m, s, z
    <2>5. /\ s \o z \in Seq(Stored) /\ Len(s \o z) = m
          /\ \A i \in 1 .. m : (s \o z)[i] = IF i <= r.len THEN s[i] ELSE z[i - r.len]
      <3>1. /\ s \o z \in Seq(Stored) /\ Len(s \o z) = Len(s) + Len(z)
            /\ \A i \in 1 .. Len(s) + Len(z) :
                  (s \o z)[i] = IF i <= Len(s) THEN s[i] ELSE z[i - Len(s)]
        BY <2>3, <2>4, ConcatProperties
      <3>2. Len(s) + Len(z) = m
        BY <2>1, <2>2, <2>3, <2>4
      <3> QED
        BY <2>3, <3>1, <3>2, Zenon
    <2> DEFINE t == s \o z
    <2>6. dmr_raw_grow(r, n) = [buf |-> t, len |-> r.len]
      BY <1>2 DEF dmr_raw_grow, RawType, m, s, z
    <2> HIDE DEF t
    <2>7. \A i \in 1 .. m : i <= r.len => t[i] = r.buf[i]
      BY <2>1, <2>3, <2>5 DEF t
    <2>8. \A i \in 1 .. m : i > r.len => t[i] = 0
      <3> TAKE i \in 1 .. m
      <3> HAVE i > r.len
      <3>1. i - r.len \in 1 .. m - r.len /\ ~ i <= r.len
        BY <2>1, <2>2
      <3> QED
        BY <2>4, <2>5, <3>1, Zenon DEF t
    <2>9. t \in Seq(Stored) /\ Len(t) = m
      BY <2>5 DEF t
    <2> QED
      BY <2>1, <2>2, <2>6, <2>7, <2>8, <2>9 DEF RawType, ZeroTail
  <1> QED
    BY <1>1, <1>2

\* Bytes written at the end of a buffer that has room for them stand behind what it
\* held, and the place that is left of them is zero.
LEMMA Put ==
    ASSUME NEW r, RawType(r), ZeroTail(r), NEW bytes \in Seq(Stored), NEW n \in Nat,
           r.len + n <= Len(r.buf), \A j \in 1 .. Len(bytes) : j > n => bytes[j] = 0,
           NEW q, q = PutAt(r, bytes, n)
    PROVE  /\ RawType(q) /\ ZeroTail(q) /\ q.len = r.len + n
           /\ \A i \in 1 .. r.len : q.buf[i] = r.buf[i]
           /\ \A j \in 1 .. n : q.buf[r.len + j] = IF j \in 1 .. Len(bytes) THEN bytes[j] ELSE 0
           /\ Len(q.buf) = Len(r.buf)
  <1> DEFINE b == r.buf
             k == r.len
             At(i) == IF i - k \in DOMAIN bytes THEN bytes[i - k] ELSE b[i]
             t == [i \in DOMAIN b |-> At(i)]
  <1>1. b \in Seq(Stored) /\ k \in Nat /\ k + n <= Len(b) /\ Len(b) \in Nat
    BY DEF RawType
  <1>2. DOMAIN bytes = 1 .. Len(bytes) /\ Len(bytes) \in Nat /\ DOMAIN b = 1 .. Len(b)
    BY <1>1
  <1>3. q = [buf |-> t, len |-> k + n]
    BY DEF PutAt
  <1>4. \A i \in 1 .. Len(b) : b[i] \in Stored /\ (i > k => b[i] = 0)
    BY <1>1 DEF ZeroTail
  <1> HIDE DEF b, k
  <1>5. \A i \in 1 .. Len(b) : At(i) \in Stored
    BY <1>1, <1>2, <1>4
  <1>6. t \in Seq(Stored) /\ Len(t) = Len(b) /\ \A i \in 1 .. Len(b) : t[i] = At(i)
    BY <1>1, <1>2, <1>5
  <1>7. \A i \in 1 .. k : At(i) = b[i]
    BY <1>1, <1>2
  <1>8. \A j \in 1 .. n : At(k + j) = IF j \in 1 .. Len(bytes) THEN bytes[j] ELSE 0
    BY <1>1, <1>2, <1>4
  <1>9. \A i \in 1 .. Len(b) : i > k + n => At(i) = 0
    BY <1>1, <1>2, <1>4
  <1> HIDE DEF t, At
  <1>10. \A i \in 1 .. k : t[i] = b[i]
    BY <1>1, <1>6, <1>7
  <1>11. \A j \in 1 .. n : t[k + j] = IF j \in 1 .. Len(bytes) THEN bytes[j] ELSE 0
    <2> SUFFICES ASSUME NEW j \in 1 .. n PROVE t[k + j] = At(k + j)
      BY <1>8
    <2> QED
      BY <1>1, <1>6
  <1>12. RawType([buf |-> t, len |-> k + n]) /\ ZeroTail([buf |-> t, len |-> k + n])
    BY <1>1, <1>6, <1>9 DEF RawType, ZeroTail
  <1> QED
    BY <1>3, <1>6, <1>10, <1>11, <1>12 DEF b, k

\* What is written at the end of a buffer that is first made large enough stands
\* behind what it held; content is what the bytes come to, with the zeros that
\* were there where they do not fill their place.
LEMMA Stores ==
    ASSUME NEW r, RawType(r), ZeroTail(r), NEW n \in Nat, NEW room \in Nat, room >= r.len + n,
           NEW bytes \in Seq(Stored), \A j \in 1 .. Len(bytes) : j > n => bytes[j] = 0,
           NEW content, \A j \in 1 .. n : content[j] = IF j \in 1 .. Len(bytes) THEN bytes[j] ELSE 0,
           NEW q, q = PutAt(dmr_raw_grow(r, room), bytes, n)
    PROVE  Extended(r, q, n, content)
  <1> DEFINE g == dmr_raw_grow(r, room)
             k == r.len
  <1>1. k \in Nat /\ room >= k
    BY DEF RawType
  <1>2. /\ RawType(g) /\ ZeroTail(g) /\ g.len = k /\ k + n <= Len(g.buf)
        /\ \A i \in 1 .. k : g.buf[i] = r.buf[i]
        /\ Len(g.buf) >= Len(r.buf)
    <2>1. /\ RawType(g) /\ ZeroTail(g) /\ g.len = k /\ room <= Len(g.buf)
          /\ Len(g.buf) >= Len(r.buf)
          /\ \A i \in 1 .. k : g.buf[i] = r.buf[i]
      BY <1>1, Grown
    <2>2. Len(g.buf) \in Nat
      BY <2>1 DEF RawType
    <2> QED
      BY <1>1, <2>1, <2>2
  <1>3. q = PutAt(g, bytes, n) /\ g.len + n <= Len(g.buf)
    BY <1>2
  <1> HIDE DEF g, k
  <1>4. /\ RawType(q) /\ ZeroTail(q) /\ q.len = g.len + n
        /\ \A i \in 1 .. g.len : q.buf[i] = g.buf[i]
        /\ \A j \in 1 .. n : q.buf[g.len + j] = IF j \in 1 .. Len(bytes) THEN bytes[j] ELSE 0
        /\ Len(q.buf) = Len(g.buf)
    BY <1>2, <1>3, Put
  <1>5. /\ RawType(q) /\ ZeroTail(q) /\ q.len = k + n
        /\ \A i \in 1 .. k : q.buf[i] = g.buf[i]
        /\ \A j \in 1 .. n : q.buf[k + j] = IF j \in 1 .. Len(bytes) THEN bytes[j] ELSE 0
    BY <1>2, <1>4, Zenon
  <1>6. \A i \in 1 .. k : q.buf[i] = r.buf[i]
    BY <1>2, <1>5
  <1>7. \A j \in 1 .. n : q.buf[k + j] = content[j]
    BY <1>5
  <1> QED
    BY <1>2, <1>4, <1>5, <1>6, <1>7 DEF Extended, k

\* What is added stands behind what a buffer holds.
LEMMA HoldsMore ==
    ASSUME NEW r, NEW before, Holds(r, before), NEW content \in Seq(Stored),
           NEW q, Extended(r, q, Len(content), content)
    PROVE  Holds(q, before \o content)
  <1> DEFINE k == r.len
             n == Len(content)
             s == before
             t == s \o content
  <1>1. /\ s \in Seq(Stored) /\ Len(s) = k /\ k \in Nat /\ n \in Nat
        /\ \A i \in 1 .. k : r.buf[i] = s[i]
    BY DEF Holds, RawType
  <1>2. /\ RawType(q) /\ ZeroTail(q) /\ q.len = k + n
        /\ \A i \in 1 .. k : q.buf[i] = r.buf[i]
        /\ \A j \in 1 .. n : q.buf[k + j] = content[j]
    BY DEF Extended
  <1>3. /\ t \in Seq(Stored) /\ Len(t) = Len(s) + Len(content)
        /\ \A i \in 1 .. Len(s) + Len(content) :
              t[i] = IF i <= Len(s) THEN s[i] ELSE content[i - Len(s)]
    BY <1>1, ConcatProperties
  <1> HIDE DEF s, t
  <1>4. /\ t \in Seq(Stored) /\ Len(t) = k + n
        /\ \A i \in 1 .. k + n : t[i] = IF i <= k THEN s[i] ELSE content[i - k]
    BY <1>1, <1>3, Zenon
  <1> HIDE DEF k, n
  <1>5. ASSUME NEW i \in 1 .. k + n PROVE q.buf[i] = t[i]
    <2>1. CASE i <= k
      <3>1. i \in 1 .. k
        BY <1>1, <2>1
      <3> QED
        BY <1>1, <1>2, <1>4, <2>1, <3>1
    <2>2. CASE i > k
      <3>1. i - k \in 1 .. n /\ k + (i - k) = i /\ ~ i <= k
        BY <1>1, <2>2
      <3>2. q.buf[k + (i - k)] = content[i - k]
        BY <1>2, <3>1
      <3> QED
        BY <1>4, <3>1, <3>2
    <2>3. i <= k \/ i > k
      BY <1>1
    <2> QED
      BY <2>1, <2>2, <2>3, Zenon
  <1>6. Holds(q, t)
    BY <1>2, <1>4, <1>5 DEF Holds
  <1> QED
    BY <1>6 DEF t, s

\* A caller that adds content keeps what holds of its buffer.
LEMMA Added ==
    ASSUME RawInv, raw # NoRaw, NEW content \in Seq(Stored),
           Extended(raw, raw', Len(content), content), added' = added \o content
    PROVE  RawInv'
  <1>1. Holds(raw, added)
    BY DEF RawInv
  <1>2. Holds(raw', added')
    BY <1>1, HoldsMore
  <1> QED
    BY <1>2 DEF RawInv

\* A function on 1 .. n of what a buffer may hold is a sequence.
LEMMA AsSequence ==
    ASSUME NEW f, NEW n \in Nat, f = [i \in 1 .. n |-> f[i]], \A i \in 1 .. n : f[i] \in Stored
    PROVE  f \in Seq(Stored) /\ Len(f) = n /\ DOMAIN f = 1 .. n
  OBVIOUS

\* The bytes and the digits of what may be added may stand in a buffer.
LEMMA StoredParts ==
    /\ \A w \in AllWords : BytesIn(w) \subseteq Stored
    /\ \A w \in AllWords : DigitsIn(Bytes(w)) \subseteq Stored /\ DigitsIn(Reverse(Bytes(w))) \subseteq Stored
    /\ \A t \in AllTexts : DigitsIn(t) \subseteq Stored
  <1>1. \A w \in AllWords : BytesIn(w) \subseteq AllBytes
    BY DEF AllBytes
  <1>2. \A w \in AllWords : DigitsIn(Bytes(w)) \cup DigitsIn(Reverse(Bytes(w))) \subseteq AllDigits
    BY DEF AllDigits
  <1>3. \A t \in AllTexts : DigitsIn(t) \subseteq AllTextDigits
    BY DEF AllTextDigits
  <1> QED
    BY <1>1, <1>2, <1>3 DEF Stored

\* The digits of bytes, two for each.
LEMMA HexDigits ==
    ASSUME NEW s \in Seq(Stored), DigitsIn(s) \subseteq Stored
    PROVE  HexOf(s) \in Seq(Stored) /\ Len(HexOf(s)) = 2 * Len(s)
  <1> DEFINE h == HexOf(s)
             n == 2 * Len(s)
  <1>1. n \in Nat
    OBVIOUS
  <1>2. h = [i \in 1 .. n |-> h[i]]
    BY Zenon DEF HexOf
  <1>3. \A i \in 1 .. n : h[i] \in Stored
    BY DEF DigitsIn
  <1> HIDE DEF h, n
  <1>4. h \in Seq(Stored) /\ Len(h) = n
    BY <1>1, <1>2, <1>3, AsSequence
  <1> QED
    BY <1>4 DEF h, n

\* The bytes of a number.
LEMMA WordBytes ==
    ASSUME NEW w \in AllWords
    PROVE  w.size \in Nat \ {0} /\ Bytes(w) \in Seq(Stored) /\ Len(Bytes(w)) = w.size
  <1> DEFINE b == Bytes(w)
  <1>1. w.size \in Nat \ {0}
    <2>1. CASE w \in RawWords
      BY <2>1, RawConstants
    <2>2. CASE w \in FrameWords \cup IdWords
      BY <2>2 DEF FrameWords, IdWords, Word
    <2> QED
      BY <2>1, <2>2 DEF AllWords
  <1>2. b = [i \in 1 .. w.size |-> b[i]] /\ \A i \in 1 .. w.size : b[i] \in Stored
    <2>1. b = [i \in 1 .. w.size |-> b[i]]
      BY Zenon DEF Bytes
    <2>2. \A i \in 1 .. w.size : b[i] \in BytesIn(w)
      BY Zenon DEF BytesIn
    <2>3. BytesIn(w) \subseteq Stored
      BY StoredParts
    <2> QED
      BY <2>1, <2>2, <2>3, Zenon
  <1> HIDE DEF b
  <1>3. b \in Seq(Stored) /\ Len(b) = w.size
    BY <1>1, <1>2, AsSequence
  <1> QED
    BY <1>1, <1>3 DEF b

\* The encodings of a number: its bytes, its swapped bytes, and their digits.
LEMMA WordEncodings ==
    ASSUME NEW w \in AllWords
    PROVE  /\ w.size \in Nat \ {0}
           /\ Bytes(w) \in Seq(Stored) /\ Len(Bytes(w)) = w.size
           /\ Reverse(Bytes(w)) \in Seq(Stored) /\ Len(Reverse(Bytes(w))) = w.size
           /\ DigitsIn(Bytes(w)) \subseteq Stored /\ DigitsIn(Reverse(Bytes(w))) \subseteq Stored
  <1> DEFINE b == Bytes(w)
             s == Reverse(b)
             n == w.size
  <1>1. n \in Nat \ {0} /\ b \in Seq(Stored) /\ Len(b) = n
    BY WordBytes
  <1>2. s \in Seq(Stored) /\ Len(s) = n
    <2> HIDE DEF b, n
    <2>1. s = [i \in 1 .. n |-> b[(n - i) + 1]]
      BY <1>1 DEF Reverse
    <2>2. n \in Nat /\ \A i \in 1 .. n : (n - i) + 1 \in 1 .. n
      BY <1>1
    <2>3. \A i \in 1 .. n : b[(n - i) + 1] \in Stored
      BY <1>1, <2>2
    <2> HIDE DEF s
    <2> QED
      BY <2>1, <2>2, <2>3
  <1> QED
    BY <1>1, <1>2, StoredParts

\* A text, and its digits.
LEMMA TextEncodings ==
    ASSUME NEW t \in AllTexts
    PROVE  t \in Seq(Stored) /\ Len(t) \in Nat /\ DigitsIn(t) \subseteq Stored
  <1>1. t \in Seq(0 .. 255)
    <2>1. Digest \in Seq(0 .. 255)
      <3>1. Digest = [i \in 1 .. 32 |-> Digest[i]] /\ \A i \in 1 .. 32 : Digest[i] \in 0 .. 255
        BY FrameConstants
      <3> QED
        BY <3>1
    <2> QED
      BY <2>1, RawConstants DEF AllTexts
  <1>2. 0 .. 255 \subseteq Stored
    BY DEF Stored
  <1>3. t \in Seq(Stored)
    BY <1>1, <1>2, SeqMonotonic, Zenon
  <1> QED
    BY <1>1, <1>3, StoredParts

\* What snprintf writes: as much of the text as fits, and a NUL.
LEMMA Printed ==
    ASSUME NEW text \in Seq(Stored), NEW size \in Nat \ {0}
    PROVE  LET p == snprintf(text, size) IN
           /\ p \in Seq(Stored)
           /\ Len(p) = IF Len(text) < size THEN Len(text) + 1 ELSE size
           /\ \A j \in 1 .. Len(p) : p[j] = IF j = Len(p) THEN 0 ELSE text[j]
  <1> DEFINE s == IF Len(text) < size THEN text ELSE SubSeq(text, 1, size - 1)
             p == s \o <<0>>
  <1>1. <<0>> \in Seq(Stored) /\ Len(<<0>>) = 1 /\ <<0>>[1] = 0
    BY DEF Stored
  <1>2. s \in Seq(Stored) /\ Len(s) = (IF Len(text) < size THEN Len(text) ELSE size - 1)
        /\ \A j \in 1 .. Len(s) : s[j] = text[j]
    <2>1. CASE Len(text) < size
      BY <2>1
    <2>2. CASE ~ Len(text) < size
      <3>1. size - 1 \in Nat /\ size - 1 <= Len(text)
        BY <2>2
      <3> QED
        BY <2>2, <3>1, SubSeqProperties
    <2> QED
      BY <2>1, <2>2
  <1> HIDE DEF s
  <1>3. /\ p \in Seq(Stored) /\ Len(p) = Len(s) + 1
        /\ \A j \in 1 .. Len(s) + 1 : p[j] = IF j <= Len(s) THEN s[j] ELSE <<0>>[j - Len(s)]
    BY <1>1, <1>2, ConcatProperties
  <1> HIDE DEF p
  <1>4. Len(s) \in Nat
    BY <1>2
  <1>5. \A j \in 1 .. Len(p) : p[j] = IF j = Len(p) THEN 0 ELSE text[j]
    BY <1>1, <1>2, <1>3, <1>4
  <1>6. Len(p) = IF Len(text) < size THEN Len(text) + 1 ELSE size
    BY <1>2, <1>3
  <1>7. snprintf(text, size) = p
    BY DEF snprintf, p, s
  <1> QED
    BY <1>3, <1>5, <1>6, <1>7, Zenon

\* A buffer that was just allocated or reset holds nothing (dmr_raw_new,
\* dmr_raw_reset).
LEMMA EmptiedRaw ==
    ASSUME NEW z \in Seq(Stored), Len(z) \in Nat, \A i \in 1 .. Len(z) : z[i] = 0,
           raw' = [buf |-> z, len |-> 0], added' = <<>>
    PROVE  RawInv'
  <1>1. RawType(raw') /\ raw'.len = 0
    BY DEF RawType
  <1>2. ZeroTail(raw')
    BY DEF ZeroTail
  <1>3. added' \in Seq(Stored) /\ Len(added') = 0
    OBVIOUS
  <1> QED
    BY <1>1, <1>2, <1>3 DEF RawInv, Holds

\* Bytes that are added stand behind what was there (dmr_raw_add).
LEMMA RawAdded ==
    ASSUME NEW r, RawType(r), ZeroTail(r), NEW bytes \in Seq(Stored), NEW n \in Nat, Len(bytes) = n
    PROVE  Extended(r, dmr_raw_add(r, bytes), n, bytes)
  <1>1. r.len + n \in Nat /\ r.len + n >= r.len + n
    BY DEF RawType
  <1>2. dmr_raw_add(r, bytes) = PutAt(dmr_raw_grow(r, r.len + n), bytes, n)
    BY DEF dmr_raw_add, dmr_raw_grow_add
  <1>3. /\ \A j \in 1 .. Len(bytes) : j > n => bytes[j] = 0
        /\ \A j \in 1 .. n : bytes[j] = IF j \in 1 .. Len(bytes) THEN bytes[j] ELSE 0
    OBVIOUS
  <1> QED
    BY <1>1, <1>2, <1>3, Stores

\* The digits of bytes stand behind what was there (dmr_raw_add_hex).
LEMMA RawHexed ==
    ASSUME NEW r, RawType(r), ZeroTail(r), NEW bytes \in Seq(Stored), DigitsIn(bytes) \subseteq Stored
    PROVE  Extended(r, dmr_raw_add_hex(r, bytes), 2 * Len(bytes), HexOf(bytes))
  <1> DEFINE h == HexOf(bytes)
             n == 2 * Len(bytes)
  <1>1. h \in Seq(Stored) /\ Len(h) = n /\ n \in Nat
    BY HexDigits
  <1>2. r.len + n \in Nat /\ r.len + n >= r.len + n
    BY <1>1 DEF RawType
  <1>3. dmr_raw_add_hex(r, bytes) = PutAt(dmr_raw_grow(r, r.len + n), h, n)
    BY DEF dmr_raw_add_hex, dmr_raw_grow_add
  <1> HIDE DEF h, n
  <1>4. /\ \A j \in 1 .. Len(h) : j > n => h[j] = 0
        /\ \A j \in 1 .. n : h[j] = IF j \in 1 .. Len(h) THEN h[j] ELSE 0
    BY <1>1
  <1>5. Extended(r, dmr_raw_add_hex(r, bytes), n, h)
    BY <1>1, <1>2, <1>3, <1>4, Stores
  <1> QED
    BY <1>5 DEF h, n

\* The digits of a number are as many as there are characters for them, the last of
\* a wide one a NUL (AX in raw.c).
LEMMA CutShape ==
    ASSUME NEW d \in Seq(Stored)
    PROVE  /\ CutDigits(d) \in Seq(Stored) /\ Len(CutDigits(d)) = Len(d)
           /\ \A i \in 1 .. Len(d) :
                CutDigits(d)[i] = IF i = Len(d) /\ Len(d) > 2 THEN 0 ELSE d[i]
  <1> DEFINE n == Len(d)
             c == CutDigits(d)
  <1>1. n \in Nat /\ DOMAIN d = 1 .. n /\ \A i \in 1 .. n : d[i] \in Stored
    OBVIOUS
  <1>2. c = [i \in 1 .. n |-> IF i = n /\ n > 2 THEN 0 ELSE d[i]]
    BY <1>1 DEF CutDigits
  <1>3. 0 \in Stored
    BY DEF Stored
  <1> HIDE DEF n, c
  <1>4. c \in Seq(Stored) /\ Len(c) = n /\ \A i \in 1 .. n : c[i] = IF i = n /\ n > 2 THEN 0 ELSE d[i]
    BY <1>1, <1>2, <1>3
  <1> QED
    BY <1>4 DEF n, c

\* The digits of a number stand behind what was there (dmr_raw_add_xuint32).
LEMMA RawNumbered ==
    ASSUME NEW r, RawType(r), ZeroTail(r), NEW bytes \in Seq(Stored), Len(bytes) # 0,
           DigitsIn(bytes) \subseteq Stored
    PROVE  /\ CutDigits(HexOf(bytes)) \in Seq(Stored) /\ Len(CutDigits(HexOf(bytes))) = 2 * Len(bytes)
           /\ Extended(r, AddDigits(r, bytes), 2 * Len(bytes), CutDigits(HexOf(bytes)))
  <1> DEFINE h == HexOf(bytes)
             m == Len(bytes)
             n == 2 * m
             text == IF m = 1 THEN h ELSE snprintf(h, n)
             c == CutDigits(h)
  <1>1. h \in Seq(Stored) /\ Len(h) = n /\ m \in Nat \ {0} /\ n \in Nat \ {0}
    BY HexDigits
  <1>2. r.len + n \in Nat /\ r.len + n >= r.len + n
    BY <1>1 DEF RawType
  <1>3. AddDigits(r, bytes) = PutAt(dmr_raw_grow(r, r.len + n), text, n)
    BY DEF AddDigits, dmr_raw_grow_add
  <1>4. /\ c \in Seq(Stored) /\ Len(c) = n
        /\ \A i \in 1 .. n : c[i] = IF i = n /\ n > 2 THEN 0 ELSE h[i]
    <2> HIDE DEF h, n
    <2> QED
      BY <1>1, CutShape
  <1> HIDE DEF h, c, m
  <1>5. text \in Seq(Stored) /\ Len(text) = n /\ \A j \in 1 .. n : text[j] = c[j]
    <2>1. CASE m = 1
      BY <1>1, <1>4, <2>1
    <2>2. CASE m # 1
      <3> DEFINE p == snprintf(h, n)
      <3>1. n > 2
        BY <1>1, <2>2
      <3> HIDE DEF n
      <3>2. /\ p \in Seq(Stored) /\ Len(p) = IF Len(h) < n THEN Len(h) + 1 ELSE n
            /\ \A j \in 1 .. Len(p) : p[j] = IF j = Len(p) THEN 0 ELSE h[j]
        <4>1. h \in Seq(Stored) /\ n \in Nat \ {0}
          BY <1>1
        <4> QED
          BY <4>1, Printed, Zenon
      <3> HIDE DEF p
      <3>3. Len(p) = n
        BY <1>1, <3>2
      <3>4. text = p
        BY <2>2 DEF p
      <3> QED
        BY <1>4, <3>1, <3>2, <3>3, <3>4
    <2> QED
      BY <2>1, <2>2
  <1> HIDE DEF text, n
  <1>6. /\ \A j \in 1 .. Len(text) : j > n => text[j] = 0
        /\ \A j \in 1 .. n : c[j] = IF j \in 1 .. Len(text) THEN text[j] ELSE 0
    BY <1>1, <1>5
  <1>7. Extended(r, AddDigits(r, bytes), n, c)
    BY <1>1, <1>2, <1>3, <1>5, <1>6, Stores
  <1> QED
    BY <1>4, <1>7 DEF c, h, n, m

\* A text that is formatted into a field stands in it, cut at the field's end or
\* with zeros behind it, and the NUL of snprintf lies behind the length
\* (dmr_raw_addf).
LEMMA RawFormatted ==
    ASSUME NEW r, RawType(r), ZeroTail(r), NEW text \in Seq(Stored), NEW n \in Nat,
           NEW content, \A j \in 1 .. n : content[j] = IF j <= Len(text) THEN text[j] ELSE 0
    PROVE  Extended(r, dmr_raw_addf(r, n, text), n, content)
  <1> DEFINE p == snprintf(text, n + 1)
             room == r.len + (n + 1)
  <1>1. room \in Nat /\ room >= r.len + n /\ n + 1 \in Nat \ {0} /\ Len(text) \in Nat
    BY DEF RawType
  <1>2. dmr_raw_addf(r, n, text) = PutAt(dmr_raw_grow(r, room), p, n)
    BY DEF dmr_raw_addf, dmr_raw_grow_add
  <1>3. /\ p \in Seq(Stored) /\ Len(p) = IF Len(text) < n + 1 THEN Len(text) + 1 ELSE n + 1
        /\ \A j \in 1 .. Len(p) : p[j] = IF j = Len(p) THEN 0 ELSE text[j]
    BY <1>1, Printed
  <1> HIDE DEF p, room
  <1>4. \A j \in 1 .. Len(p) : j > n => p[j] = 0
    BY <1>1, <1>3
  <1>5. \A j \in 1 .. n : content[j] = IF j \in 1 .. Len(p) THEN p[j] ELSE 0
    BY <1>1, <1>3
  <1> QED
    BY <1>1, <1>2, <1>3, <1>4, <1>5, Stores

\* The same for a text that fills its field.
LEMMA RawPrinted ==
    ASSUME NEW r, RawType(r), ZeroTail(r), NEW text \in Seq(Stored), NEW n \in Nat, Len(text) >= n
    PROVE  Extended(r, dmr_raw_addf(r, n, text), n, text)
  <1>1. \A j \in 1 .. n : text[j] = IF j <= Len(text) THEN text[j] ELSE 0
    OBVIOUS
  <1> QED
    BY <1>1, RawFormatted

\* Every step of a caller with a buffer keeps what holds of it.
LEMMA RawStep == RawInv /\ (RawNext \/ UNCHANGED rawVars) => RawInv'
  <1> SUFFICES ASSUME RawInv, RawNext \/ UNCHANGED rawVars PROVE RawInv'
    OBVIOUS
  <1>1. raw # NoRaw => raw.len \in Nat /\ RawType(raw) /\ ZeroTail(raw)
    BY DEF RawInv, Holds, RawType
  <1>2. CASE UNCHANGED rawVars
    BY <1>2 DEF rawVars, RawInv, Holds
  <1>3. CASE NewRaw
    <2>1. PICK n \in RawSizes : raw' = dmr_raw_new(n) /\ added' = <<>>
      BY <1>3 DEF NewRaw
    <2>2. RoundUp(n) \in Nat
      BY RoundedUp, RawConstants
    <2> DEFINE z == Zeros(RoundUp(n))
    <2>3. raw' = [buf |-> z, len |-> 0]
      BY <2>1 DEF dmr_raw_new
    <2>4. z \in Seq(Stored) /\ Len(z) \in Nat /\ \A i \in 1 .. Len(z) : z[i] = 0
      BY <2>2, ZeroBytes, Zenon
    <2> HIDE DEF z
    <2> QED
      BY <2>1, <2>3, <2>4, EmptiedRaw
  <1>4. CASE AddBytes
    <2>1. PICK t \in RawTexts : Adds(dmr_raw_add(raw, t), t)
      BY <1>4 DEF AddBytes
    <2>2. t \in Seq(Stored) /\ Len(t) \in Nat
      BY TextEncodings DEF AllTexts
    <2>3. raw # NoRaw /\ raw' = dmr_raw_add(raw, t) /\ added' = added \o t
      BY <2>1 DEF Adds
    <2>4. Extended(raw, raw', Len(t), t)
      BY <1>1, <2>2, <2>3, RawAdded
    <2> QED
      BY <2>2, <2>3, <2>4, Added
  <1>5. CASE AddHex
    <2>1. PICK t \in RawTexts : Adds(dmr_raw_add_hex(raw, t), HexOf(t))
      BY <1>5 DEF AddHex
    <2>2. t \in Seq(Stored) /\ DigitsIn(t) \subseteq Stored
      BY TextEncodings DEF AllTexts
    <2>3. raw # NoRaw /\ raw' = dmr_raw_add_hex(raw, t) /\ added' = added \o HexOf(t)
      BY <2>1 DEF Adds
    <2>4. HexOf(t) \in Seq(Stored) /\ Len(HexOf(t)) = 2 * Len(t)
      BY <2>2, HexDigits
    <2>5. Extended(raw, raw', 2 * Len(t), HexOf(t))
      BY <1>1, <2>2, <2>3, RawHexed
    <2>6. Extended(raw, raw', Len(HexOf(t)), HexOf(t))
      BY <2>4, <2>5, Zenon
    <2> QED
      BY <2>3, <2>4, <2>6, Added
  <1>6. CASE AddFormatted
    <2>1. PICK t \in RawTexts, n \in RawSizes \ {0} :
              Adds(dmr_raw_addf(raw, n, t), SubSeq(t \o Zeros(n), 1, n))
      BY <1>6 DEF AddFormatted
    <2> DEFINE z == t \o Zeros(n)
               content == SubSeq(z, 1, n)
    <2>2. t \in Seq(Stored) /\ Len(t) \in Nat /\ n \in Nat
      BY TextEncodings, RawConstants DEF AllTexts
    <2>3. /\ z \in Seq(Stored) /\ Len(z) = Len(t) + n
          /\ \A i \in 1 .. Len(t) + n : z[i] = IF i <= Len(t) THEN t[i] ELSE 0
      <3>1. Zeros(n) \in Seq(Stored) /\ Len(Zeros(n)) = n /\ \A i \in 1 .. n : Zeros(n)[i] = 0
        BY <2>2, ZeroBytes
      <3>2. /\ z \in Seq(Stored) /\ Len(z) = Len(t) + Len(Zeros(n))
            /\ \A i \in 1 .. Len(t) + Len(Zeros(n)) :
                  z[i] = IF i <= Len(t) THEN t[i] ELSE Zeros(n)[i - Len(t)]
        BY <2>2, <3>1, ConcatProperties
      <3> DEFINE k == Len(t)
                 y == Zeros(n)
      <3>3. k \in Nat /\ Len(y) = n /\ \A i \in 1 .. n : y[i] = 0
        BY <2>2, <3>1
      <3> HIDE DEF k, y
      <3>4. \A i \in 1 .. k + n : ~ i <= k => y[i - k] = 0
        BY <2>2, <3>3
      <3> QED
        BY <3>2, <3>3, <3>4 DEF k, y
    <2> HIDE DEF z
    <2>4. /\ content \in Seq(Stored) /\ Len(content) = n
          /\ \A i \in 1 .. n : content[i] = IF i <= Len(t) THEN t[i] ELSE 0
      <3>1. content \in Seq(Stored) /\ Len(content) = n /\ \A i \in 1 .. n : content[i] = z[i]
        BY <2>2, <2>3, SubSeqProperties
      <3> QED
        BY <2>2, <2>3, <3>1
    <2>5. raw # NoRaw /\ raw' = dmr_raw_addf(raw, n, t) /\ added' = added \o content
      BY <2>1 DEF Adds, z
    <2> HIDE DEF content
    <2>6. Extended(raw, raw', n, content)
      BY <1>1, <2>2, <2>4, <2>5, RawFormatted
    <2>7. Extended(raw, raw', Len(content), content)
      BY <2>4, <2>6, Zenon
    <2> QED
      BY <2>4, <2>5, <2>7, Added
  <1>7. ASSUME NEW w \in RawWords, NEW b, b = Bytes(w) \/ b = Reverse(Bytes(w)) PROVE
          /\ b \in Seq(Stored) /\ Len(b) \in Nat \ {0} /\ DigitsIn(b) \subseteq Stored
          /\ Adds(dmr_raw_add(raw, b), b) => RawInv'
          /\ Adds(AddDigits(raw, b), CutDigits(HexOf(b))) => RawInv'
    <2>1. w \in AllWords
      BY DEF AllWords
    <2>2. b \in Seq(Stored) /\ Len(b) \in Nat \ {0} /\ DigitsIn(b) \subseteq Stored
      <3>1. /\ w.size \in Nat \ {0}
            /\ Bytes(w) \in Seq(Stored) /\ Len(Bytes(w)) = w.size
            /\ Reverse(Bytes(w)) \in Seq(Stored) /\ Len(Reverse(Bytes(w))) = w.size
            /\ DigitsIn(Bytes(w)) \subseteq Stored /\ DigitsIn(Reverse(Bytes(w))) \subseteq Stored
        BY <2>1, WordEncodings
      <3> QED
        BY <1>7, <3>1, Zenon
    <2>3. ASSUME Adds(dmr_raw_add(raw, b), b) PROVE RawInv'
      <3>1. raw # NoRaw /\ raw' = dmr_raw_add(raw, b) /\ added' = added \o b
        BY <2>3 DEF Adds
      <3>2. Extended(raw, raw', Len(b), b)
        BY <1>1, <2>2, <3>1, RawAdded
      <3> QED
        BY <2>2, <3>1, <3>2, Added
    <2>4. ASSUME Adds(AddDigits(raw, b), CutDigits(HexOf(b))) PROVE RawInv'
      <3> DEFINE c == CutDigits(HexOf(b))
      <3>1. raw # NoRaw /\ raw' = AddDigits(raw, b) /\ added' = added \o c
        BY <2>4 DEF Adds
      <3>2. c \in Seq(Stored) /\ Len(c) = 2 * Len(b) /\ Extended(raw, raw', 2 * Len(b), c)
        BY <1>1, <2>2, <3>1, RawNumbered
      <3> HIDE DEF c
      <3>3. Extended(raw, raw', Len(c), c)
        BY <3>2, Zenon
      <3> QED
        BY <3>1, <3>2, <3>3, Added
    <2> QED
      BY <2>2, <2>3, <2>4
  <1>8. CASE AddUint
    <2>1. PICK w \in RawWords : Adds(dmr_raw_add(raw, Bytes(w)), Bytes(w))
      BY <1>8 DEF AddUint, dmr_raw_add_uint
    <2> QED
      BY <1>7, <2>1, Zenon
  <1>9. CASE AddUintLe
    <2>1. PICK w \in RawWords : Adds(dmr_raw_add(raw, Reverse(Bytes(w))), Reverse(Bytes(w)))
      BY <1>9 DEF AddUintLe, dmr_raw_add_uint32_le
    <2> QED
      BY <1>7, <2>1, Zenon
  <1>10. CASE AddXuint
    <2>1. PICK w \in RawWords :
              Adds(AddDigits(raw, Reverse(Bytes(w))), CutDigits(HexOf(Reverse(Bytes(w)))))
      BY <1>10 DEF AddXuint, dmr_raw_add_xuint
    <2> QED
      BY <1>7, <2>1, Zenon
  <1>11. CASE AddXuintLe
    <2>1. PICK w \in RawWords : Adds(AddDigits(raw, Bytes(w)), CutDigits(HexOf(Bytes(w))))
      BY <1>11 DEF AddXuintLe, dmr_raw_add_xuint32_le
    <2> QED
      BY <1>7, <2>1, Zenon
  <1>12. CASE ResetRaw
    <2>1. raw # NoRaw /\ raw' = dmr_raw_reset(raw) /\ added' = <<>>
      BY <1>12 DEF ResetRaw
    <2>2. Allocated(raw) \in Nat
      BY <1>1, <2>1 DEF RawType, Allocated
    <2> DEFINE z == Zeros(Allocated(raw))
    <2>3. raw' = [buf |-> z, len |-> 0]
      BY <2>1 DEF dmr_raw_reset
    <2>4. z \in Seq(Stored) /\ Len(z) \in Nat /\ \A i \in 1 .. Len(z) : z[i] = 0
      BY <2>2, ZeroBytes, Zenon
    <2> HIDE DEF z
    <2> QED
      BY <2>1, <2>3, <2>4, EmptiedRaw
  <1>13. CASE ZeroRaw
    <2>1. /\ raw # NoRaw /\ raw' = dmr_raw_zero(raw) /\ added' = Zeros(raw.len)
          /\ raw.buf \in Seq(Stored) /\ raw.len \in Nat /\ raw.len <= Len(raw.buf)
          /\ raw \in [buf : Seq(Stored), len : Nat]
      BY <1>1, <1>13 DEF ZeroRaw, RawType
    <2> DEFINE t == [i \in DOMAIN raw.buf |-> IF i <= raw.len THEN 0 ELSE raw.buf[i]]
    <2>2. raw' = [buf |-> t, len |-> raw.len]
      BY <2>1 DEF dmr_raw_zero
    <2>3. 0 \in Stored
      BY DEF Stored
    <2>4. t \in Seq(Stored) /\ Len(t) = Len(raw.buf)
          /\ \A i \in 1 .. Len(raw.buf) : t[i] = 0
      BY <1>1, <2>1, <2>3 DEF ZeroTail
    <2> HIDE DEF t
    <2>5. added' \in Seq(Stored) /\ Len(added') = raw.len /\ \A i \in 1 .. raw.len : added'[i] = 0
      BY <2>1, ZeroBytes
    <2> QED
      BY <2>1, <2>2, <2>4, <2>5 DEF RawInv, Holds, RawType, ZeroTail
  <1>14. CASE FreeRaw
    BY <1>14 DEF FreeRaw, RawInv
  <1> QED
    BY <1>2, <1>3, <1>4, <1>5, <1>6, <1>8, <1>9, <1>10, <1>11, <1>12, <1>13, <1>14 DEF RawNext
\* The queue holds each of its buffers once and none that a caller has, and a
\* queue without a limit has refused none.
RawqInv ==
    /\ rawq \in [limit : Nat, items : Seq(Buffers)]
    /\ \A i, j \in 1 .. Len(rawq.items) : rawq.items[i] = rawq.items[j] => i = j
    /\ Queued \cap held = {}
    /\ rawq.limit = 0 => lost = {}

\* A sequence without repetition has as many elements as places.
LEMMA DistinctCount ==
    ASSUME NEW S, NEW s \in Seq(S), \A i, j \in 1 .. Len(s) : s[i] = s[j] => i = j
    PROVE  Cardinality(ToSet(s)) = Len(s)
  <1> DEFINE T == ToSet(s)
             f == [i \in 1 .. Len(s) |-> s[i]]
  <1>1. Len(s) \in Nat /\ DOMAIN s = 1 .. Len(s)
    OBVIOUS
  <1>2. T = {s[i] : i \in 1 .. Len(s)}
    BY <1>1 DEF ToSet
  <1> HIDE DEF T
  <1>3. f \in Bijection(1 .. Len(s), T)
    <2>1. f \in [1 .. Len(s) -> T]
      BY <1>2
    <2>2. \A i, j \in 1 .. Len(s) : f[i] = f[j] => i = j
      OBVIOUS
    <2>3. \A v \in T : \E i \in 1 .. Len(s) : f[i] = v
      BY <1>2
    <2> HIDE DEF f
    <2> QED
      BY <2>1, <2>2, <2>3 DEF Bijection, Injection, Surjection, IsInjective
  <1>4. ExistsBijection(1 .. Len(s), T)
    BY <1>3 DEF ExistsBijection
  <1> QED
    BY <1>1, <1>4, FS_CountingElements DEF T

\* Every step of the queue's callers keeps what holds of it.
LEMMA RawqStep == RawqInv /\ (RawqNext \/ UNCHANGED rawqVars) => RawqInv'
  <1> SUFFICES ASSUME RawqInv, RawqNext \/ UNCHANGED rawqVars PROVE RawqInv'
    OBVIOUS
  <1> DEFINE s == rawq.items
             n == Len(s)
  <1>1. s \in Seq(Buffers) /\ n \in Nat /\ DOMAIN s = 1 .. n /\ Queued = {s[i] : i \in 1 .. n}
    BY DEF RawqInv, Queued, ToSet
  <1>2. ASSUME NEW b \in Buffers, rawq' = [rawq EXCEPT !.items = Append(@, b)], b \notin Queued,
               held' \subseteq held \ {b}, UNCHANGED lost
        PROVE  RawqInv'
    <2> DEFINE t == Append(s, b)
    <2>1. /\ t \in Seq(Buffers) /\ Len(t) = n + 1 /\ t[n + 1] = b
          /\ \A i \in 1 .. n : t[i] = s[i]
      BY <1>1, AppendProperties
    <2>2. rawq' \in [limit : Nat, items : Seq(Buffers)] /\ rawq'.items = t
          /\ rawq'.limit = rawq.limit
      BY <1>2, <2>1 DEF RawqInv
    <2> HIDE DEF s, n, t
    <2>3. \A i \in 1 .. n + 1 : i \in 1 .. n \/ i = n + 1
      BY <1>1
    <2>4. \A i \in 1 .. n : s[i] # b
      BY <1>1, <1>2
    <2>5. \A i, j \in 1 .. n + 1 : t[i] = t[j] => i = j
      BY <2>1, <2>3, <2>4 DEF RawqInv, s, n
    <2>6. Queued' \subseteq Queued \cup {b}
      <3>1. Queued' = {t[i] : i \in 1 .. n + 1}
        BY <2>1, <2>2 DEF Queued, ToSet
      <3> QED
        BY <1>1, <2>1, <2>3, <3>1
    <2> QED
      BY <1>2, <2>1, <2>2, <2>5, <2>6 DEF RawqInv
  <1>3. ASSUME NEW b \in Buffers, rawq' = [rawq EXCEPT !.items = <<b>> \o @], b \notin Queued,
               held' \subseteq held \ {b}, UNCHANGED lost
        PROVE  RawqInv'
    <2> DEFINE t == <<b>> \o s
    <2>1. /\ t \in Seq(Buffers) /\ Len(t) = n + 1 /\ t[1] = b
          /\ \A i \in 1 .. n : t[i + 1] = s[i]
      <3>1. <<b>> \in Seq(Buffers) /\ Len(<<b>>) = 1 /\ <<b>>[1] = b
        OBVIOUS
      <3>2. /\ t \in Seq(Buffers) /\ Len(t) = 1 + n
            /\ \A i \in 1 .. 1 + n : t[i] = IF i <= 1 THEN <<b>>[i] ELSE s[i - 1]
        BY <1>1, <3>1, ConcatProperties
      <3> HIDE DEF s, n, t
      <3>3. \A i \in 1 .. n : i + 1 \in 1 .. 1 + n /\ ~ i + 1 <= 1 /\ (i + 1) - 1 = i
        BY <1>1
      <3>4. 1 \in 1 .. 1 + n /\ 1 + n = n + 1
        BY <1>1
      <3>5. \A i \in 1 .. n : t[i + 1] = s[i]
        BY <3>2, <3>3
      <3> QED
        BY <3>1, <3>2, <3>4, <3>5
    <2>2. rawq' \in [limit : Nat, items : Seq(Buffers)] /\ rawq'.items = t
          /\ rawq'.limit = rawq.limit
      BY <1>3, <2>1 DEF RawqInv
    <2> HIDE DEF s, n, t
    <2>3. \A i \in 1 .. n + 1 : i = 1 \/ \E k \in 1 .. n : i = k + 1
      <3> SUFFICES ASSUME NEW i \in 1 .. n + 1, i # 1 PROVE \E k \in 1 .. n : i = k + 1
        OBVIOUS
      <3>1. i - 1 \in 1 .. n /\ i = (i - 1) + 1
        BY <1>1
      <3> QED
        BY <3>1
    <2>4. \A i \in 1 .. n : t[i + 1] # b
      BY <1>1, <1>3, <2>1
    <2>5. \A i, j \in 1 .. n : t[i + 1] = t[j + 1] => i = j
      BY <2>1 DEF RawqInv, s, n
    <2>6. \A i, j \in 1 .. n + 1 : t[i] = t[j] => i = j
      BY <2>1, <2>3, <2>4, <2>5
    <2>7. Queued' \subseteq Queued \cup {b}
      <3>1. Queued' = {t[i] : i \in 1 .. n + 1}
        BY <2>1, <2>2 DEF Queued, ToSet
      <3>2. \A i \in 1 .. n + 1 : t[i] = b \/ \E k \in 1 .. n : t[i] = s[k]
        BY <2>1, <2>3
      <3> QED
        BY <1>1, <3>1, <3>2
    <2> QED
      BY <1>3, <2>1, <2>2, <2>6, <2>7 DEF RawqInv
  <1>4. CASE dmr_rawq_shift
    <2> DEFINE t == Tail(s)
    <2>1. /\ s # <<>> /\ t \in Seq(Buffers) /\ Len(t) = n - 1 /\ Head(s) = s[1] /\ n >= 1
          /\ \A i \in 1 .. n - 1 : t[i] = s[i + 1]
      BY <1>1, <1>4, HeadTailProperties DEF dmr_rawq_shift
    <2>2. rawq' \in [limit : Nat, items : Seq(Buffers)] /\ rawq'.items = t
          /\ rawq'.limit = rawq.limit /\ held' = held \cup {s[1]} /\ UNCHANGED lost
      BY <1>4, <2>1 DEF RawqInv, dmr_rawq_shift
    <2> HIDE DEF s, n, t
    <2>3. \A i \in 1 .. n - 1 : i + 1 \in 1 .. n /\ i + 1 # 1
      BY <1>1, <2>1
    <2>4. 1 \in 1 .. n
      BY <1>1, <2>1
    <2>5. \A i, j \in 1 .. n : s[i] = s[j] => i = j
      BY DEF RawqInv, s, n
    <2>6. \A i, j \in 1 .. n - 1 : t[i] = t[j] => i = j
      BY <1>1, <2>1, <2>3, <2>5
    <2>7. Queued' = {t[i] : i \in 1 .. n - 1}
      BY <2>1, <2>2 DEF Queued, ToSet
    <2>8. \A i \in 1 .. n - 1 : t[i] # s[1]
      BY <2>1, <2>3, <2>4, <2>5
    <2>9. Queued' \subseteq Queued \ {s[1]}
      BY <1>1, <2>1, <2>3, <2>7, <2>8
    <2> QED
      BY <2>1, <2>2, <2>6, <2>9 DEF RawqInv
  <1>5. ASSUME NEW b \in Buffers, NewBuffer(b) \/ FreeBuffer(b) PROVE RawqInv'
    BY <1>5 DEF NewBuffer, FreeBuffer, RawqInv, Queued
  <1>6. ASSUME NEW b \in Buffers, dmr_rawq_add(b) PROVE RawqInv'
    BY <1>2, <1>6 DEF dmr_rawq_add, RawqInv
  <1>7. ASSUME NEW b \in Buffers, dmr_rawq_unshift(b) PROVE RawqInv'
    BY <1>3, <1>7 DEF dmr_rawq_unshift, RawqInv
  <1>8. ASSUME NEW b \in Buffers, dmr_rawq_addb(b) PROVE RawqInv'
    <2>1. CASE HasRoom
      BY <1>2, <1>8, <2>1 DEF dmr_rawq_addb
    <2>2. CASE ~ HasRoom
      BY <1>8, <2>2 DEF dmr_rawq_addb, HasRoom, RawqInv, Queued
    <2> QED
      BY <2>1, <2>2
  <1>9. CASE UNCHANGED rawqVars
    BY <1>9 DEF rawqVars, RawqInv, Queued
  <1> QED
    BY <1>4, <1>5, <1>6, <1>7, <1>8, <1>9 DEF RawqNext

\* Whatever is added and however often it moves, a buffer holds exactly the bytes that
\* the calls of raw.c write for it, those included that disagree with raw.h, with zeros
\* behind them; and every buffer of a queue has one owner.
THEOREM RawBuffersAreSound == RawSpec => []RawSound
  <1> DEFINE Inv == RawInv /\ RawqInv
  <1>1. RawInit /\ dmr_rawq_new => Inv
    <2> SUFFICES ASSUME RawInit, dmr_rawq_new PROVE Inv
      OBVIOUS
    <2>1. rawq.limit \in Nat /\ rawq \in [limit : Nat, items : {<<>>}] /\ held = {} /\ lost = {}
      BY RawLimitsNat DEF dmr_rawq_new
    <2>2. rawq \in [limit : Nat, items : Seq(Buffers)] /\ rawq.items = <<>>
      <3>1. PICK limit \in RawLimits : rawq = [limit |-> limit, items |-> <<>>]
        BY DEF dmr_rawq_new
      <3>2. limit \in Nat /\ <<>> \in Seq(Buffers)
        BY RawLimitsNat
      <3> QED
        BY <3>1, <3>2
    <2> QED
      BY <2>1, <2>2 DEF RawInit, RawInv, RawqInv
  <1>2. Inv /\ [(RawNext /\ UNCHANGED rawqVars) \/ (RawqNext /\ UNCHANGED rawVars)]_<<rawVars, rawqVars>>
            => Inv'
    BY RawStep, RawqStep
  <1>3. Inv => RawSound
    <2> SUFFICES ASSUME RawInv, RawqInv PROVE RawSound
      OBVIOUS
    <2>1. RawOwnedOnce
      BY DistinctCount DEF RawqInv, RawOwnedOnce, Queued
    <2>2. CASE raw = NoRaw /\ added = <<>>
      <3>1. SubSeq(<<>>, 1, -1) = <<>>
        BY SubSeqEmpty
      <3> QED
        BY <2>1, <2>2, <3>1 DEF NoRaw, RawSound, RawHoldsAdded, RawTailZero, Allocated
    <2>3. CASE raw # NoRaw
      <3> DEFINE s == SubSeq(raw.buf, 1, raw.len)
      <3>1. /\ RawType(raw) /\ ZeroTail(raw) /\ added \in Seq(Stored) /\ Len(added) = raw.len
            /\ raw.buf \in Seq(Stored) /\ raw.len \in Nat /\ raw.len <= Len(raw.buf)
            /\ \A i \in 1 .. raw.len : raw.buf[i] = added[i]
        BY <2>3 DEF RawInv, Holds, RawType
      <3>2. s \in Seq(Stored) /\ Len(s) = raw.len /\ \A i \in 1 .. raw.len : s[i] = raw.buf[i]
        BY <3>1, SubSeqProperties
      <3> HIDE DEF s
      <3>3. s = added
        BY <3>1, <3>2, SeqEqual
      <3>4. RawTailZero
        BY <3>1 DEF RawTailZero, ZeroTail
      <3>5. RawHoldsAdded
        BY <3>1, <3>3 DEF RawHoldsAdded, Allocated, s
      <3> QED
        BY <2>1, <3>4, <3>5 DEF RawSound
    <2>4. raw = NoRaw => added = <<>>
      BY DEF RawInv, Holds, RawType, NoRaw
    <2> QED
      BY <2>2, <2>3, <2>4
  <1> QED
    BY <1>1, <1>2, <1>3, PTL DEF RawSpec
----------------------------------------------------------------------------
\* The lists and queues of queue.h.
QueueSpec == QueueInit /\ [][QueueNext]_queueVars

----------------------------------------------------------------------------
(***************************************************************************)
(* The lists and queues of queue.h: pointers in the order of a sequence.   *)
(***************************************************************************)
\* Where the pointer to the element after the i-th of a queue is kept, and what
\* it should point to.
PlaceOf(h, i) == IF i = 0 THEN h ELSE contents[h][i]
BehindOf(h, i) == IF i < Len(contents[h]) THEN contents[h][i + 1] ELSE NULL

\* The fields are as wide as the places they name, and no element is in a queue
\* twice or in two queues.
QueueShape ==
    /\ kind \in Kinds /\ cookie \in Pointers /\ (kind # "XSIMPLEQ" => cookie = NULL)
    /\ next \in [Places -> Pointers] /\ prev \in [Elements -> Pointers] /\ last \in [Heads -> Pointers]
    /\ contents \in [Heads -> Seq(Elements)]
    /\ \A g, h \in Heads : \A i \in 1 .. Len(contents[g]), j \in 1 .. Len(contents[h]) :
          contents[g][i] = contents[h][j] => g = h /\ i = j

\* Each place points to the element behind it, the last pointer of a queue that
\* has one is at the place of the NULL, and each element of a doubly linked
\* queue knows the place that points to it.  Free elements point anywhere.
QueueInv ==
    /\ QueueShape
    /\ \A h \in Heads : \A i \in 0 .. Len(contents[h]) : next[PlaceOf(h, i)] = XOR(BehindOf(h, i))
    /\ HasLast => \A h \in Heads : last[h] = XOR(PlaceOf(h, Len(contents[h])))
    /\ Doubly => \A h \in Heads : \A i \in 1 .. Len(contents[h]) :
                    prev[PlaceOf(h, i)] = PlaceOf(h, i - 1)
\* A set of natural numbers has a least element: the smallest of the intervals
\* 1 .. n that its elements end.
LEMMA LeastElement ==
    ASSUME NEW S \in SUBSET Nat, S # {}
    PROVE  \E m \in S : \A n \in S : m <= n
  <1> DEFINE T == {1 .. n : n \in S}
             R == StrictSubsetOrdering(Nat)
  <1>1. T \subseteq FiniteSubsetsOf(Nat)
    <2>1. \A n \in S : n \in Int /\ 1 .. n \in SUBSET Nat
      OBVIOUS
    <2>2. \A n \in S : IsFiniteSet(1 .. n)
      BY <2>1, FS_Interval
    <2> QED
      BY <2>1, <2>2 DEF FiniteSubsetsOf
  <1>2. T # {}
    OBVIOUS
  <1>3. IsWellFoundedOn(R, FiniteSubsetsOf(Nat))
    BY FS_StrictSubsetOrderingWellFounded, Zenon
  <1> HIDE DEF R, T
  <1>4. PICK x \in T : \A y \in T : ~ (<<y, x>> \in R)
    BY <1>1, <1>2, <1>3, WFMin, Zenon
  <1>5. PICK m \in S : x = 1 .. m
    BY DEF T
  <1>6. ASSUME NEW n \in S, n < m PROVE FALSE
    <2>1. 1 .. n \in T
      BY DEF T
    <2>2. /\ 1 .. n \in SUBSET Nat /\ 1 .. m \in SUBSET Nat
          /\ 1 .. n \subseteq 1 .. m /\ m \in 1 .. m /\ m \notin 1 .. n
      BY <1>6
    <2>3. <<1 .. n, x>> \in R
      BY <1>5, <2>2 DEF R, StrictSubsetOrdering
    <2> QED
      BY <1>4, <2>1, <2>3
  <1> QED
    BY <1>6


\* The mask of DMR_XSIMPLEQ_XOR is undone by applying it again.
LEMMA MaskUndone ==
    ASSUME cookie \in Pointers, NEW p \in Pointers
    PROVE  XOR(p) \in Pointers /\ XOR(XOR(p)) = p
  BY DEF XOR, SymDiff, Pointers

\* The kinds without a cookie have no mask.
LEMMA NoMask == ASSUME cookie = NULL, NEW p PROVE XOR(p) = p
  BY DEF XOR, SymDiff, NULL

\* A queue holds no element twice, so it is no longer than there are elements.
LEMMA ShortQueue == ASSUME QueueShape, NEW h \in Heads PROVE Len(contents[h]) <= Cardinality(Elements)
  <1> DEFINE c == contents[h]
  <1>1. c \in Seq(Elements) /\ \A i, j \in 1 .. Len(c) : c[i] = c[j] => i = j
    BY DEF QueueShape
  <1> HIDE DEF c
  <1>2. Cardinality(ToSet(c)) = Len(c)
    BY <1>1, DistinctCount
  <1>3. ToSet(c) \subseteq Elements
    <2>1. \A i \in DOMAIN c : c[i] \in Elements
      BY <1>1
    <2> QED
      BY <2>1 DEF ToSet
  <1>4. Cardinality(ToSet(c)) <= Cardinality(Elements)
    BY <1>3, QueueConstants, FS_Subset
  <1> QED
    BY <1>2, <1>4, Zenon DEF c

\* A walk that reaches the elements of a sequence one after the other, and the
\* NULL after its last, is that sequence.
LEMMA WalkIs ==
    ASSUME NEW w \in Seq(Elements), Len(w) <= Cardinality(Elements), NEW b \in BOOLEAN,
           \A i \in 1 .. Len(w) : (IF b THEN PREV(w[i]) ELSE XOR(next[w[i]]))
                                      = IF i < Len(w) THEN w[i + 1] ELSE NULL
    PROVE  Walk(IF Len(w) > 0 THEN w[1] ELSE NULL, b) = w
  <1> DEFINE first == IF Len(w) > 0 THEN w[1] ELSE NULL
             step(e) == IF b THEN PREV(e) ELSE XOR(next[e])
             F(f, n) == IF n = 0 THEN first ELSE IF f[n - 1] = NULL THEN NULL ELSE step(f[n - 1])
             most == Cardinality(Elements) + 1
             at == CHOOSE f : f = [n \in 0 .. most |-> F(f, n)]
             want == [n \in 0 .. most |-> IF n < Len(w) THEN w[n + 1] ELSE NULL]
             ends == {n \in 0 .. most : at[n] = NULL}
  <1>1. /\ Len(w) \in Nat /\ \A i \in 1 .. Len(w) : w[i] # NULL
        /\ most \in Nat /\ Len(w) < most
    <2>1. Cardinality(Elements) \in Nat
      BY QueueConstants, FS_CardinalityType
    <2> QED
      BY <2>1, QueueConstants
  <1>2. Walk(first, b) = [i \in 1 .. Min(ends \cup {most}) |-> at[i - 1]]
    BY DEF Walk
  <1> HIDE DEF most
  <1>3. \A n \in 0 .. most : want[n] = F(want, n)
    <2> SUFFICES ASSUME NEW n \in 0 .. most PROVE want[n] = F(want, n)
      OBVIOUS
    <2>1. CASE n = 0
      BY <1>1, <2>1
    <2>2. CASE n # 0 /\ n - 1 < Len(w)
      <3>1. n - 1 \in 0 .. most /\ n \in 1 .. Len(w) /\ want[n - 1] = w[n]
        BY <1>1, <2>2
      <3>2. step(w[n]) = IF n < Len(w) THEN w[n + 1] ELSE NULL
        BY <3>1
      <3> QED
        BY <1>1, <2>2, <3>1, <3>2
    <2>3. CASE n # 0 /\ ~ (n - 1 < Len(w))
      <3>1. want[n - 1] = NULL /\ want[n] = NULL
        BY <1>1, <2>3
      <3> QED
        BY <2>3, <3>1
    <2> QED
      BY <2>1, <2>2, <2>3
  <1> HIDE DEF F
  <1>4. want = [n \in 0 .. most |-> F(want, n)]
    BY <1>3
  <1>5. at = [n \in 0 .. most |-> F(at, n)]
    BY <1>4
  <1>6. at = want
    <2> HIDE DEF at, want
    <2> DEFINE S == {n \in 0 .. most : at[n] # want[n]}
    <2> SUFFICES ASSUME S # {} PROVE FALSE
      BY <1>4, <1>5
    <2>1. S \in SUBSET Nat
      OBVIOUS
    <2>2. PICK n \in S : \A i \in S : n <= i
      BY <2>1, LeastElement
    <2>3. at[n] = F(at, n) /\ want[n] = F(want, n)
      BY <1>4, <1>5
    <2>4. n # 0 => at[n - 1] = want[n - 1]
      <3>1. n # 0 => n - 1 \in 0 .. most /\ ~ (n <= n - 1)
        BY <1>1
      <3>2. n # 0 => n - 1 \notin S
        BY <2>2, <3>1
      <3> QED
        BY <3>1, <3>2
    <2>5. F(at, n) = F(want, n)
      BY <2>4 DEF F
    <2> QED
      BY <2>3, <2>5
  <1>7. Min(ends \cup {most}) = Len(w)
    <2> HIDE DEF at
    <2>1. ends = Len(w) .. most
      BY <1>1, <1>6
    <2> HIDE DEF ends
    <2> QED
      BY <1>1, <2>1 DEF Min
  <1>8. Walk(first, b) = [i \in 1 .. Len(w) |-> want[i - 1]]
    BY <1>2, <1>6, <1>7
  <1>9. \A i \in 1 .. Len(w) : want[i - 1] = w[i]
    BY <1>1
  <1>10. w = [i \in 1 .. Len(w) |-> w[i]]
    OBVIOUS
  <1> HIDE DEF want, at, ends
  <1> QED
    BY <1>8, <1>9, <1>10

\* What holds of a queue gives the two walks over it: DMR_TAILQ_FOREACH and
\* its like, and DMR_TAILQ_FOREACH_REVERSE by way of DMR_TAILQ_LAST and
\* DMR_TAILQ_PREV, which read the fields of an entry as those of a head.
LEMMA QueueWalks == QueueInv => QueuesAsSequences
  <1> SUFFICES ASSUME QueueInv PROVE QueuesAsSequences
    OBVIOUS
  <1>1. QueueShape /\ cookie \in Pointers
    BY DEF QueueInv, QueueShape
  <1>2. ASSUME NEW h \in Heads
        PROVE  /\ contents[h] \in Seq(Elements) /\ Len(contents[h]) \in Nat
               /\ Len(contents[h]) <= Cardinality(Elements)
               /\ \A i \in 1 .. Len(contents[h]) : contents[h][i] \in Elements
    BY <1>1, ShortQueue DEF QueueShape
  <1>3. /\ \A h \in Heads : h \in Pointers /\ h # NULL
        /\ \A e \in Elements : e \in Pointers /\ e # NULL
        /\ NULL \in Pointers
    BY QueueConstants DEF NULL, Pointers
  <1>4. ASSUME NEW h \in Heads, NEW i \in 0 .. Len(contents[h])
        PROVE  /\ XOR(next[PlaceOf(h, i)]) = BehindOf(h, i)
               /\ PlaceOf(h, i) \in Pointers
    <2>1. BehindOf(h, i) \in Pointers /\ PlaceOf(h, i) \in Pointers
      BY <1>2, <1>3 DEF BehindOf, PlaceOf
    <2>2. next[PlaceOf(h, i)] = XOR(BehindOf(h, i))
      BY DEF QueueInv
    <2> QED
      BY <1>1, <2>1, <2>2, MaskUndone
  <1>5. QueueInOrder
    <2> SUFFICES ASSUME NEW h \in Heads
                 PROVE  /\ FOREACH(h) = contents[h]
                        /\ HasLast => next[XOR(last[h])] = XOR(NULL)
                              /\ XOR(last[h]) = IF contents[h] = <<>> THEN h ELSE Last(contents[h])
      BY DEF QueueInOrder
    <2> DEFINE w == contents[h]
    <2>1. XOR(next[h]) = IF Len(w) > 0 THEN w[1] ELSE NULL
      BY <1>2, <1>4 DEF PlaceOf, BehindOf
    <2>2. \A i \in 1 .. Len(w) : XOR(next[w[i]]) = IF i < Len(w) THEN w[i + 1] ELSE NULL
      BY <1>2, <1>4 DEF PlaceOf, BehindOf
    <2>3. FOREACH(h) = w
      <3>1. w \in Seq(Elements) /\ Len(w) <= Cardinality(Elements)
        BY <1>2
      <3> HIDE DEF w
      <3>2. Walk(IF Len(w) > 0 THEN w[1] ELSE NULL, FALSE) = w
        BY <2>2, <3>1, WalkIs
      <3> QED
        BY <2>1, <3>2 DEF FOREACH
    <2>4. ASSUME HasLast
          PROVE  /\ next[XOR(last[h])] = XOR(NULL)
                 /\ XOR(last[h]) = IF contents[h] = <<>> THEN h ELSE Last(contents[h])
      <3>1. XOR(last[h]) = PlaceOf(h, Len(w))
        <4>1. Len(w) \in 0 .. Len(contents[h]) /\ last[h] = XOR(PlaceOf(h, Len(w)))
          BY <1>2, <2>4 DEF QueueInv
        <4> QED
          BY <1>1, <1>4, <4>1, MaskUndone
      <3>2. next[PlaceOf(h, Len(w))] = XOR(NULL)
        BY <1>2 DEF QueueInv, BehindOf
      <3>3. w = <<>> <=> Len(w) = 0
        BY <1>2, EmptySeq
      <3> QED
        BY <3>1, <3>2, <3>3 DEF PlaceOf, Last
    <2> QED
      BY <2>3, <2>4
  <1>6. QueueReversible
    <2> SUFFICES ASSUME kind = "TAILQ", NEW h \in Heads
                 PROVE  FOREACH_REVERSE(h) = Reverse(contents[h])
      BY DEF QueueReversible
    <2> DEFINE c == contents[h]
               n == Len(c)
               w == Reverse(c)
    <2>1. /\ Doubly /\ HasLast /\ cookie = NULL
          /\ c \in Seq(Elements) /\ n \in Nat /\ n <= Cardinality(Elements) /\ \A i \in 1 .. n : c[i] \in Elements
      BY <1>1, <1>2 DEF QueueShape, Doubly, HasLast
    <2>2. \A p \in Pointers : XOR(p) = p
      BY <2>1, <1>1, NoMask
    <2>3. /\ last[h] = PlaceOf(h, n)
          /\ \A i \in 1 .. n : prev[c[i]] = PlaceOf(h, i - 1)
          /\ \A i \in 0 .. n : next[PlaceOf(h, i)] = BehindOf(h, i)
      <3>1. \A i \in 0 .. n : BehindOf(h, i) \in Pointers /\ PlaceOf(h, i) \in Pointers
        BY <1>3, <2>1 DEF BehindOf, PlaceOf
      <3>2. last[h] = PlaceOf(h, n)
        <4>1. last[h] = XOR(PlaceOf(h, n)) /\ n \in 0 .. n
          BY <2>1 DEF QueueInv
        <4> QED
          BY <2>2, <3>1, <4>1
      <3>3. \A i \in 1 .. n : prev[c[i]] = PlaceOf(h, i - 1)
        <4>1. \A i \in 1 .. n : prev[PlaceOf(h, i)] = PlaceOf(h, i - 1)
          BY <2>1 DEF QueueInv
        <4> QED
          BY <2>1, <4>1 DEF PlaceOf
      <3>4. \A i \in 0 .. n : next[PlaceOf(h, i)] = BehindOf(h, i)
        <4>1. \A i \in 0 .. n : next[PlaceOf(h, i)] = XOR(BehindOf(h, i))
          BY DEF QueueInv
        <4> QED
          BY <2>2, <3>1, <4>1
      <3> QED
        BY <3>2, <3>3, <3>4
    <2>4. \A i \in 1 .. n : c[i] \notin Heads
      BY <2>1, QueueConstants
    <2>5. \A i \in 1 .. n : PREV(c[i]) = IF i > 1 THEN c[i - 1] ELSE NULL
      <3> SUFFICES ASSUME NEW i \in 1 .. n PROVE PREV(c[i]) = IF i > 1 THEN c[i - 1] ELSE NULL
        OBVIOUS
      <3>1. CASE i = 1
        <4>1. prev[c[i]] = h /\ Second(h) = PlaceOf(h, n)
          BY <2>3, <3>1 DEF Second, PlaceOf
        <4>2. next[PlaceOf(h, n)] = NULL
          BY <2>1, <2>3 DEF BehindOf
        <4> QED
          BY <3>1, <4>1, <4>2 DEF PREV
      <3>2. CASE i > 1
        <4>1. i - 1 \in 1 .. n /\ i - 1 - 1 = i - 2 /\ i - 2 \in 0 .. n
          BY <2>1, <3>2
        <4>2. prev[c[i]] = c[i - 1] /\ Second(c[i - 1]) = PlaceOf(h, i - 2)
          BY <2>3, <2>4, <4>1 DEF Second, PlaceOf
        <4>3. next[PlaceOf(h, i - 2)] = c[i - 1]
          BY <2>1, <2>3, <4>1 DEF BehindOf
        <4> QED
          BY <3>2, <4>2, <4>3 DEF PREV
      <3> QED
        BY <2>1, <3>1, <3>2
    <2>6. LAST(h) = IF n > 0 THEN c[n] ELSE NULL
      <3>1. CASE n = 0
        BY <2>3, <3>1 DEF LAST, Second, PlaceOf, BehindOf
      <3>2. CASE n > 0
        <4>1. n \in 1 .. n /\ n - 1 \in 0 .. n /\ n - 1 < n /\ n - 1 + 1 = n
          BY <2>1, <3>2
        <4>2. last[h] = c[n]
          BY <2>3, <3>2 DEF PlaceOf
        <4>4. Second(c[n]) = PlaceOf(h, n - 1)
          BY <2>3, <2>4, <4>1 DEF Second
        <4>3. next[PlaceOf(h, n - 1)] = c[n]
          BY <2>3, <4>1 DEF BehindOf
        <4> QED
          BY <3>2, <4>2, <4>3, <4>4 DEF LAST
      <3> QED
        BY <2>1, <3>1, <3>2
    <2> HIDE DEF c, n
    <2>7. /\ w \in Seq(Elements) /\ Len(w) = n
          /\ \A i \in 1 .. n : w[i] = c[n - i + 1] /\ n - i + 1 \in 1 .. n
      <3>1. \A i \in 1 .. n : n - i + 1 \in 1 .. n
        BY <2>1
      <3>2. w = [i \in 1 .. n |-> c[n - i + 1]]
        BY DEF Reverse, n
      <3>3. \A i \in 1 .. n : c[n - i + 1] \in Elements
        BY <2>1, <3>1
      <3> HIDE DEF w
      <3> QED
        BY <2>1, <3>1, <3>2, <3>3
    <2> HIDE DEF w
    <2>8. \A i \in 1 .. Len(w) : PREV(w[i]) = IF i < Len(w) THEN w[i + 1] ELSE NULL
      <3> SUFFICES ASSUME NEW i \in 1 .. n PROVE PREV(w[i]) = IF i < n THEN w[i + 1] ELSE NULL
        BY <2>7
      <3> DEFINE j == n - i + 1
      <3>1. /\ j \in 1 .. n /\ w[i] = c[j] /\ (j > 1 <=> i < n)
            /\ i < n => w[i + 1] = c[j - 1]
        BY <2>1, <2>7
      <3> HIDE DEF j
      <3> QED
        BY <2>5, <3>1
    <2>9. LAST(h) = IF Len(w) > 0 THEN w[1] ELSE NULL
      <3>1. CASE n = 0
        BY <2>6, <2>7, <3>1
      <3>2. CASE n > 0
        <4>1. 1 \in 1 .. n /\ n - 1 + 1 = n
          BY <2>1, <3>2
        <4>2. w[1] = c[n]
          BY <2>7, <4>1
        <4> QED
          BY <2>6, <2>7, <3>2, <4>2
      <3> QED
        BY <2>1, <3>1, <3>2
    <2>10. Walk(IF Len(w) > 0 THEN w[1] ELSE NULL, TRUE) = w
      <3>1. w \in Seq(Elements) /\ Len(w) <= Cardinality(Elements)
        BY <2>1, <2>7
      <3> QED
        BY <2>8, <3>1, WalkIs
    <2> QED
      BY <2>9, <2>10 DEF FOREACH_REVERSE, w, c
  <1> QED
    BY <1>5, <1>6 DEF QueuesAsSequences

\* t is the sequence s with e put in behind the k-th, and s without its k-th.
IsInsert(t, s, k, e) ==
    /\ Len(t) = Len(s) + 1
    /\ \A i \in 1 .. k : t[i] = s[i]
    /\ t[k + 1] = e
    /\ \A i \in k + 1 .. Len(s) : t[i + 1] = s[i]
IsRemove(t, s, k) ==
    /\ Len(t) = Len(s) - 1
    /\ \A i \in 1 .. k - 1 : t[i] = s[i]
    /\ \A i \in k .. Len(s) - 1 : t[i] = s[i + 1]

\* No two places of the queues are the same, and no free element is one of them.
LEMMA PlacesDiffer ==
    ASSUME QueueShape, NEW g \in Heads, NEW i \in 0 .. Len(contents[g])
    PROVE  /\ PlaceOf(g, i) \in Places /\ (i > 0 => PlaceOf(g, i) \in Elements)
           /\ \A h \in Heads : \A j \in 0 .. Len(contents[h]) :
                PlaceOf(g, i) = PlaceOf(h, j) => g = h /\ i = j
           /\ \A e \in Elements : Free(e) => PlaceOf(g, i) # e
  <1>1. \A h \in Heads : Len(contents[h]) \in Nat /\ contents[h] \in Seq(Elements)
    BY DEF QueueShape
  <1>2. i = 0 => PlaceOf(g, i) = g
    BY DEF PlaceOf
  <1>3. i > 0 => PlaceOf(g, i) = contents[g][i] /\ i \in 1 .. Len(contents[g])
                 /\ PlaceOf(g, i) \in Elements
    BY <1>1 DEF PlaceOf
  <1>4. PlaceOf(g, i) \in Places /\ (i > 0 => PlaceOf(g, i) \in Elements)
    BY <1>1, <1>2, <1>3 DEF Places
  <1>5. ASSUME NEW h \in Heads, NEW j \in 0 .. Len(contents[h]), PlaceOf(g, i) = PlaceOf(h, j)
        PROVE  g = h /\ i = j
    <2>1. j = 0 => PlaceOf(h, j) = h
      BY DEF PlaceOf
    <2>2. j > 0 => PlaceOf(h, j) = contents[h][j] /\ j \in 1 .. Len(contents[h])
                   /\ PlaceOf(h, j) \in Elements
      BY <1>1 DEF PlaceOf
    <2>3. CASE i = 0 \/ j = 0
      BY <1>1, <1>2, <1>3, <1>5, <2>1, <2>2, <2>3, QueueConstants
    <2>4. CASE i > 0 /\ j > 0
      BY <1>3, <1>5, <2>2, <2>4 DEF QueueShape
    <2> QED
      BY <1>1, <2>3, <2>4
  <1>6. ASSUME NEW e \in Elements, Free(e) PROVE PlaceOf(g, i) # e
    <2>1. \A j \in 1 .. Len(contents[g]) : contents[g][j] # e
      BY <1>6 DEF Free, Contains
    <2> QED
      BY <1>1, <1>2, <1>3, <2>1, QueueConstants
  <1> QED
    BY <1>4, <1>5, <1>6

\* A free element that is linked in behind the k-th place of a queue, at the end
\* or not, by any of the INSERT macros.
LEMMA Inserted ==
    ASSUME QueueInv, NEW h \in Heads, NEW k \in 0 .. Len(contents[h]),
           NEW e \in Elements, Free(e), NEW t \in Seq(Elements),
           contents' = [contents EXCEPT ![h] = t], IsInsert(t, contents[h], k, e),
           next' = [next EXCEPT ![e] = XOR(BehindOf(h, k)), ![PlaceOf(h, k)] = XOR(e)],
           last' \in [Heads -> Pointers], prev' \in [Elements -> Pointers],
           HasLast => last' = IF k = Len(contents[h]) THEN [last EXCEPT ![h] = XOR(e)] ELSE last,
           Doubly => prev' = [x \in Elements |-> IF x = e THEN PlaceOf(h, k)
                                                 ELSE IF x = BehindOf(h, k) THEN e ELSE prev[x]],
           UNCHANGED <<kind, cookie>>
    PROVE  QueueInv'
  <1> DEFINE c == contents[h]
             n == Len(c)
  <1>1. QueueShape /\ cookie \in Pointers
    BY DEF QueueInv, QueueShape
  <1>2. /\ c \in Seq(Elements) /\ n \in Nat /\ contents \in [Heads -> Seq(Elements)]
        /\ contents'[h] = t /\ \A g \in Heads : g # h => contents'[g] = contents[g]
        /\ contents' \in [Heads -> Seq(Elements)]
        /\ Len(t) = n + 1 /\ t[k + 1] = e /\ \A i \in 1 .. k : t[i] = c[i]
        /\ \A i \in k + 1 .. n : t[i + 1] = c[i]
    BY <1>1 DEF QueueShape, IsInsert
  <1>3. \A p : XOR(p)' = XOR(p)
    BY DEF XOR
  <1>4. /\ \A g \in Heads : g \in Pointers /\ g # NULL /\ g \in Places
        /\ \A x \in Elements : x \in Pointers /\ x # NULL /\ x \in Places /\ x \notin Heads
        /\ NULL \in Pointers
    BY QueueConstants DEF NULL, Pointers, Places
  <1>5. \A i \in 0 .. n + 1 : /\ i <= k => PlaceOf(h, i)' = PlaceOf(h, i)
                              /\ i = k + 1 => PlaceOf(h, i)' = e
                              /\ i > k + 1 => PlaceOf(h, i)' = PlaceOf(h, i - 1)
    <2> SUFFICES ASSUME NEW i \in 0 .. n + 1
                 PROVE  /\ i <= k => PlaceOf(h, i)' = PlaceOf(h, i)
                        /\ i = k + 1 => PlaceOf(h, i)' = e
                        /\ i > k + 1 => PlaceOf(h, i)' = PlaceOf(h, i - 1)
      OBVIOUS
    <2>1. i > k + 1 => i - 1 \in k + 1 .. n /\ t[i - 1 + 1] = c[i - 1] /\ i - 1 + 1 = i
      BY <1>2
    <2>2. i <= k /\ i # 0 => t[i] = c[i]
      BY <1>2
    <2> QED
      BY <1>2, <2>1, <2>2 DEF PlaceOf
  <1>6. \A i \in 0 .. n + 1 : /\ i < k => BehindOf(h, i)' = BehindOf(h, i)
                              /\ i = k => BehindOf(h, i)' = e
                              /\ i > k => BehindOf(h, i)' = BehindOf(h, i - 1)
    <2> SUFFICES ASSUME NEW i \in 0 .. n + 1
                 PROVE  /\ i < k => BehindOf(h, i)' = BehindOf(h, i)
                        /\ i = k => BehindOf(h, i)' = e
                        /\ i > k => BehindOf(h, i)' = BehindOf(h, i - 1)
      OBVIOUS
    <2>1. i > k /\ i < n + 1 => i \in k + 1 .. n /\ t[i + 1] = c[i] /\ i - 1 + 1 = i
      BY <1>2
    <2>2. i < k => t[i + 1] = c[i + 1]
      BY <1>2
    <2> QED
      BY <1>2, <2>1, <2>2 DEF BehindOf
  <1>7. \A g \in Heads : g # h => /\ \A i \in 0 .. Len(contents[g]) :
                                        PlaceOf(g, i)' = PlaceOf(g, i) /\ BehindOf(g, i)' = BehindOf(g, i)
                                  /\ Len(contents'[g]) = Len(contents[g])
    BY <1>2 DEF PlaceOf, BehindOf
  <1>8. /\ \A g \in Heads : Len(contents[g]) \in Nat
        /\ \A g \in Heads : \A i \in 0 .. Len(contents[g]) :
              /\ PlaceOf(g, i) \in Places /\ PlaceOf(g, i) # e
              /\ PlaceOf(g, i) = PlaceOf(h, k) => g = h /\ i = k
              /\ BehindOf(g, i) \in Pointers /\ PlaceOf(g, i) \in Pointers
              /\ next[PlaceOf(g, i)] = XOR(BehindOf(g, i))
              /\ i < Len(contents[g]) => BehindOf(g, i) = PlaceOf(g, i + 1) /\ BehindOf(g, i) \in Elements
    <2>1. ASSUME NEW g \in Heads, NEW i \in 0 .. Len(contents[g])
          PROVE  /\ PlaceOf(g, i) \in Places /\ PlaceOf(g, i) # e
                 /\ PlaceOf(g, i) = PlaceOf(h, k) => g = h /\ i = k
                 /\ next[PlaceOf(g, i)] = XOR(BehindOf(g, i))
      <3>1. next[PlaceOf(g, i)] = XOR(BehindOf(g, i))
        BY DEF QueueInv
      <3> QED
        BY <1>1, <3>1, PlacesDiffer
    <2>2. ASSUME NEW g \in Heads, NEW i \in 0 .. Len(contents[g])
          PROVE  /\ i < Len(contents[g]) => BehindOf(g, i) = PlaceOf(g, i + 1) /\ BehindOf(g, i) \in Elements
                 /\ BehindOf(g, i) \in Pointers
      BY <1>1, <1>4 DEF QueueShape, PlaceOf, BehindOf
    <2>3. \A g \in Heads : Len(contents[g]) \in Nat
      BY <1>2
    <2>4. \A p \in Places : p \in Pointers
      BY QueueConstants DEF Places
    <2> QED
      BY <2>1, <2>2, <2>3, <2>4
  <1> DEFINE Old(g, i) == IF g = h /\ i > k + 1 THEN i - 1 ELSE i
  <1> HIDE DEF c
  <1>9. ASSUME NEW g \in Heads, NEW i \in 0 .. Len(contents'[g])
        PROVE  /\ g = h /\ i = k + 1 => PlaceOf(g, i)' = e /\ BehindOf(g, i)' = BehindOf(h, k)
               /\ ~ (g = h /\ i = k + 1) =>
                     /\ Old(g, i) \in 0 .. Len(contents[g])
                     /\ PlaceOf(g, i)' = PlaceOf(g, Old(g, i))
                     /\ ~ (g = h /\ i = k) => BehindOf(g, i)' = BehindOf(g, Old(g, i))
               /\ g = h /\ i = k => BehindOf(g, i)' = e
               /\ i \in Nat
    <2>1. CASE g = h
      BY <1>2, <1>5, <1>6, <2>1 DEF c
    <2>2. CASE g # h
      BY <1>2, <1>7, <2>2
    <2> QED
      BY <2>1, <2>2
  <1>10. QueueShape'
    <2>1. next' \in [Places -> Pointers]
      <3>1. next \in [Places -> Pointers] /\ e \in Places /\ PlaceOf(h, k) \in Places
        BY <1>1, <1>4, <1>8 DEF QueueShape
      <3>2. XOR(BehindOf(h, k)) \in Pointers /\ XOR(e) \in Pointers
        BY <1>1, <1>4, <1>8, MaskUndone
      <3> QED
        BY <3>1, <3>2
    <2>2. ASSUME NEW g \in Heads, NEW f \in Heads, NEW i \in 1 .. Len(contents'[g]),
                 NEW j \in 1 .. Len(contents'[f]), contents'[g][i] = contents'[f][j]
          PROVE  g = f /\ i = j
      <3>1. PlaceOf(g, i)' = PlaceOf(f, j)' /\ i \in 0 .. Len(contents'[g]) /\ j \in 0 .. Len(contents'[f])
        BY <1>2, <2>2 DEF PlaceOf
      <3>2. \/ g = h /\ i = k + 1 /\ f = h /\ j = k + 1
            \/ ~ (g = h /\ i = k + 1) /\ ~ (f = h /\ j = k + 1)
        <4>1. PlaceOf(g, i)' = e <=> g = h /\ i = k + 1
          <5> HIDE DEF Old
          <5> QED
            BY <1>8, <1>9, <3>1
        <4>2. PlaceOf(f, j)' = e <=> f = h /\ j = k + 1
          <5> HIDE DEF Old
          <5> QED
            BY <1>8, <1>9, <3>1
        <4> QED
          BY <3>1, <4>1, <4>2
      <3>3. CASE ~ (g = h /\ i = k + 1) /\ ~ (f = h /\ j = k + 1)
        <4>1. g = f /\ Old(g, i) = Old(f, j)
          <5>1. PlaceOf(g, Old(g, i)) = PlaceOf(f, Old(f, j))
            BY <1>9, <3>1, <3>3
          <5>2. Old(g, i) \in 0 .. Len(contents[g]) /\ Old(f, j) \in 0 .. Len(contents[f])
            BY <1>9, <3>1, <3>3
          <5> HIDE DEF Old
          <5> QED
            BY <1>1, <5>1, <5>2, PlacesDiffer
        <4> QED
          BY <3>3, <4>1
      <3> QED
        BY <3>2, <3>3
    <2> QED
      BY <1>1, <1>2, <2>1, <2>2 DEF QueueShape
  <1>11. ASSUME NEW g \in Heads, NEW i \in 0 .. Len(contents'[g])
         PROVE  next'[PlaceOf(g, i)'] = XOR(BehindOf(g, i)')
    <2>1. next \in [Places -> Pointers] /\ e \in Places /\ PlaceOf(h, k) \in Places /\ PlaceOf(h, k) # e
      BY <1>1, <1>4, <1>8 DEF QueueShape
    <2>2. CASE g = h /\ i = k + 1
      <3>1. next'[e] = XOR(BehindOf(h, k))
        BY <2>1
      <3> QED
        BY <1>9, <2>2, <3>1
    <2>3. CASE g = h /\ i = k
      <3>1. next'[PlaceOf(h, k)] = XOR(e)
        BY <2>1
      <3>2. PlaceOf(h, k)' = PlaceOf(h, k)
        <4>1. k \in 0 .. n + 1
          BY <1>2 DEF c
        <4> QED
          BY <1>5, <4>1
      <3> QED
        BY <1>9, <2>3, <3>1, <3>2
    <2>4. CASE ~ (g = h /\ i = k) /\ ~ (g = h /\ i = k + 1)
      <3> DEFINE j == Old(g, i)
      <3>1. /\ j \in 0 .. Len(contents[g]) /\ PlaceOf(g, i)' = PlaceOf(g, j)
            /\ BehindOf(g, i)' = BehindOf(g, j)
        BY <1>9, <2>4
      <3>2. ~ (g = h /\ j = k)
        BY <2>4
      <3> HIDE DEF j
      <3>3. next[PlaceOf(g, j)] = XOR(BehindOf(g, j)) /\ PlaceOf(g, j) \in Places
            /\ PlaceOf(g, j) # e /\ PlaceOf(g, j) # PlaceOf(h, k)
        BY <1>8, <3>1, <3>2
      <3> QED
        BY <2>1, <3>1, <3>3
    <2> QED
      BY <2>2, <2>3, <2>4
  <1>12. HasLast' => \A g \in Heads : last'[g] = XOR(PlaceOf(g, Len(contents[g]))')
    <2> SUFFICES ASSUME HasLast', NEW g \in Heads PROVE last'[g] = XOR(PlaceOf(g, Len(contents[g]))')
      OBVIOUS
    <2>1. HasLast /\ last \in [Heads -> Pointers] /\ last[g] = XOR(PlaceOf(g, Len(contents[g])))
      BY DEF HasLast, QueueInv, QueueShape
    <2>2. CASE g = h
      <3>1. Len(contents'[g]) = n + 1 /\ contents'[g] = t
        BY <1>2, <2>2 DEF c
      <3>2. PlaceOf(g, Len(contents[g]))' = t[n + 1]
        BY <1>2, <3>1 DEF PlaceOf
      <3>3. k # n => t[n + 1] = PlaceOf(h, n)
        <4>1. n \in Nat /\ n = Len(contents[h]) /\ k \in 0 .. n
          BY <1>2 DEF c
        <4> HIDE DEF n
        <4>2. k # n => n \in k + 1 .. n /\ n # 0
          BY <4>1
        <4>3. k # n => t[n + 1] = c[n]
          BY <1>2, <4>2
        <4> QED
          BY <4>2, <4>3 DEF PlaceOf, c
      <3> QED
        BY <1>2, <2>1, <2>2, <3>2, <3>3 DEF c
    <2>3. CASE g # h
      <3>1. contents'[g] = contents[g] /\ last'[g] = last[g]
        BY <1>2, <2>1, <2>3
      <3>2. PlaceOf(g, Len(contents[g]))' = PlaceOf(g, Len(contents[g]))
        BY <3>1 DEF PlaceOf
      <3> QED
        BY <2>1, <3>1, <3>2
    <2> QED
      BY <2>2, <2>3
  <1>13. Doubly' => \A g \in Heads : \A i \in 1 .. Len(contents'[g]) :
                       prev'[PlaceOf(g, i)'] = PlaceOf(g, i - 1)'
    <2> SUFFICES ASSUME Doubly', NEW g \in Heads, NEW i \in 1 .. Len(contents'[g])
                 PROVE  prev'[PlaceOf(g, i)'] = PlaceOf(g, i - 1)'
      OBVIOUS
    <2>1. /\ Doubly
          /\ \A f \in Heads : \A j \in 1 .. Len(contents[f]) : prev[PlaceOf(f, j)] = PlaceOf(f, j - 1)
      BY DEF Doubly, QueueInv
    <2>2. \A x \in Elements : prev'[x] = IF x = e THEN PlaceOf(h, k)
                                         ELSE IF x = BehindOf(h, k) THEN e ELSE prev[x]
      BY <2>1
    <2>3. i \in 0 .. Len(contents'[g]) /\ i - 1 \in 0 .. Len(contents'[g]) /\ i \in Nat /\ i # 0
      BY <1>2
    <2>4. CASE g = h /\ i = k + 1
      <3>1. PlaceOf(g, i)' = e /\ PlaceOf(g, i - 1)' = PlaceOf(h, k)
        BY <1>9, <2>3, <2>4
      <3> QED
        BY <2>2, <3>1
    <2>5. CASE g = h /\ i = k + 2
      <3>1. /\ PlaceOf(g, i)' = PlaceOf(h, k + 1) /\ PlaceOf(g, i - 1)' = e
            /\ k < n
        BY <1>2, <1>9, <2>3, <2>5 DEF c
      <3>2. PlaceOf(h, k + 1) = BehindOf(h, k) /\ BehindOf(h, k) \in Elements /\ BehindOf(h, k) # e
        BY <1>2, <1>8, <3>1 DEF c
      <3> QED
        BY <2>2, <3>1, <3>2
    <2>6. CASE ~ (g = h /\ i = k + 1) /\ ~ (g = h /\ i = k + 2)
      <3> DEFINE j == Old(g, i)
      <3>1. /\ j \in 1 .. Len(contents[g]) /\ PlaceOf(g, i)' = PlaceOf(g, j)
            /\ PlaceOf(g, i - 1)' = PlaceOf(g, j - 1)
        <4>1. PlaceOf(g, i)' = PlaceOf(g, j) /\ j \in 0 .. Len(contents[g])
          BY <1>9, <2>3, <2>6
        <4>2. PlaceOf(g, i - 1)' = PlaceOf(g, Old(g, i - 1))
          BY <1>9, <2>3, <2>6
        <4>3. j # 0 /\ Old(g, i - 1) = j - 1
          BY <2>3, <2>6
        <4> QED
          BY <1>8, <4>1, <4>2, <4>3
      <3>2. ~ (g = h /\ j = k + 1)
        BY <2>6
      <3> HIDE DEF j
      <3>3. PlaceOf(g, j) # e /\ PlaceOf(g, j) \in Elements
        BY <1>1, <1>8, <3>1, PlacesDiffer
      <3>4. PlaceOf(g, j) # BehindOf(h, k)
        <4>1. CASE k < n
          <5>1. BehindOf(h, k) = PlaceOf(h, k + 1) /\ k + 1 \in 0 .. Len(contents[h])
            BY <1>2, <1>8, <4>1 DEF c
          <5> QED
            BY <1>1, <3>1, <3>2, <5>1, PlacesDiffer
        <4>2. CASE ~ (k < n)
          BY <1>4, <3>3, <4>2 DEF BehindOf, c
        <4> QED
          BY <4>1, <4>2
      <3> QED
        BY <2>1, <2>2, <3>1, <3>3, <3>4
    <2> QED
      BY <2>4, <2>5, <2>6
  <1> QED
    <2>1. \A g \in Heads : \A i \in 0 .. Len(contents[g])' : (next[PlaceOf(g, i)] = XOR(BehindOf(g, i)))'
      BY <1>3, <1>11
    <2>2. (HasLast => \A g \in Heads : last[g] = XOR(PlaceOf(g, Len(contents[g]))))'
      BY <1>3, <1>12
    <2>3. (Doubly => \A g \in Heads : \A i \in 1 .. Len(contents[g]) :
                        prev[PlaceOf(g, i)] = PlaceOf(g, i - 1))'
      BY <1>13
    <2> QED
      BY <1>10, <2>1, <2>2, <2>3 DEF QueueInv

\* The k-th element of a queue that is unlinked, at the end or not, by any of
\* the REMOVE macros.
LEMMA Removed ==
    ASSUME QueueInv, NEW h \in Heads, NEW k \in 1 .. Len(contents[h]), NEW t \in Seq(Elements),
           contents' = [contents EXCEPT ![h] = t], IsRemove(t, contents[h], k),
           next' = [next EXCEPT ![PlaceOf(h, k - 1)] = XOR(BehindOf(h, k))],
           HasLast => last' = IF k = Len(contents[h]) THEN [last EXCEPT ![h] = XOR(PlaceOf(h, k - 1))]
                              ELSE last,
           Doubly => prev' = IF k = Len(contents[h]) THEN prev
                             ELSE [prev EXCEPT ![BehindOf(h, k)] = PlaceOf(h, k - 1)],
           last' \in [Heads -> Pointers], prev' \in [Elements -> Pointers],
           UNCHANGED <<kind, cookie>>
    PROVE  QueueInv'
  <1> DEFINE c == contents[h]
             n == Len(c)
             Old(g, i) == IF g = h /\ i >= k THEN i + 1 ELSE i
  <1>1. QueueShape /\ cookie \in Pointers
    BY DEF QueueInv, QueueShape
  <1>2. /\ c \in Seq(Elements) /\ n \in Nat /\ k \in 1 .. n /\ contents \in [Heads -> Seq(Elements)]
        /\ contents'[h] = t /\ \A g \in Heads : g # h => contents'[g] = contents[g]
        /\ contents' \in [Heads -> Seq(Elements)]
        /\ Len(t) = n - 1 /\ \A i \in 1 .. k - 1 : t[i] = c[i]
        /\ \A i \in k .. n - 1 : t[i] = c[i + 1]
    BY <1>1 DEF QueueShape, IsRemove
  <1>3. \A p : XOR(p)' = XOR(p)
    BY DEF XOR
  <1>4. /\ \A g \in Heads : Len(contents[g]) \in Nat
        /\ \A g \in Heads : \A i \in 0 .. Len(contents[g]) :
              /\ PlaceOf(g, i) \in Places /\ PlaceOf(g, i) \in Pointers
              /\ next[PlaceOf(g, i)] = XOR(BehindOf(g, i)) /\ BehindOf(g, i) \in Pointers
              /\ i < Len(contents[g]) => BehindOf(g, i) = PlaceOf(g, i + 1) /\ BehindOf(g, i) \in Elements
    <2>1. ASSUME NEW g \in Heads, NEW i \in 0 .. Len(contents[g])
          PROVE  PlaceOf(g, i) \in Places /\ next[PlaceOf(g, i)] = XOR(BehindOf(g, i))
      <3>1. next[PlaceOf(g, i)] = XOR(BehindOf(g, i))
        BY DEF QueueInv
      <3> QED
        BY <1>1, <3>1, PlacesDiffer
    <2>2. ASSUME NEW g \in Heads, NEW i \in 0 .. Len(contents[g])
          PROVE  /\ i < Len(contents[g]) => BehindOf(g, i) = PlaceOf(g, i + 1) /\ BehindOf(g, i) \in Elements
                 /\ BehindOf(g, i) \in Pointers
      <3>1. /\ contents[g] \in Seq(Elements) /\ Len(contents[g]) \in Nat
            /\ \A x \in Elements : x \in Pointers
            /\ NULL \in Pointers
        BY <1>2, QueueConstants DEF NULL, Pointers
      <3> QED
        BY <3>1 DEF PlaceOf, BehindOf
    <2>3. \A g \in Heads : Len(contents[g]) \in Nat
      BY <1>2
    <2>4. \A p \in Places : p \in Pointers
      BY QueueConstants DEF Places
    <2> QED
      BY <2>1, <2>2, <2>3, <2>4
  <1>5. \A g, f \in Heads : \A i \in 0 .. Len(contents[g]), j \in 0 .. Len(contents[f]) :
           PlaceOf(g, i) = PlaceOf(f, j) => g = f /\ i = j
    BY <1>1, PlacesDiffer
  <1> HIDE DEF c
  <1>6. ASSUME NEW g \in Heads, NEW i \in 0 .. Len(contents'[g])
        PROVE  /\ Old(g, i) \in 0 .. Len(contents[g]) /\ i \in Nat
               /\ PlaceOf(g, i)' = PlaceOf(g, Old(g, i))
               /\ ~ (g = h /\ i = k - 1) => BehindOf(g, i)' = BehindOf(g, Old(g, i))
               /\ g = h /\ i = k - 1 => BehindOf(g, i)' = BehindOf(h, k) /\ PlaceOf(g, i)' = PlaceOf(h, k - 1)
    <2>1. CASE g = h
      <3>1. i \in 0 .. n - 1 /\ n = Len(contents[h]) /\ c = contents[h]
        BY <1>2, <2>1 DEF c
      <3>2. /\ i >= k => t[i] = c[i + 1]
            /\ i < k /\ i > 0 => t[i] = c[i]
            /\ i < n - 1 /\ i >= k - 1 => t[i + 1] = c[i + 2]
            /\ i < n - 1 /\ i < k - 1 => t[i + 1] = c[i + 1]
        BY <1>2, <3>1
      <3>3. PlaceOf(g, i)' = PlaceOf(g, Old(g, i)) /\ (i = k - 1 => PlaceOf(g, i)' = PlaceOf(h, k - 1))
        BY <1>2, <2>1, <3>1, <3>2 DEF PlaceOf
      <3>4. /\ i < k - 1 => BehindOf(g, i)' = BehindOf(h, i)
            /\ i >= k - 1 => BehindOf(g, i)' = BehindOf(h, i + 1)
        BY <1>2, <2>1, <3>1, <3>2 DEF BehindOf
      <3> QED
        BY <1>2, <2>1, <3>1, <3>3, <3>4
    <2>2. CASE g # h
      BY <1>2, <2>2 DEF PlaceOf, BehindOf
    <2> QED
      BY <2>1, <2>2
  <1>7. QueueShape'
    <2>1. next' \in [Places -> Pointers]
      <3>1. next \in [Places -> Pointers] /\ XOR(BehindOf(h, k)) \in Pointers
        BY <1>1, <1>2, <1>4, MaskUndone DEF QueueShape, c
      <3> QED
        BY <3>1
    <2>2. ASSUME NEW g \in Heads, NEW f \in Heads, NEW i \in 1 .. Len(contents'[g]),
                 NEW j \in 1 .. Len(contents'[f]), contents'[g][i] = contents'[f][j]
          PROVE  g = f /\ i = j
      <3>1. PlaceOf(g, i)' = PlaceOf(f, j)' /\ i \in 0 .. Len(contents'[g]) /\ j \in 0 .. Len(contents'[f])
        BY <1>2, <2>2 DEF PlaceOf
      <3>2. g = f /\ Old(g, i) = Old(f, j)
        <4>1. PlaceOf(g, Old(g, i)) = PlaceOf(f, Old(f, j))
          BY <1>6, <3>1
        <4>2. Old(g, i) \in 0 .. Len(contents[g]) /\ Old(f, j) \in 0 .. Len(contents[f])
          BY <1>6, <3>1
        <4> HIDE DEF Old
        <4> QED
          BY <1>5, <4>1, <4>2
      <3> QED
        BY <1>2, <3>2
    <2> QED
      BY <1>1, <1>2, <2>1, <2>2 DEF QueueShape
  <1>8. ASSUME NEW g \in Heads, NEW i \in 0 .. Len(contents'[g])
        PROVE  next'[PlaceOf(g, i)'] = XOR(BehindOf(g, i)')
    <2>1. next \in [Places -> Pointers] /\ PlaceOf(h, k - 1) \in Places /\ k - 1 \in 0 .. Len(contents[h])
      BY <1>1, <1>2, <1>4 DEF QueueShape, c
    <2>2. CASE g = h /\ i = k - 1
      <3>1. BehindOf(g, i)' = BehindOf(h, k) /\ PlaceOf(g, i)' = PlaceOf(h, k - 1)
        BY <1>6, <2>2
      <3> QED
        BY <2>1, <3>1
    <2>3. CASE ~ (g = h /\ i = k - 1)
      <3> DEFINE j == Old(g, i)
      <3>1. /\ j \in 0 .. Len(contents[g]) /\ PlaceOf(g, i)' = PlaceOf(g, j)
            /\ BehindOf(g, i)' = BehindOf(g, j)
        BY <1>6, <2>3
      <3>2. ~ (g = h /\ j = k - 1)
        BY <1>2, <2>3
      <3> HIDE DEF j
      <3>3. next[PlaceOf(g, j)] = XOR(BehindOf(g, j)) /\ PlaceOf(g, j) \in Places
            /\ PlaceOf(g, j) # PlaceOf(h, k - 1)
        BY <1>4, <1>5, <2>1, <3>1, <3>2
      <3> QED
        BY <2>1, <3>1, <3>3
    <2> QED
      BY <2>2, <2>3
  <1>9. HasLast' => \A g \in Heads : last'[g] = XOR(PlaceOf(g, Len(contents[g]))')
    <2> SUFFICES ASSUME HasLast', NEW g \in Heads PROVE last'[g] = XOR(PlaceOf(g, Len(contents[g]))')
      OBVIOUS
    <2>1. HasLast /\ last \in [Heads -> Pointers] /\ last[g] = XOR(PlaceOf(g, Len(contents[g])))
      BY DEF HasLast, QueueInv, QueueShape
    <2> DEFINE m == Len(contents[g])
    <2>2. CASE g = h
      <3>1. m = n /\ n - 1 \in 0 .. Len(contents'[g]) /\ Len(contents'[g]) = n - 1
        BY <1>2, <2>2 DEF c
      <3>2. PlaceOf(g, m)' = PlaceOf(h, IF n - 1 >= k THEN n ELSE n - 1)
        <4>1. PlaceOf(g, m)' = IF n - 1 = 0 THEN g ELSE t[n - 1]
          BY <1>2, <2>2, <3>1 DEF PlaceOf
        <4>2. n - 1 # 0 => t[n - 1] = IF n - 1 >= k THEN c[n] ELSE c[n - 1]
          <5>1. n \in Nat /\ n = Len(contents[h]) /\ k \in 1 .. n /\ c = contents[h]
            BY <1>2 DEF c
          <5> HIDE DEF n
          <5>2. n - 1 # 0 => n - 1 \in k .. n - 1 \/ (n - 1 \in 1 .. k - 1 /\ ~ (n - 1 >= k))
            <6>1. \A q \in Nat : \A j \in 1 .. q : q - 1 # 0 =>
                     q - 1 \in j .. q - 1 \/ (q - 1 \in 1 .. j - 1 /\ ~ (q - 1 >= j))
              OBVIOUS
            <6> QED
              BY <5>1, <6>1
          <5>3. n - 1 + 1 = n
            BY <5>1
          <5>4. /\ \A i \in 1 .. k - 1 : t[i] = c[i]
                /\ \A i \in k .. n - 1 : t[i] = c[i + 1]
            BY <1>2
          <5> QED
            BY <5>2, <5>3, <5>4
        <4>3. n \in Nat /\ n = Len(contents[h]) /\ k \in 1 .. n /\ c = contents[h]
          BY <1>2 DEF c
        <4> HIDE DEF n
        <4> QED
          BY <2>2, <4>1, <4>2, <4>3 DEF PlaceOf
      <3> QED
        BY <1>2, <2>1, <2>2, <3>1, <3>2 DEF c
    <2>3. CASE g # h
      <3>1. contents'[g] = contents[g] /\ last'[g] = last[g]
        BY <1>2, <2>1, <2>3
      <3>2. PlaceOf(g, m)' = PlaceOf(g, m)
        BY <3>1 DEF PlaceOf
      <3> QED
        BY <2>1, <3>1, <3>2
    <2> QED
      BY <2>2, <2>3
  <1>10. Doubly' => \A g \in Heads : \A i \in 1 .. Len(contents'[g]) :
                       prev'[PlaceOf(g, i)'] = PlaceOf(g, i - 1)'
    <2> SUFFICES ASSUME Doubly', NEW g \in Heads, NEW i \in 1 .. Len(contents'[g])
                 PROVE  prev'[PlaceOf(g, i)'] = PlaceOf(g, i - 1)'
      OBVIOUS
    <2>1. /\ Doubly /\ prev \in [Elements -> Pointers]
          /\ \A f \in Heads : \A j \in 1 .. Len(contents[f]) : prev[PlaceOf(f, j)] = PlaceOf(f, j - 1)
      BY DEF Doubly, QueueInv, QueueShape
    <2>2. /\ i \in 0 .. Len(contents'[g]) /\ i - 1 \in 0 .. Len(contents'[g]) /\ i \in Nat /\ i # 0
          /\ g = h => Len(contents'[g]) = n - 1
      BY <1>2 DEF c
    <2>3. CASE g = h /\ i = k
      <3>1. k < n /\ PlaceOf(g, i)' = PlaceOf(h, k + 1) /\ PlaceOf(g, i - 1)' = PlaceOf(h, k - 1)
        BY <1>2, <1>6, <2>2, <2>3
      <3>2. BehindOf(h, k) = PlaceOf(h, k + 1) /\ BehindOf(h, k) \in Elements
        BY <1>2, <1>4, <3>1 DEF c
      <3>3. prev' = [prev EXCEPT ![BehindOf(h, k)] = PlaceOf(h, k - 1)]
        BY <1>2, <2>1, <3>1 DEF c
      <3> QED
        BY <2>1, <3>1, <3>2, <3>3
    <2>4. CASE ~ (g = h /\ i = k)
      <3> DEFINE j == Old(g, i)
      <3>1. /\ j \in 1 .. Len(contents[g]) /\ PlaceOf(g, i)' = PlaceOf(g, j)
            /\ PlaceOf(g, i - 1)' = PlaceOf(g, j - 1)
        <4>1. PlaceOf(g, i)' = PlaceOf(g, j) /\ j \in 0 .. Len(contents[g])
          BY <1>6, <2>2
        <4>2. PlaceOf(g, i - 1)' = PlaceOf(g, Old(g, i - 1))
          BY <1>6, <2>2
        <4>3. j # 0 /\ Old(g, i - 1) = j - 1
          BY <1>2, <2>2, <2>4
        <4> QED
          BY <1>4, <4>1, <4>2, <4>3
      <3>2. ~ (g = h /\ j = k + 1) /\ j \in 0 .. Len(contents[g])
        BY <1>2, <2>2, <2>4, <3>1
      <3> HIDE DEF j
      <3>3. PlaceOf(g, j) \in Elements
        BY <1>1, <3>1, <3>2, PlacesDiffer
      <3>4. prev'[PlaceOf(g, j)] = prev[PlaceOf(g, j)]
        <4>1. CASE k < n
          <5>1. BehindOf(h, k) = PlaceOf(h, k + 1) /\ k + 1 \in 0 .. Len(contents[h])
                /\ k # Len(contents[h])
            BY <1>2, <1>4, <4>1 DEF c
          <5>2. PlaceOf(g, j) # BehindOf(h, k)
            BY <1>5, <3>2, <5>1
          <5> QED
            BY <2>1, <3>3, <5>1, <5>2
        <4>2. CASE ~ (k < n)
          BY <1>2, <2>1, <4>2 DEF c
        <4> QED
          BY <4>1, <4>2
      <3> QED
        BY <2>1, <3>1, <3>4
    <2> QED
      BY <2>3, <2>4
  <1> QED
    <2>1. \A g \in Heads : \A i \in 0 .. Len(contents[g])' : (next[PlaceOf(g, i)] = XOR(BehindOf(g, i)))'
      BY <1>3, <1>8
    <2>2. (HasLast => \A g \in Heads : last[g] = XOR(PlaceOf(g, Len(contents[g]))))'
      BY <1>3, <1>9
    <2>3. (Doubly => \A g \in Heads : \A i \in 1 .. Len(contents[g]) :
                        prev[PlaceOf(g, i)] = PlaceOf(g, i - 1))'
      BY <1>10
    <2> QED
      BY <1>7, <2>1, <2>2, <2>3 DEF QueueInv

\* A free element that takes the place of the k-th of a doubly linked queue
\* (DMR_LIST_REPLACE, DMR_TAILQ_REPLACE).
LEMMA Replaced ==
    ASSUME QueueInv, Doubly, NEW h \in Heads, NEW k \in 1 .. Len(contents[h]),
           NEW f \in Elements, Free(f),
           contents' = [contents EXCEPT ![h] = [contents[h] EXCEPT ![k] = f]],
           next' = [next EXCEPT ![f] = BehindOf(h, k), ![PlaceOf(h, k - 1)] = f],
           last' = IF k = Len(contents[h]) /\ HasLast THEN [last EXCEPT ![h] = f] ELSE last,
           prev' = [x \in Elements |-> IF x = f THEN PlaceOf(h, k - 1)
                                       ELSE IF x = BehindOf(h, k) THEN f ELSE prev[x]],
           UNCHANGED <<kind, cookie>>
    PROVE  QueueInv'
  <1>1. QueueShape /\ cookie = NULL
    BY DEF QueueInv, QueueShape, Doubly
  <1>2. /\ contents \in [Heads -> Seq(Elements)] /\ Len(contents[h]) \in Nat
        /\ contents' \in [Heads -> Seq(Elements)] /\ \A g \in Heads : Len(contents'[g]) = Len(contents[g])
        /\ contents'[h] \in Seq(Elements) /\ contents'[h][k] = f
        /\ \A i \in 1 .. Len(contents[h]) : i # k => contents'[h][i] = contents[h][i]
        /\ \A g \in Heads : g # h => contents'[g] = contents[g]
    <2> DEFINE t == [contents[h] EXCEPT ![k] = f]
    <2>1. /\ contents \in [Heads -> Seq(Elements)] /\ contents[h] \in Seq(Elements)
          /\ Len(contents[h]) \in Nat
      BY <1>1 DEF QueueShape
    <2>2. /\ t \in Seq(Elements) /\ Len(t) = Len(contents[h]) /\ t[k] = f
          /\ \A i \in 1 .. Len(contents[h]) : i # k => t[i] = contents[h][i]
      BY <2>1
    <2> HIDE DEF t
    <2>3. contents' = [contents EXCEPT ![h] = t]
      BY DEF t
    <2> QED
      BY <2>1, <2>2, <2>3
  <1>3. /\ \A p : XOR(p)' = XOR(p)
        /\ \A p \in Pointers : XOR(p) = p
    BY <1>1, NoMask DEF XOR
  <1>4. /\ \A g \in Heads : Len(contents[g]) \in Nat
        /\ \A g \in Heads : \A i \in 0 .. Len(contents[g]) :
              /\ PlaceOf(g, i) \in Places /\ PlaceOf(g, i) \in Pointers /\ PlaceOf(g, i) # f
              /\ next[PlaceOf(g, i)] = BehindOf(g, i) /\ BehindOf(g, i) \in Pointers
              /\ i < Len(contents[g]) => BehindOf(g, i) = PlaceOf(g, i + 1) /\ BehindOf(g, i) \in Elements
              /\ i = Len(contents[g]) => BehindOf(g, i) = NULL
    <2>1. ASSUME NEW g \in Heads, NEW i \in 0 .. Len(contents[g])
          PROVE  /\ i < Len(contents[g]) => BehindOf(g, i) = PlaceOf(g, i + 1) /\ BehindOf(g, i) \in Elements
                 /\ i = Len(contents[g]) => BehindOf(g, i) = NULL
                 /\ BehindOf(g, i) \in Pointers
      <3>1. /\ contents[g] \in Seq(Elements) /\ Len(contents[g]) \in Nat
            /\ \A x \in Elements : x \in Pointers
            /\ NULL \in Pointers
        BY <1>2, QueueConstants DEF NULL, Pointers
      <3> QED
        BY <3>1 DEF PlaceOf, BehindOf
    <2>2. ASSUME NEW g \in Heads, NEW i \in 0 .. Len(contents[g])
          PROVE  PlaceOf(g, i) \in Places /\ next[PlaceOf(g, i)] = BehindOf(g, i) /\ PlaceOf(g, i) # f
      <3>1. next[PlaceOf(g, i)] = XOR(BehindOf(g, i))
        BY DEF QueueInv
      <3> QED
        BY <1>1, <1>3, <2>1, <3>1, PlacesDiffer
    <2>3. \A g \in Heads : Len(contents[g]) \in Nat
      BY <1>2
    <2>4. \A p \in Places : p \in Pointers
      BY QueueConstants DEF Places
    <2> QED
      BY <2>1, <2>2, <2>3, <2>4
  <1>5. \A g, e \in Heads : \A i \in 0 .. Len(contents[g]), j \in 0 .. Len(contents[e]) :
           PlaceOf(g, i) = PlaceOf(e, j) => g = e /\ i = j
    BY <1>1, PlacesDiffer
  <1>6. ASSUME NEW g \in Heads, NEW i \in 0 .. Len(contents[g])
        PROVE  /\ PlaceOf(g, i)' = IF g = h /\ i = k THEN f ELSE PlaceOf(g, i)
               /\ BehindOf(g, i)' = IF g = h /\ i = k - 1 THEN f ELSE BehindOf(g, i)
    <2>1. CASE g = h
      BY <1>2, <2>1 DEF PlaceOf, BehindOf
    <2>2. CASE g # h
      BY <1>2, <2>2 DEF PlaceOf, BehindOf
    <2> QED
      BY <2>1, <2>2
  <1>7. /\ k \in 0 .. Len(contents[h]) /\ k - 1 \in 0 .. Len(contents[h]) /\ k - 1 < Len(contents[h])
        /\ k - 1 # k /\ k - 1 + 1 = k /\ f \in Places /\ f \in Pointers /\ f # NULL
    BY <1>2, QueueConstants DEF Places, NULL, Pointers
  <1>8. QueueShape'
    <2>1. /\ next' \in [Places -> Pointers] /\ prev' \in [Elements -> Pointers]
          /\ last' \in [Heads -> Pointers]
      <3>1. /\ next \in [Places -> Pointers] /\ prev \in [Elements -> Pointers] /\ last \in [Heads -> Pointers]
            /\ BehindOf(h, k) \in Pointers /\ PlaceOf(h, k - 1) \in Pointers
        BY <1>1, <1>4, <1>7 DEF QueueShape
      <3> QED
        BY <1>7, <3>1
    <2>2. ASSUME NEW g \in Heads, NEW e \in Heads, NEW i \in 1 .. Len(contents'[g]),
                 NEW j \in 1 .. Len(contents'[e]), contents'[g][i] = contents'[e][j]
          PROVE  g = e /\ i = j
      <3>1. PlaceOf(g, i)' = PlaceOf(e, j)' /\ i \in 0 .. Len(contents[g]) /\ j \in 0 .. Len(contents[e])
        BY <1>2, <2>2 DEF PlaceOf
      <3> QED
        BY <1>4, <1>5, <1>6, <3>1
    <2> QED
      BY <1>1, <1>2, <2>1, <2>2 DEF QueueShape
  <1>9. ASSUME NEW g \in Heads, NEW i \in 0 .. Len(contents[g])
        PROVE  next'[PlaceOf(g, i)'] = BehindOf(g, i)' /\ BehindOf(g, i)' \in Pointers
    <2>1. next \in [Places -> Pointers] /\ PlaceOf(h, k - 1) \in Places /\ PlaceOf(h, k - 1) # f
      BY <1>1, <1>4, <1>7 DEF QueueShape
    <2>2. CASE g = h /\ i = k
      <3>1. next'[f] = BehindOf(h, k)
        BY <1>7, <2>1
      <3> QED
        BY <1>4, <1>6, <1>7, <2>2, <3>1
    <2>3. CASE g = h /\ i = k - 1
      BY <1>6, <1>7, <2>1, <2>3
    <2>4. CASE ~ (g = h /\ i = k) /\ ~ (g = h /\ i = k - 1)
      <3>1. PlaceOf(g, i) # PlaceOf(h, k - 1) /\ PlaceOf(g, i) # f /\ PlaceOf(g, i) \in Places
        BY <1>4, <1>5, <1>7, <2>4
      <3> QED
        BY <1>4, <1>6, <2>1, <2>4, <3>1
    <2> QED
      BY <2>2, <2>3, <2>4
  <1>10. HasLast' => \A g \in Heads : last'[g] = PlaceOf(g, Len(contents[g]))' /\ last'[g] \in Pointers
    <2> SUFFICES ASSUME HasLast', NEW g \in Heads
                 PROVE  last'[g] = PlaceOf(g, Len(contents[g]))'
      BY <1>8 DEF QueueShape
    <2>1. HasLast /\ last \in [Heads -> Pointers] /\ last[g] = XOR(PlaceOf(g, Len(contents[g])))
      BY DEF HasLast, QueueInv, QueueShape
    <2>2. last[g] = PlaceOf(g, Len(contents[g]))
      <3>1. Len(contents[g]) \in 0 .. Len(contents[g])
        BY <1>4
      <3>2. PlaceOf(g, Len(contents[g])) \in Pointers
        BY <1>4, <3>1
      <3> QED
        BY <1>3, <2>1, <3>2
    <2>3. PlaceOf(g, Len(contents[g]))' = IF g = h /\ Len(contents[g]) = k THEN f
                                          ELSE PlaceOf(g, Len(contents[g]))
      <3>1. CASE g = h
        BY <1>2, <1>4, <3>1 DEF PlaceOf
      <3>2. CASE g # h
        BY <1>2, <3>2 DEF PlaceOf
      <3> QED
        BY <3>1, <3>2
    <2> QED
      BY <2>1, <2>2, <2>3
  <1>11. ASSUME NEW g \in Heads, NEW i \in 1 .. Len(contents[g])
         PROVE  prev'[PlaceOf(g, i)'] = PlaceOf(g, i - 1)'
    <2>1. /\ prev \in [Elements -> Pointers]
          /\ \A e \in Heads : \A j \in 1 .. Len(contents[e]) : prev[PlaceOf(e, j)] = PlaceOf(e, j - 1)
      BY DEF QueueInv, QueueShape
    <2>2. i \in 0 .. Len(contents[g]) /\ i - 1 \in 0 .. Len(contents[g]) /\ i # 0 /\ i - 1 # i
      BY <1>4
    <2>3. CASE g = h /\ i = k
      BY <1>6, <1>7, <2>2, <2>3
    <2>4. CASE g = h /\ i = k + 1
      <3>1. BehindOf(h, k) = PlaceOf(h, k + 1) /\ BehindOf(h, k) \in Elements
        BY <1>4, <1>7, <2>2, <2>4
      <3>2. PlaceOf(g, i)' = PlaceOf(h, k + 1) /\ PlaceOf(g, i - 1)' = f /\ PlaceOf(h, k + 1) # f
        BY <1>4, <1>6, <1>7, <2>2, <2>4
      <3> QED
        BY <3>1, <3>2
    <2>5. CASE ~ (g = h /\ i = k) /\ ~ (g = h /\ i = k + 1)
      <3>1. PlaceOf(g, i)' = PlaceOf(g, i) /\ PlaceOf(g, i - 1)' = PlaceOf(g, i - 1)
        BY <1>6, <1>7, <2>2, <2>5
      <3>2. PlaceOf(g, i) \in Elements /\ PlaceOf(g, i) # f
        BY <1>1, <1>4, <2>2, PlacesDiffer
      <3>3. PlaceOf(g, i) # BehindOf(h, k)
        <4>1. CASE k < Len(contents[h])
          <5>1. BehindOf(h, k) = PlaceOf(h, k + 1) /\ k + 1 \in 0 .. Len(contents[h])
            BY <1>4, <1>7, <4>1
          <5> QED
            BY <1>5, <2>2, <2>5, <5>1
        <4>2. CASE k = Len(contents[h])
          <5>1. BehindOf(h, k) = NULL
            BY <1>4, <1>7, <4>2
          <5> QED
            BY <3>2, <5>1, QueueConstants DEF NULL, Pointers
        <4> QED
          BY <4>1, <4>2
      <3> QED
        BY <2>1, <3>1, <3>2, <3>3
    <2> QED
      BY <2>3, <2>4, <2>5
  <1> QED
    <2>1. \A g \in Heads : \A i \in 0 .. Len(contents[g])' : (next[PlaceOf(g, i)] = XOR(BehindOf(g, i)))'
      <3> SUFFICES ASSUME NEW g \in Heads, NEW i \in 0 .. Len(contents'[g])
                   PROVE  next'[PlaceOf(g, i)'] = XOR(BehindOf(g, i)')
        BY <1>3
      <3>1. i \in 0 .. Len(contents[g])
        BY <1>2
      <3>2. next'[PlaceOf(g, i)'] = BehindOf(g, i)' /\ BehindOf(g, i)' \in Pointers
        BY <1>9, <3>1
      <3> QED
        BY <1>3, <3>2
    <2>2. (HasLast => \A g \in Heads : last[g] = XOR(PlaceOf(g, Len(contents[g]))))'
      <3> SUFFICES ASSUME HasLast', NEW g \in Heads PROVE last'[g] = XOR(PlaceOf(g, Len(contents[g]))')
        BY <1>3
      <3>1. last'[g] = PlaceOf(g, Len(contents[g]))' /\ last'[g] \in Pointers
        BY <1>10
      <3> QED
        BY <1>3, <3>1
    <2>3. (Doubly => \A g \in Heads : \A i \in 1 .. Len(contents[g]) :
                        prev[PlaceOf(g, i)] = PlaceOf(g, i - 1))'
      BY <1>2, <1>11
    <2> QED
      BY <1>8, <2>1, <2>2, <2>3 DEF QueueInv

\* What the CONCAT of a queue g of m elements does to a queue h of n.
Joined(h, g, n, m, t, z) ==
    /\ contents' = [contents EXCEPT ![h] = t, ![g] = z]
    /\ next' = [next EXCEPT ![PlaceOf(h, n)] = PlaceOf(g, 1), ![g] = NULL]
    /\ last' = [last EXCEPT ![h] = PlaceOf(g, m), ![g] = g]
    /\ prev' = IF Doubly THEN [prev EXCEPT ![PlaceOf(g, 1)] = PlaceOf(h, n)] ELSE prev

\* t is what follows of two sequences s and r, one after the other.
IsJoin(t, s, r) ==
    /\ Len(t) = Len(s) + Len(r)
    /\ \A i \in 1 .. Len(s) : t[i] = s[i]
    /\ \A i \in Len(s) + 1 .. Len(s) + Len(r) : t[i] = r[i - Len(s)]

\* A queue that is not empty and is moved to the end of another
\* (DMR_SIMPLEQ_CONCAT, DMR_TAILQ_CONCAT).
LEMMA Concatenated ==
    ASSUME QueueInv, HasLast, cookie = NULL, NEW h \in Heads, NEW g \in Heads, h # g,
           NEW n \in Nat, NEW m \in Nat, Len(contents[h]) = n, Len(contents[g]) = m, m > 0,
           NEW t \in Seq(Elements), IsJoin(t, contents[h], contents[g]),
           NEW z \in Seq(Elements), Len(z) = 0,
           Joined(h, g, n, m, t, z), UNCHANGED <<kind, cookie>>
    PROVE  QueueInv'
  <1>1. Len(contents[h]) = n /\ Len(contents[g]) = m /\ m > 0
    OBVIOUS
  <1>2. QueueShape
    BY DEF QueueInv
  <1>3. /\ contents \in [Heads -> Seq(Elements)] /\ contents' \in [Heads -> Seq(Elements)]
        /\ Len(contents'[g]) = 0 /\ Len(contents'[h]) = n + m
        /\ \A i \in 1 .. n : contents'[h][i] = contents[h][i]
        /\ \A i \in n + 1 .. n + m : contents'[h][i] = contents[g][i - n]
        /\ \A f \in Heads : f # h /\ f # g => contents'[f] = contents[f]
    BY <1>2 DEF QueueShape, Joined, IsJoin
  <1>4. /\ \A p : XOR(p)' = XOR(p)
        /\ \A p \in Pointers : XOR(p) = p
    BY NoMask DEF XOR
  <1>5. /\ \A f \in Heads : Len(contents[f]) \in Nat
        /\ \A f \in Heads : \A i \in 0 .. Len(contents[f]) :
              /\ PlaceOf(f, i) \in Places /\ PlaceOf(f, i) \in Pointers
              /\ next[PlaceOf(f, i)] = BehindOf(f, i) /\ BehindOf(f, i) \in Pointers
              /\ i < Len(contents[f]) => BehindOf(f, i) = PlaceOf(f, i + 1) /\ BehindOf(f, i) \in Elements
              /\ i = Len(contents[f]) => BehindOf(f, i) = NULL
    <2>1. ASSUME NEW f \in Heads, NEW i \in 0 .. Len(contents[f])
          PROVE  /\ i < Len(contents[f]) => BehindOf(f, i) = PlaceOf(f, i + 1) /\ BehindOf(f, i) \in Elements
                 /\ i = Len(contents[f]) => BehindOf(f, i) = NULL
                 /\ BehindOf(f, i) \in Pointers
      <3>1. /\ contents[f] \in Seq(Elements) /\ Len(contents[f]) \in Nat
            /\ \A x \in Elements : x \in Pointers
            /\ NULL \in Pointers
        BY <1>3, QueueConstants DEF NULL, Pointers
      <3> QED
        BY <3>1 DEF PlaceOf, BehindOf
    <2>2. ASSUME NEW f \in Heads, NEW i \in 0 .. Len(contents[f])
          PROVE  PlaceOf(f, i) \in Places /\ next[PlaceOf(f, i)] = BehindOf(f, i)
      <3>1. next[PlaceOf(f, i)] = XOR(BehindOf(f, i))
        BY DEF QueueInv
      <3> QED
        BY <1>2, <1>4, <2>1, <3>1, PlacesDiffer
    <2>3. \A f \in Heads : Len(contents[f]) \in Nat
      BY <1>3
    <2>4. \A p \in Places : p \in Pointers
      BY QueueConstants DEF Places
    <2> QED
      BY <2>1, <2>2, <2>3, <2>4
  <1>6. \A f, e \in Heads : \A i \in 0 .. Len(contents[f]), j \in 0 .. Len(contents[e]) :
           PlaceOf(f, i) = PlaceOf(e, j) => f = e /\ i = j
    BY <1>2, PlacesDiffer
  <1> DEFINE From(f, i) == IF f = h /\ i > n THEN g ELSE f
             Old(f, i) == IF f = h /\ i > n THEN i - n ELSE i
  <1>7. ASSUME NEW f \in Heads, NEW i \in 0 .. Len(contents'[f])
        PROVE  /\ From(f, i) = IF f = h /\ i > n THEN g ELSE f
               /\ Old(f, i) = IF f = h /\ i > n THEN i - n ELSE i
               /\ Old(f, i) \in 0 .. Len(contents[From(f, i)]) /\ i \in Nat
               /\ f = h => i <= n + m
               /\ f = g => i = 0
               /\ PlaceOf(f, i)' = PlaceOf(From(f, i), Old(f, i))
               /\ f = g => BehindOf(f, i)' = NULL
               /\ f = h /\ i = n => BehindOf(f, i)' = PlaceOf(g, 1)
               /\ f # g /\ ~ (f = h /\ i = n) => BehindOf(f, i)' = BehindOf(From(f, i), Old(f, i))
    <2>1. CASE f = g
      BY <1>1, <1>3, <2>1 DEF PlaceOf, BehindOf
    <2>2. CASE f = h /\ i <= n
      <3>1. i # 0 => contents'[h][i] = contents[h][i]
        BY <1>1, <1>3, <2>2
      <3>2. i < n => contents'[h][i + 1] = contents[h][i + 1]
        <4>1. i < n => i + 1 \in 1 .. n
          BY <1>1, <1>3, <2>2
        <4> QED
          BY <1>3, <4>1
      <3>3. contents'[h][n + 1] = contents[g][1]
        BY <1>1, <1>3
      <3> QED
        BY <1>1, <1>3, <2>2, <3>1, <3>2, <3>3 DEF PlaceOf, BehindOf
    <2>3. CASE f = h /\ i > n
      <3>1. i - n \in 1 .. m /\ i \in n + 1 .. n + m
        BY <1>1, <1>3, <2>3
      <3>2. contents'[h][i] = contents[g][i - n]
        BY <1>3, <3>1
      <3>3. i < n + m => i + 1 \in n + 1 .. n + m /\ i + 1 - n = i - n + 1
        BY <3>1
      <3>4. i < n + m => contents'[h][i + 1] = contents[g][i - n + 1]
        BY <1>3, <3>3
      <3> QED
        BY <1>1, <1>3, <2>3, <3>1, <3>2, <3>4 DEF PlaceOf, BehindOf
    <2>4. CASE f # h /\ f # g
      <3>1. contents'[f] = contents[f] /\ i \in Nat /\ i \in 0 .. Len(contents[f])
        BY <1>3, <1>5, <2>4
      <3>2. PlaceOf(f, i)' = PlaceOf(f, i) /\ BehindOf(f, i)' = BehindOf(f, i)
        BY <3>1 DEF PlaceOf, BehindOf
      <3>3. From(f, i) = f /\ Old(f, i) = i
        BY <2>4
      <3> HIDE DEF From, Old
      <3> QED
        BY <2>4, <3>1, <3>2, <3>3
    <2> QED
      BY <1>1, <1>3, <2>1, <2>2, <2>3, <2>4
  <1> HIDE DEF From, Old
  <1>8. /\ n \in 0 .. Len(contents[h]) /\ 1 \in 0 .. Len(contents[g]) /\ m \in 0 .. Len(contents[g])
        /\ 0 \in 0 .. Len(contents[g]) /\ 0 < Len(contents[g]) /\ PlaceOf(g, 0) = g
        /\ g \in Places /\ g \in Pointers
    BY <1>1, QueueConstants DEF PlaceOf, Places
  <1>9. /\ next \in [Places -> Pointers] /\ prev \in [Elements -> Pointers] /\ last \in [Heads -> Pointers]
        /\ PlaceOf(g, 1) \in Pointers /\ PlaceOf(h, n) \in Pointers /\ PlaceOf(g, m) \in Pointers
        /\ NULL \in Pointers /\ PlaceOf(h, n) \in Places /\ PlaceOf(g, 1) \in Elements
        /\ PlaceOf(h, n) # g
    <2>1. PlaceOf(h, n) # PlaceOf(g, 0)
      BY <1>6, <1>8
    <2>2. BehindOf(g, 0) = PlaceOf(g, 0 + 1) /\ BehindOf(g, 0) \in Elements
      BY <1>5, <1>8
    <2> QED
      BY <1>2, <1>5, <1>8, <2>1, <2>2 DEF QueueShape, NULL
  <1>10. ASSUME NEW f \in Heads, NEW i \in 0 .. Len(contents'[f])
         PROVE  next'[PlaceOf(f, i)'] = BehindOf(f, i)' /\ BehindOf(f, i)' \in Pointers
    <2> DEFINE e == From(f, i)
               j == Old(f, i)
    <2>1. CASE f = g
      <3>1. PlaceOf(f, i)' = g
        <4>1. i = 0 /\ From(f, i) = f /\ Old(f, i) = i /\ PlaceOf(f, i)' = PlaceOf(From(f, i), Old(f, i))
          BY <1>7, <2>1
        <4> QED
          BY <1>8, <2>1, <4>1
      <3>2. next'[g] = NULL
        BY <1>8, <1>9 DEF Joined
      <3> QED
        BY <1>7, <1>9, <2>1, <3>1, <3>2
    <2>2. CASE f = h /\ i = n
      <3>1. From(f, i) = h /\ Old(f, i) = n /\ PlaceOf(f, i)' = PlaceOf(From(f, i), Old(f, i))
        BY <1>1, <1>7, <2>2
      <3>2. next'[PlaceOf(h, n)] = PlaceOf(g, 1)
        BY <1>1, <1>9 DEF Joined
      <3> QED
        BY <1>7, <1>9, <2>2, <3>1, <3>2
    <2>3. CASE f # g /\ ~ (f = h /\ i = n)
      <3>1. /\ e \in Heads /\ j \in 0 .. Len(contents[e]) /\ PlaceOf(f, i)' = PlaceOf(e, j)
            /\ BehindOf(f, i)' = BehindOf(e, j)
            /\ ~ (e = h /\ j = n) /\ ~ (e = g /\ j = 0)
        BY <1>1, <1>7, <2>3
      <3> HIDE DEF e, j
      <3>2. PlaceOf(e, j) # PlaceOf(h, n) /\ PlaceOf(e, j) # g /\ PlaceOf(e, j) \in Places
        BY <1>5, <1>6, <1>8, <3>1
      <3>3. next[PlaceOf(e, j)] = BehindOf(e, j) /\ BehindOf(e, j) \in Pointers
        BY <1>5, <3>1
      <3> QED
        BY <1>1, <1>9, <3>1, <3>2, <3>3 DEF Joined
    <2> QED
      BY <2>1, <2>2, <2>3
  <1>11. QueueShape'
    <2>1. /\ next' \in [Places -> Pointers] /\ prev' \in [Elements -> Pointers]
          /\ last' \in [Heads -> Pointers]
      BY <1>1, <1>8, <1>9 DEF Joined
    <2>2. ASSUME NEW f \in Heads, NEW e \in Heads, NEW i \in 1 .. Len(contents'[f]),
                 NEW j \in 1 .. Len(contents'[e]), contents'[f][i] = contents'[e][j]
          PROVE  f = e /\ i = j
      <3>1. PlaceOf(f, i)' = PlaceOf(e, j)' /\ i \in 0 .. Len(contents'[f]) /\ j \in 0 .. Len(contents'[e])
        BY <1>3, <2>2 DEF PlaceOf
      <3>2. PlaceOf(From(f, i), Old(f, i)) = PlaceOf(From(e, j), Old(e, j)) /\ i # 0 /\ j # 0
        <4>1. i # 0 /\ j # 0
          BY <1>3, <1>5
        <4> QED
          BY <1>7, <3>1, <4>1
      <3>3. /\ Old(f, i) \in 0 .. Len(contents[From(f, i)]) /\ Old(e, j) \in 0 .. Len(contents[From(e, j)])
            /\ From(f, i) \in Heads /\ From(e, j) \in Heads /\ f # g /\ e # g
        BY <1>7, <3>1, <3>2
      <3>5. /\ i \in Nat /\ j \in Nat
            /\ From(f, i) = (IF f = h /\ i > n THEN g ELSE f) /\ Old(f, i) = (IF f = h /\ i > n THEN i - n ELSE i)
            /\ From(e, j) = (IF e = h /\ j > n THEN g ELSE e) /\ Old(e, j) = (IF e = h /\ j > n THEN j - n ELSE j)
        BY <1>7, <3>1
      <3>4. From(f, i) = From(e, j) /\ Old(f, i) = Old(e, j)
        BY <1>6, <3>2, <3>3
      <3>6. CASE (f = h /\ i > n) <=> (e = h /\ j > n)
        <4>1. CASE f = h /\ i > n
          <5>1. i - n = j - n /\ f = h /\ e = h
            BY <3>4, <3>5, <3>6, <4>1
          <5> QED
            BY <3>5, <5>1
        <4>2. CASE ~ (f = h /\ i > n)
          <5>1. From(f, i) = f /\ Old(f, i) = i /\ From(e, j) = e /\ Old(e, j) = j
            BY <3>5, <3>6, <4>2
          <5> QED
            BY <3>4, <5>1
        <4> QED
          BY <4>1, <4>2
      <3>7. CASE ~ ((f = h /\ i > n) <=> (e = h /\ j > n))
        <4>1. From(f, i) = g /\ From(e, j) = g
          BY <3>4, <3>5, <3>7
        <4> QED
          BY <3>3, <3>5, <3>7, <4>1
      <3> QED
        BY <3>6, <3>7
    <2> QED
      BY <1>2, <1>3, <2>1, <2>2 DEF QueueShape
  <1>12. \A f \in Heads : last'[f] = PlaceOf(f, Len(contents[f]))' /\ last'[f] \in Pointers
    <2> SUFFICES ASSUME NEW f \in Heads PROVE last'[f] = PlaceOf(f, Len(contents[f]))'
      BY <1>11 DEF QueueShape
    <2>1. CASE f = g
      BY <1>3, <1>9, <2>1 DEF PlaceOf, Joined
    <2>2. CASE f = h
      <3>1. contents'[h][n + m] = contents[g][m]
        <4>1. n + m \in n + 1 .. n + m /\ n + m - n = m
          BY <1>1
        <4> QED
          BY <1>3, <4>1
      <3>2. PlaceOf(f, Len(contents[f]))' = contents'[h][n + m]
        <4>1. n + m # 0
          BY <1>1
        <4> QED
          BY <1>3, <2>2, <4>1 DEF PlaceOf
      <3>3. last'[h] = PlaceOf(g, m) /\ PlaceOf(g, m) = contents[g][m]
        BY <1>1, <1>9 DEF PlaceOf, Joined
      <3> QED
        BY <2>2, <3>1, <3>2, <3>3
    <2>3. CASE f # g /\ f # h
      <3>1. last[f] = PlaceOf(f, Len(contents[f]))
        <4>1. last[f] = XOR(PlaceOf(f, Len(contents[f])))
          BY DEF QueueInv
        <4>2. Len(contents[f]) \in 0 .. Len(contents[f])
          BY <1>5
        <4>3. PlaceOf(f, Len(contents[f])) \in Pointers
          BY <1>5, <4>2
        <4> QED
          BY <1>4, <4>1, <4>3
      <3>2. contents'[f] = contents[f] /\ last'[f] = last[f]
        BY <1>3, <1>9, <2>3 DEF Joined
      <3>3. PlaceOf(f, Len(contents[f]))' = PlaceOf(f, Len(contents[f]))
        BY <3>2 DEF PlaceOf
      <3> QED
        BY <3>1, <3>2, <3>3
    <2> QED
      BY <2>1, <2>2, <2>3
  <1>13. Doubly' => \A f \in Heads : \A i \in 1 .. Len(contents'[f]) :
                       prev'[PlaceOf(f, i)'] = PlaceOf(f, i - 1)'
    <2> SUFFICES ASSUME Doubly', NEW f \in Heads, NEW i \in 1 .. Len(contents'[f])
                 PROVE  prev'[PlaceOf(f, i)'] = PlaceOf(f, i - 1)'
      OBVIOUS
    <2>1. /\ Doubly
          /\ \A e \in Heads : \A j \in 1 .. Len(contents[e]) : prev[PlaceOf(e, j)] = PlaceOf(e, j - 1)
      BY DEF Doubly, QueueInv
    <2>2. prev' = [prev EXCEPT ![PlaceOf(g, 1)] = PlaceOf(h, n)]
      BY <1>1, <2>1 DEF Joined
    <2>3. /\ i \in 0 .. Len(contents'[f]) /\ i - 1 \in 0 .. Len(contents'[f]) /\ i \in Nat /\ i # 0
          /\ f # g
      BY <1>3
    <2>4. CASE f = h /\ i = n + 1
      <3>1. PlaceOf(f, i)' = PlaceOf(g, 1) /\ PlaceOf(f, i - 1)' = PlaceOf(h, n)
        <4>1. /\ From(f, i) = g /\ Old(f, i) = 1 /\ PlaceOf(f, i)' = PlaceOf(From(f, i), Old(f, i))
              /\ i > n /\ i - n = 1 /\ i - 1 = n
          BY <1>1, <1>7, <2>3, <2>4
        <4>2. From(h, n) = h /\ Old(h, n) = n /\ PlaceOf(h, n)' = PlaceOf(From(h, n), Old(h, n))
          BY <1>1, <1>7, <2>3, <2>4, <4>1
        <4> QED
          BY <2>4, <4>1, <4>2
      <3> QED
        BY <1>9, <2>2, <3>1
    <2>5. CASE ~ (f = h /\ i = n + 1)
      <3> DEFINE e == From(f, i)
                 j == Old(f, i)
      <3>1. /\ e \in Heads /\ j \in 1 .. Len(contents[e]) /\ j \in 0 .. Len(contents[e])
            /\ PlaceOf(f, i)' = PlaceOf(e, j) /\ PlaceOf(f, i - 1)' = PlaceOf(e, j - 1)
            /\ ~ (e = g /\ j = 1)
        <4>1. PlaceOf(f, i)' = PlaceOf(e, j) /\ j \in 0 .. Len(contents[e])
          BY <1>7, <2>3
        <4>2. PlaceOf(f, i - 1)' = PlaceOf(From(f, i - 1), Old(f, i - 1))
          BY <1>7, <2>3
        <4>3. /\ j # 0 /\ From(f, i - 1) = e /\ Old(f, i - 1) = j - 1
              /\ ~ (e = g /\ j = 1) /\ e \in Heads
          <5>1. /\ i \in Nat /\ i - 1 \in Nat /\ i # 0 /\ f # g /\ n \in Nat
                /\ e = IF f = h /\ i > n THEN g ELSE f
                /\ j = IF f = h /\ i > n THEN i - n ELSE i
                /\ From(f, i - 1) = IF f = h /\ i - 1 > n THEN g ELSE f
                /\ Old(f, i - 1) = IF f = h /\ i - 1 > n THEN i - 1 - n ELSE i - 1
            BY <1>7, <2>3
          <5> HIDE DEF e, j
          <5>2. CASE f = h /\ i > n
            BY <2>5, <5>1, <5>2
          <5>3. CASE ~ (f = h /\ i > n)
            BY <5>1, <5>3
          <5> QED
            BY <5>2, <5>3
        <4> QED
          BY <1>5, <4>1, <4>2, <4>3
      <3> HIDE DEF e, j
      <3>2. PlaceOf(e, j) \in Elements /\ PlaceOf(e, j) # PlaceOf(g, 1)
        <4>1. PlaceOf(e, j) \in Elements
          <5>1. j > 0
            BY <1>5, <3>1
          <5> QED
            BY <1>2, <3>1, <5>1, PlacesDiffer
        <4>2. PlaceOf(e, j) # PlaceOf(g, 1)
          BY <1>6, <1>8, <3>1
        <4> QED
          BY <4>1, <4>2
      <3> QED
        BY <1>9, <2>1, <2>2, <3>1, <3>2
    <2> QED
      BY <2>4, <2>5
  <1> QED
    <2>1. \A f \in Heads : \A i \in 0 .. Len(contents[f])' : (next[PlaceOf(f, i)] = XOR(BehindOf(f, i)))'
      <3> SUFFICES ASSUME NEW f \in Heads, NEW i \in 0 .. Len(contents'[f])
                   PROVE  next'[PlaceOf(f, i)'] = XOR(BehindOf(f, i)')
        BY <1>4
      <3>1. next'[PlaceOf(f, i)'] = BehindOf(f, i)' /\ BehindOf(f, i)' \in Pointers
        BY <1>10
      <3> QED
        BY <1>4, <3>1
    <2>2. (HasLast => \A f \in Heads : last[f] = XOR(PlaceOf(f, Len(contents[f]))))'
      <3> SUFFICES ASSUME NEW f \in Heads PROVE last'[f] = XOR(PlaceOf(f, Len(contents[f]))')
        BY <1>4
      <3>1. last'[f] = PlaceOf(f, Len(contents[f]))' /\ last'[f] \in Pointers
        BY <1>12
      <3> QED
        BY <1>4, <3>1
    <2>3. (Doubly => \A f \in Heads : \A i \in 1 .. Len(contents[f]) :
                        prev[PlaceOf(f, i)] = PlaceOf(f, i - 1))'
      BY <1>13
    <2> QED
      BY <1>11, <2>1, <2>2, <2>3 DEF QueueInv

\* Where the elements of a sequence are when one is put in at a place.
LEMMA InsertedAt ==
    ASSUME NEW S, NEW s \in Seq(S), NEW k \in 0 .. Len(s), NEW e \in S, NEW j, j = k + 1,
           NEW t, t = InsertAt(s, j, e)
    PROVE  t \in Seq(S) /\ IsInsert(t, s, k, e)
  <1> DEFINE a == SubSeq(s, 1, j - 1)
             b == SubSeq(s, j, Len(s))
             ae == a \o <<e>>
  <1>1. Len(s) \in Nat /\ j \in Nat /\ j - 1 \in Nat /\ j - 1 = k /\ j \in 1 .. Len(s) + 1
    OBVIOUS
  <1>2. a \in Seq(S) /\ Len(a) = j - 1 /\ \A i \in 1 .. j - 1 : a[i] = s[i]
    BY <1>1, SubSeqProperties
  <1>3. b \in Seq(S) /\ Len(b) = Len(s) - j + 1 /\ \A i \in 1 .. Len(s) - j + 1 : b[i] = s[j + i - 1]
    BY <1>1, SubSeqProperties
  <1>4. t = ae \o b
    BY DEF InsertAt
  <1> HIDE DEF a, b
  <1>5. /\ ae \in Seq(S) /\ Len(ae) = j /\ ae[j] = e
        /\ \A i \in 1 .. j - 1 : ae[i] = s[i]
    <2>1. <<e>> \in Seq(S) /\ Len(<<e>>) = 1 /\ <<e>>[1] = e
      OBVIOUS
    <2>2. /\ ae \in Seq(S) /\ Len(ae) = Len(a) + 1
          /\ \A i \in 1 .. Len(a) + 1 : ae[i] = IF i <= Len(a) THEN a[i] ELSE <<e>>[i - Len(a)]
      BY <1>2, <2>1, ConcatProperties
    <2>3. j \in 1 .. j /\ ~ (j <= j - 1) /\ j - (j - 1) = 1 /\ \A i \in 1 .. j - 1 : i \in 1 .. j
      BY <1>1
    <2>4. Len(a) + 1 = j
      BY <1>1, <1>2
    <2> HIDE DEF ae
    <2> QED
      BY <1>2, <2>1, <2>2, <2>3, <2>4
  <1> HIDE DEF ae
  <1>6. /\ t \in Seq(S) /\ Len(t) = Len(s) + 1
        /\ \A i \in 1 .. Len(s) + 1 : t[i] = IF i <= j THEN ae[i] ELSE b[i - j]
    <2>1. /\ t \in Seq(S) /\ Len(t) = Len(ae) + Len(b)
          /\ \A i \in 1 .. Len(ae) + Len(b) : t[i] = IF i <= Len(ae) THEN ae[i] ELSE b[i - Len(ae)]
      <3>1. /\ ae \o b \in Seq(S) /\ Len(ae \o b) = Len(ae) + Len(b)
            /\ \A i \in 1 .. Len(ae) + Len(b) :
                  (ae \o b)[i] = IF i <= Len(ae) THEN ae[i] ELSE b[i - Len(ae)]
        BY <1>3, <1>5, ConcatProperties
      <3> QED
        BY <1>4, <3>1, Zenon
    <2>2. Len(ae) + Len(b) = Len(s) + 1
      BY <1>1, <1>3, <1>5
    <2> QED
      BY <1>5, <2>1, <2>2
  <1>7. t[j] = e /\ \A i \in 1 .. j - 1 : t[i] = s[i]
    <2>1. j \in 1 .. Len(s) + 1 /\ j <= j /\ \A i \in 1 .. j - 1 : i \in 1 .. Len(s) + 1 /\ i <= j
      BY <1>1
    <2> QED
      BY <1>5, <1>6, <2>1
  <1>8. \A i \in j .. Len(s) : t[i + 1] = s[i]
    <2> SUFFICES ASSUME NEW i \in j .. Len(s) PROVE t[i + 1] = s[i]
      OBVIOUS
    <2> DEFINE m == i + 1 - j
    <2>1. i + 1 \in 1 .. Len(s) + 1 /\ ~ (i + 1 <= j) /\ m \in 1 .. Len(s) - j + 1 /\ j + m - 1 = i
      BY <1>1
    <2>2. t[i + 1] = b[m]
      BY <1>6, <2>1
    <2> HIDE DEF m
    <2> QED
      BY <1>3, <2>1, <2>2
  <1>9. t[k + 1] = e /\ \A i \in 1 .. k : t[i] = s[i]
    BY <1>1, <1>7
  <1>10. \A i \in k + 1 .. Len(s) : t[i + 1] = s[i]
    BY <1>8
  <1> QED
    BY <1>6, <1>9, <1>10 DEF IsInsert

\* Where the elements of a sequence are when the k-th is taken out.
LEMMA RemovedAt ==
    ASSUME NEW S, NEW s \in Seq(S), NEW k \in 1 .. Len(s), NEW t, t = RemoveAt(s, k)
    PROVE  t \in Seq(S) /\ IsRemove(t, s, k)
  <1> DEFINE a == SubSeq(s, 1, k - 1)
             b == SubSeq(s, k + 1, Len(s))
  <1>1. Len(s) \in Nat /\ k \in Nat /\ k - 1 \in Nat
    OBVIOUS
  <1>2. a \in Seq(S) /\ Len(a) = k - 1 /\ \A i \in 1 .. k - 1 : a[i] = s[i]
    BY <1>1, SubSeqProperties
  <1>3. b \in Seq(S) /\ Len(b) = Len(s) - k /\ \A i \in 1 .. Len(s) - k : b[i] = s[k + i]
    BY <1>1, SubSeqProperties
  <1>4. t = a \o b
    BY DEF RemoveAt
  <1> HIDE DEF a, b
  <1>5. /\ a \o b \in Seq(S) /\ Len(a \o b) = Len(s) - 1
        /\ \A i \in 1 .. Len(s) - 1 : (a \o b)[i] = IF i <= k - 1 THEN a[i] ELSE b[i - (k - 1)]
    <2>1. /\ a \o b \in Seq(S) /\ Len(a \o b) = Len(a) + Len(b)
          /\ \A i \in 1 .. Len(a) + Len(b) : (a \o b)[i] = IF i <= Len(a) THEN a[i] ELSE b[i - Len(a)]
      BY <1>2, <1>3, ConcatProperties
    <2>2. Len(a) + Len(b) = Len(s) - 1
      BY <1>1, <1>2, <1>3
    <2> QED
      BY <1>2, <2>1, <2>2
  <1>6. \A i \in 1 .. k - 1 : i \in 1 .. Len(s) - 1 /\ i <= k - 1
    BY <1>1
  <1>7. \A i \in k .. Len(s) - 1 : (a \o b)[i] = s[i + 1]
    <2> SUFFICES ASSUME NEW i \in k .. Len(s) - 1 PROVE (a \o b)[i] = s[i + 1]
      OBVIOUS
    <2>1. i \in 1 .. Len(s) - 1 /\ ~ (i <= k - 1) /\ i - (k - 1) \in 1 .. Len(s) - k
          /\ k + (i - (k - 1)) = i + 1
      BY <1>1
    <2> QED
      BY <1>3, <1>5, <2>1
  <1>8. \A i \in 1 .. k - 1 : (a \o b)[i] = s[i]
    BY <1>2, <1>5, <1>6
  <1>9. a \o b \in Seq(S) /\ IsRemove(a \o b, s, k)
    BY <1>5, <1>7, <1>8 DEF IsRemove
  <1> QED
    BY <1>4, <1>9, Zenon

\* The element that a macro is given is at its index in the queue.
LEMMA IndexIs ==
    ASSUME QueueInv, NEW h \in Heads, NEW l \in In(h)
    PROVE  /\ Index(h, l) \in 1 .. Len(contents[h]) /\ contents[h][Index(h, l)] = l
           /\ PlaceOf(h, Index(h, l)) = l /\ l \in Elements
           /\ BehindOf(h, Index(h, l) - 1) = l
           /\ \A i \in 1 .. Len(contents[h]) : contents[h][i] = l => i = Index(h, l)
  <1>1. /\ contents[h] \in Seq(Elements) /\ Len(contents[h]) \in Nat
        /\ DOMAIN contents[h] = 1 .. Len(contents[h])
        /\ \A i \in 1 .. Len(contents[h]) : contents[h][i] \in Elements
    BY DEF QueueInv, QueueShape
  <1>2. \E i \in 1 .. Len(contents[h]) : contents[h][i] = l
    BY <1>1 DEF In, ToSet
  <1>3. Index(h, l) \in 1 .. Len(contents[h]) /\ contents[h][Index(h, l)] = l
    BY <1>1, <1>2 DEF Index
  <1> DEFINE k == Index(h, l)
  <1>4. k # 0 /\ k - 1 < Len(contents[h]) /\ k - 1 + 1 = k
    BY <1>1, <1>3
  <1>5. \A i \in 1 .. Len(contents[h]) : contents[h][i] = l => i = k
    BY <1>3 DEF QueueInv, QueueShape
  <1> HIDE DEF k
  <1>6. k \in 1 .. Len(contents[h]) /\ contents[h][k] = l
    BY <1>3 DEF k
  <1>7. PlaceOf(h, k) = l /\ BehindOf(h, k - 1) = l /\ l \in Elements
    BY <1>1, <1>4, <1>6 DEF PlaceOf, BehindOf
  <1> QED
    BY <1>5, <1>6, <1>7 DEF k

\* A free element that Link puts in behind the k-th place.
LEMMA LinkStep ==
    ASSUME QueueInv, NEW h \in Heads, NEW k \in 0 .. Len(contents[h]),
           NEW e \in Elements, Free(e), NEW t \in Seq(Elements),
           contents' = [contents EXCEPT ![h] = t], IsInsert(t, contents[h], k, e),
           Link(h, PlaceOf(h, k), e, next[PlaceOf(h, k)]), UNCHANGED <<kind, cookie>>
    PROVE  QueueInv'
  <1>1. QueueShape /\ cookie \in Pointers /\ last \in [Heads -> Pointers] /\ prev \in [Elements -> Pointers]
        /\ (Doubly => cookie = NULL)
    BY DEF QueueInv, QueueShape, Doubly
  <1>2. next[PlaceOf(h, k)] = XOR(BehindOf(h, k))
    BY DEF QueueInv
  <1>3. /\ BehindOf(h, k) \in Pointers /\ (BehindOf(h, k) = NULL <=> k = Len(contents[h]))
        /\ NULL \in Pointers /\ e \in Pointers
    <2>1. contents[h] \in Seq(Elements) /\ Len(contents[h]) \in Nat
      BY <1>1 DEF QueueShape
    <2>2. /\ \A x \in Elements : x \in Pointers /\ x # NULL
          /\ NULL \in Pointers
      BY QueueConstants DEF NULL, Pointers
    <2> QED
      BY <2>1, <2>2 DEF BehindOf
  <1>4. PlaceOf(h, k) \in Places /\ PlaceOf(h, k) \in Pointers
    <2>1. \A p \in Places : p \in Pointers
      BY QueueConstants DEF Places
    <2> QED
      BY <1>1, <2>1, PlacesDiffer
  <1>5. next[PlaceOf(h, k)] = XOR(NULL) <=> k = Len(contents[h])
    BY <1>1, <1>2, <1>3, MaskUndone
  <1>6. next' = [next EXCEPT ![e] = XOR(BehindOf(h, k)), ![PlaceOf(h, k)] = XOR(e)]
    BY <1>2 DEF Link
  <1>7. /\ last' \in [Heads -> Pointers]
        /\ HasLast => last' = IF k = Len(contents[h]) THEN [last EXCEPT ![h] = XOR(e)] ELSE last
    <2>1. XOR(e) \in Pointers
      BY <1>1, <1>3, MaskUndone
    <2> QED
      BY <1>1, <1>5, <2>1 DEF Link
  <1>8. /\ prev' \in [Elements -> Pointers]
        /\ Doubly => prev' = [x \in Elements |-> IF x = e THEN PlaceOf(h, k)
                                                ELSE IF x = BehindOf(h, k) THEN e ELSE prev[x]]
    <2>1. CASE Doubly
      <3>1. next[PlaceOf(h, k)] = BehindOf(h, k)
        BY <1>1, <1>2, <1>3, <2>1, NoMask
      <3>2. prev' = [x \in Elements |-> IF x = e THEN PlaceOf(h, k)
                                        ELSE IF x = BehindOf(h, k) THEN e ELSE prev[x]]
        BY <2>1, <3>1 DEF Link
      <3> QED
        BY <1>1, <1>3, <1>4, <3>2
    <2>2. CASE ~ Doubly
      BY <1>1, <2>2 DEF Link
    <2> QED
      BY <2>1, <2>2
  <1> QED
    BY <1>6, <1>7, <1>8, Inserted

\* The element behind the (k - 1)-th place that UnlinkAfter takes out of a singly
\* linked queue.
LEMMA UnlinkStep ==
    ASSUME QueueInv, ~ Doubly, NEW h \in Heads, NEW k \in 1 .. Len(contents[h]), NEW t \in Seq(Elements),
           contents' = [contents EXCEPT ![h] = t], IsRemove(t, contents[h], k),
           UnlinkAfter(h, PlaceOf(h, k - 1)), UNCHANGED <<kind, cookie>>
    PROVE  QueueInv'
  <1>1. QueueShape /\ cookie \in Pointers /\ last \in [Heads -> Pointers] /\ prev \in [Elements -> Pointers]
    BY DEF QueueInv, QueueShape
  <1>2. /\ contents[h] \in Seq(Elements) /\ Len(contents[h]) \in Nat /\ k - 1 \in 0 .. Len(contents[h])
        /\ k \in 0 .. Len(contents[h]) /\ k # 0 /\ k - 1 < Len(contents[h]) /\ k - 1 + 1 = k
    BY <1>1 DEF QueueShape
  <1>3. /\ \A x \in Elements : x \in Pointers /\ x # NULL
        /\ NULL \in Pointers
        /\ \A p \in Places : p \in Pointers
    BY QueueConstants DEF NULL, Pointers, Places
  <1>4. /\ PlaceOf(h, k) \in Pointers /\ PlaceOf(h, k - 1) \in Pointers
        /\ BehindOf(h, k - 1) = PlaceOf(h, k)
        /\ BehindOf(h, k) \in Pointers /\ (BehindOf(h, k) = NULL <=> k = Len(contents[h]))
    <2>1. PlaceOf(h, k) \in Pointers /\ PlaceOf(h, k - 1) \in Pointers
      BY <1>1, <1>2, <1>3, PlacesDiffer
    <2>2. BehindOf(h, k - 1) = PlaceOf(h, k)
      BY <1>2 DEF PlaceOf, BehindOf
    <2>3. BehindOf(h, k) \in Pointers /\ (BehindOf(h, k) = NULL <=> k = Len(contents[h]))
      BY <1>2, <1>3 DEF BehindOf
    <2> QED
      BY <2>1, <2>2, <2>3
  <1>5. next[XOR(next[PlaceOf(h, k - 1)])] = XOR(BehindOf(h, k))
    <2>1. next[PlaceOf(h, k - 1)] = XOR(BehindOf(h, k - 1)) /\ next[PlaceOf(h, k)] = XOR(BehindOf(h, k))
      BY <1>2 DEF QueueInv
    <2>2. XOR(next[PlaceOf(h, k - 1)]) = PlaceOf(h, k)
      BY <1>1, <1>4, <2>1, MaskUndone
    <2> QED
      BY <2>1, <2>2
  <1>6. XOR(BehindOf(h, k)) = XOR(NULL) <=> k = Len(contents[h])
    BY <1>1, <1>3, <1>4, MaskUndone
  <1>7. next' = [next EXCEPT ![PlaceOf(h, k - 1)] = XOR(BehindOf(h, k))] /\ prev' = prev
    BY <1>5 DEF UnlinkAfter
  <1>8. /\ last' \in [Heads -> Pointers]
        /\ HasLast => last' = IF k = Len(contents[h]) THEN [last EXCEPT ![h] = XOR(PlaceOf(h, k - 1))]
                              ELSE last
    <2>1. XOR(PlaceOf(h, k - 1)) \in Pointers
      BY <1>1, <1>4, MaskUndone
    <2> QED
      BY <1>1, <1>5, <1>6, <2>1 DEF UnlinkAfter
  <1> QED
    BY <1>1, <1>7, <1>8, Removed

\* DMR_SLIST_INSERT_HEAD and its like.
LEMMA InsertHeadStep ==
    ASSUME QueueInv, NEW h \in Heads, NEW e \in Elements, Free(e), INSERT_HEAD(h, e),
           UNCHANGED <<kind, cookie>>
    PROVE  QueueInv'
  <1> DEFINE s == contents[h]
             t == <<e>> \o s
  <1>1. s \in Seq(Elements) /\ Len(s) \in Nat
    BY DEF QueueInv, QueueShape
  <1>2. <<e>> \in Seq(Elements) /\ Len(<<e>>) = 1 /\ <<e>>[1] = e
    OBVIOUS
  <1> HIDE DEF s
  <1>3. /\ t \in Seq(Elements) /\ Len(t) = 1 + Len(s)
        /\ \A i \in 1 .. 1 + Len(s) : t[i] = IF i <= 1 THEN <<e>>[i] ELSE s[i - 1]
    BY <1>1, <1>2, ConcatProperties
  <1>4. \A i \in 0 + 1 .. Len(s) : i + 1 \in 1 .. 1 + Len(s) /\ ~ (i + 1 <= 1) /\ i + 1 - 1 = i
    BY <1>1
  <1>5. t \in Seq(Elements) /\ IsInsert(t, s, 0, e)
    <2>1. t[1] = e /\ \A i \in 1 .. Len(s) : t[i + 1] = s[i]
      BY <1>1, <1>2, <1>3, <1>4
    <2> HIDE DEF t
    <2> QED
      BY <1>1, <1>3, <2>1 DEF IsInsert
  <1>6. contents' = [contents EXCEPT ![h] = t] /\ Link(h, h, e, next[h])
    BY DEF INSERT_HEAD, s
  <1>7. PlaceOf(h, 0) = h /\ 0 \in 0 .. Len(s)
    BY <1>1 DEF PlaceOf
  <1> HIDE DEF t
  <1> QED
    BY <1>5, <1>6, <1>7, LinkStep DEF s

\* DMR_SLIST_INSERT_AFTER and its like.
LEMMA InsertAfterStep ==
    ASSUME QueueInv, NEW h \in Heads, NEW l \in In(h), NEW e \in Elements, Free(e),
           INSERT_AFTER(h, l, e), UNCHANGED <<kind, cookie>>
    PROVE  QueueInv'
  <1> DEFINE k == Index(h, l)
             t == InsertAt(contents[h], k + 1, e)
  <1>1. contents[h] \in Seq(Elements) /\ Len(contents[h]) \in Nat
    BY DEF QueueInv, QueueShape
  <1>2. k \in 1 .. Len(contents[h]) /\ PlaceOf(h, k) = l
    BY IndexIs
  <1>3. contents' = [contents EXCEPT ![h] = t] /\ Link(h, l, e, next[l])
    BY DEF INSERT_AFTER
  <1> HIDE DEF k
  <1>4. k \in 0 .. Len(contents[h])
    BY <1>1, <1>2
  <1>5. t \in Seq(Elements) /\ IsInsert(t, contents[h], k, e)
    BY <1>1, <1>4, InsertedAt
  <1> HIDE DEF t
  <1> QED
    BY <1>2, <1>3, <1>4, <1>5, LinkStep

\* DMR_TAILQ_INSERT_TAIL: the element goes where the last pointer says.
LEMMA InsertTailStep ==
    ASSUME QueueInv, HasLast, NEW h \in Heads, NEW e \in Elements, Free(e), INSERT_TAIL(h, e),
           UNCHANGED <<kind, cookie>>
    PROVE  QueueInv'
  <1> SUFFICES ASSUME NEW k \in Nat, Len(contents[h]) = k PROVE QueueInv'
    BY DEF QueueInv, QueueShape
  <1> DEFINE t == Append(contents[h], e)
  <1>1. contents[h] \in Seq(Elements) /\ k \in Nat /\ QueueShape /\ cookie \in Pointers
        /\ last \in [Heads -> Pointers] /\ prev \in [Elements -> Pointers] /\ (Doubly => cookie = NULL)
    BY DEF QueueInv, QueueShape, Doubly
  <1>2. t \in Seq(Elements) /\ IsInsert(t, contents[h], k, e)
    <2>1. /\ t \in Seq(Elements) /\ Len(t) = k + 1
          /\ \A i \in 1 .. k : t[i] = contents[h][i]
          /\ t[k + 1] = e
      BY <1>1, AppendProperties
    <2> HIDE DEF t
    <2> QED
      BY <1>1, <2>1 DEF IsInsert
  <1>3. k \in 0 .. Len(contents[h])
    BY <1>1
  <1>4. PlaceOf(h, k) \in Pointers /\ PlaceOf(h, k) \in Places
    <2>1. \A p \in Places : p \in Pointers
      BY QueueConstants DEF Places
    <2> QED
      BY <1>1, <1>3, <2>1, PlacesDiffer
  <1>5. last[h] = XOR(PlaceOf(h, k))
    BY DEF QueueInv
  <1>6. XOR(last[h]) = PlaceOf(h, k)
    BY <1>1, <1>4, <1>5, MaskUndone
  <1>7. BehindOf(h, k) = NULL
    BY <1>1 DEF BehindOf
  <1>8. e \in Pointers /\ e # NULL
    BY QueueConstants DEF NULL, Pointers
  <1>9. XOR(e) \in Pointers
    BY <1>1, <1>8, MaskUndone
  <1>10. next' = [next EXCEPT ![e] = XOR(BehindOf(h, k)), ![PlaceOf(h, k)] = XOR(e)]
    BY <1>6, <1>7 DEF INSERT_TAIL
  <1>11. last' = [last EXCEPT ![h] = XOR(e)] /\ contents' = [contents EXCEPT ![h] = t]
    BY DEF INSERT_TAIL
  <1>12. /\ prev' \in [Elements -> Pointers]
         /\ Doubly => prev' = [x \in Elements |-> IF x = e THEN PlaceOf(h, k)
                                                 ELSE IF x = BehindOf(h, k) THEN e ELSE prev[x]]
    <2>1. CASE Doubly
      <3>1. last[h] = PlaceOf(h, k)
        BY <1>1, <1>4, <1>5, <2>1, NoMask
      <3>2. prev' = [prev EXCEPT ![e] = PlaceOf(h, k)]
        BY <2>1, <3>1 DEF INSERT_TAIL
      <3>3. \A x \in Elements : x # BehindOf(h, k)
        BY <1>7, QueueConstants DEF NULL, Pointers
      <3> QED
        BY <1>1, <1>4, <3>2, <3>3
    <2>2. CASE ~ Doubly
      BY <1>1, <2>2 DEF INSERT_TAIL
    <2> QED
      BY <2>1, <2>2
  <1>13. last' \in [Heads -> Pointers]
    BY <1>1, <1>9, <1>11
  <1> HIDE DEF t
  <1>14. last' = IF k = Len(contents[h]) THEN [last EXCEPT ![h] = XOR(e)] ELSE last
    BY <1>11
  <1> QED
    BY <1>2, <1>3, <1>10, <1>11, <1>12, <1>13, <1>14, Inserted

\* DMR_LIST_INSERT_BEFORE and DMR_TAILQ_INSERT_BEFORE: the element goes where
\* the back pointer says.
LEMMA InsertBeforeStep ==
    ASSUME QueueInv, Doubly, NEW h \in Heads, NEW l \in In(h), NEW e \in Elements, Free(e),
           INSERT_BEFORE(h, l, e), UNCHANGED <<kind, cookie>>
    PROVE  QueueInv'
  <1> DEFINE j == Index(h, l)
             k == j - 1
             t == InsertAt(contents[h], j, e)
  <1>1. contents[h] \in Seq(Elements) /\ Len(contents[h]) \in Nat /\ QueueShape /\ cookie = NULL
        /\ last \in [Heads -> Pointers] /\ prev \in [Elements -> Pointers]
    BY DEF QueueInv, QueueShape, Doubly
  <1>2. /\ j \in 1 .. Len(contents[h]) /\ PlaceOf(h, j) = l /\ BehindOf(h, k) = l /\ l \in Elements
    BY IndexIs
  <1>3. k \in 0 .. Len(contents[h]) /\ k # Len(contents[h]) /\ k + 1 = j
    BY <1>1, <1>2
  <1>4. t \in Seq(Elements) /\ IsInsert(t, contents[h], k, e)
    <2> HIDE DEF k
    <2> QED
      BY <1>1, <1>3, InsertedAt
  <1>5. prev[l] = PlaceOf(h, k)
    <2>1. prev[PlaceOf(h, j)] = PlaceOf(h, j - 1)
      BY <1>2 DEF QueueInv
    <2> QED
      BY <1>2, <2>1
  <1>6. contents' = [contents EXCEPT ![h] = t]
    BY DEF INSERT_BEFORE
  <1>7. PlaceOf(h, k) \in Places /\ PlaceOf(h, k) \in Pointers /\ e \in Pointers /\ l \in Pointers
    <2>1. \A p \in Places : p \in Pointers
      BY QueueConstants DEF Places
    <2> HIDE DEF k
    <2> QED
      BY <1>1, <1>2, <1>3, <2>1, PlacesDiffer DEF Places
  <1>8. e # l
    BY <1>2, <1>1, PlacesDiffer
  <1>9. next' = [next EXCEPT ![e] = XOR(BehindOf(h, k)), ![PlaceOf(h, k)] = XOR(e)]
    <2>1. XOR(l) = l /\ XOR(e) = e
      BY <1>1, <1>7, NoMask
    <2> QED
      BY <1>2, <1>5, <2>1 DEF INSERT_BEFORE
  <1> HIDE DEF k, t, j
  <1>10. /\ prev' \in [Elements -> Pointers]
         /\ prev' = [x \in Elements |-> IF x = e THEN PlaceOf(h, k)
                                        ELSE IF x = BehindOf(h, k) THEN e ELSE prev[x]]
    <2>1. prev' = [prev EXCEPT ![e] = PlaceOf(h, k), ![l] = e]
      BY <1>5 DEF INSERT_BEFORE
    <2> QED
      BY <1>1, <1>2, <1>7, <1>8, <2>1
  <1>11. last' = last
    BY DEF INSERT_BEFORE
  <1> QED
    BY <1>1, <1>3, <1>4, <1>6, <1>9, <1>10, <1>11, Inserted

\* DMR_SLIST_REMOVE_HEAD and its like.
LEMMA RemoveHeadStep ==
    ASSUME QueueInv, ~ Doubly, NEW h \in Heads, contents[h] # <<>>, REMOVE_HEAD(h),
           UNCHANGED <<kind, cookie>>
    PROVE  QueueInv'
  <1> DEFINE t == Tail(contents[h])
  <1>1. contents[h] \in Seq(Elements) /\ Len(contents[h]) \in Nat
    BY DEF QueueInv, QueueShape
  <1>2. 1 \in 1 .. Len(contents[h]) /\ PlaceOf(h, 1 - 1) = h
    BY <1>1 DEF PlaceOf
  <1>3. t \in Seq(Elements) /\ IsRemove(t, contents[h], 1)
    <2>1. /\ t \in Seq(Elements) /\ Len(t) = Len(contents[h]) - 1
          /\ \A i \in 1 .. Len(contents[h]) - 1 : t[i] = contents[h][i + 1]
      BY <1>1, HeadTailProperties
    <2> HIDE DEF t
    <2> QED
      BY <2>1 DEF IsRemove
  <1>4. contents' = [contents EXCEPT ![h] = t] /\ UnlinkAfter(h, h)
    BY DEF REMOVE_HEAD
  <1> HIDE DEF t
  <1> QED
    BY <1>2, <1>3, <1>4, UnlinkStep

\* DMR_SLIST_REMOVE_AFTER and its like, given an element with one behind it.
LEMMA RemoveAfterStep ==
    ASSUME QueueInv, ~ Doubly, NEW h \in Heads, NEW e, HasNext(h, e), REMOVE_AFTER(h, e),
           UNCHANGED <<kind, cookie>>
    PROVE  QueueInv'
  <1> DEFINE j == Index(h, e)
             k == j + 1
             t == RemoveAt(contents[h], k)
  <1>1. contents[h] \in Seq(Elements) /\ Len(contents[h]) \in Nat
    BY DEF QueueInv, QueueShape
  <1>2. /\ j \in 1 .. Len(contents[h]) /\ PlaceOf(h, j) = e /\ contents[h][j] = e
    BY IndexIs DEF HasNext
  <1>3. j # Len(contents[h])
    BY <1>2 DEF HasNext, Last
  <1> HIDE DEF j
  <1>4. k \in 1 .. Len(contents[h]) /\ k - 1 = j
    BY <1>1, <1>2, <1>3
  <1>5. contents' = [contents EXCEPT ![h] = t] /\ UnlinkAfter(h, e)
    BY DEF REMOVE_AFTER, j
  <1> HIDE DEF k
  <1>6. t \in Seq(Elements) /\ IsRemove(t, contents[h], k)
    BY <1>1, <1>4, RemovedAt
  <1> HIDE DEF t
  <1>7. UnlinkAfter(h, PlaceOf(h, k - 1))
    BY <1>2, <1>4, <1>5
  <1> QED
    BY <1>4, <1>5, <1>6, <1>7, UnlinkStep

\* DMR_SLIST_REMOVE: the place that the search finds is the one in front of the
\* element.
LEMMA SListRemoveStep ==
    ASSUME QueueInv, kind = "SLIST", NEW h \in Heads, NEW e \in In(h), SLIST_REMOVE(h, e),
           UNCHANGED <<kind, cookie>>
    PROVE  QueueInv'
  <1> DEFINE k == Index(h, e)
             t == RemoveAt(contents[h], k)
  <1>1. /\ contents[h] \in Seq(Elements) /\ Len(contents[h]) \in Nat /\ QueueShape /\ cookie = NULL
        /\ ~ Doubly /\ DOMAIN contents[h] = 1 .. Len(contents[h])
    BY DEF QueueInv, QueueShape, Doubly
  <1>2. /\ k \in 1 .. Len(contents[h]) /\ e \in Elements
        /\ \A i \in 1 .. Len(contents[h]) : contents[h][i] = e => i = k
    BY IndexIs
  <1>3. /\ \A x \in Elements : x \in Pointers /\ x # NULL
        /\ NULL \in Pointers
    BY QueueConstants DEF NULL, Pointers
  <1>4. PICK p \in {h} \cup ToSet(contents[h]) : next[p] = e /\ UnlinkAfter(h, p)
    BY DEF SLIST_REMOVE
  <1>5. contents' = [contents EXCEPT ![h] = t]
    BY DEF SLIST_REMOVE
  <1> HIDE DEF k
  <1>6. \E j \in 0 .. Len(contents[h]) : p = PlaceOf(h, j)
    <2>1. CASE p = h
      BY <1>1, <2>1 DEF PlaceOf
    <2>2. CASE p \in ToSet(contents[h])
      <3>1. PICK i \in 1 .. Len(contents[h]) : contents[h][i] = p
        BY <1>1, <2>2 DEF ToSet
      <3>2. i \in 0 .. Len(contents[h]) /\ i # 0
        BY <1>1
      <3> QED
        BY <3>1, <3>2 DEF PlaceOf
    <2> QED
      BY <1>4, <2>1, <2>2
  <1>7. PICK j \in 0 .. Len(contents[h]) : p = PlaceOf(h, j)
    BY <1>6
  <1>8. j + 1 \in 1 .. Len(contents[h]) /\ contents[h][j + 1] = e
    <2>1. next[PlaceOf(h, j)] = XOR(BehindOf(h, j))
      BY DEF QueueInv
    <2>2. BehindOf(h, j) \in Pointers
      BY <1>1, <1>3 DEF BehindOf
    <2>3. BehindOf(h, j) = e
      BY <1>1, <1>4, <1>7, <2>1, <2>2, NoMask
    <2> QED
      BY <1>1, <1>2, <1>3, <2>3 DEF BehindOf
  <1>9. k - 1 = j
    BY <1>2, <1>8
  <1>10. t \in Seq(Elements) /\ IsRemove(t, contents[h], k)
    BY <1>1, <1>2, RemovedAt
  <1> HIDE DEF t
  <1>11. UnlinkAfter(h, PlaceOf(h, k - 1))
    BY <1>4, <1>7, <1>9
  <1> QED
    BY <1>1, <1>2, <1>5, <1>10, <1>11, UnlinkStep

\* What the fields of an element of a doubly linked queue say.
LEMMA ElementFields ==
    ASSUME QueueInv, Doubly, NEW h \in Heads, NEW e \in In(h)
    PROVE  LET k == Index(h, e)
           IN  /\ cookie = NULL /\ k \in 1 .. Len(contents[h]) /\ e \in Elements
               /\ prev[e] = PlaceOf(h, k - 1) /\ next[e] = BehindOf(h, k)
               /\ PlaceOf(h, k - 1) \in Pointers /\ PlaceOf(h, k - 1) \in Places
               /\ BehindOf(h, k) \in Pointers /\ (BehindOf(h, k) = NULL <=> k = Len(contents[h]))
  <1> DEFINE k == Index(h, e)
  <1>1. /\ contents[h] \in Seq(Elements) /\ Len(contents[h]) \in Nat /\ QueueShape /\ cookie = NULL
    BY DEF QueueInv, QueueShape, Doubly
  <1>2. k \in 1 .. Len(contents[h]) /\ e \in Elements /\ PlaceOf(h, k) = e
    BY IndexIs
  <1> HIDE DEF k
  <1>3. k \in 0 .. Len(contents[h]) /\ k - 1 \in 0 .. Len(contents[h]) /\ k # 0
    BY <1>1, <1>2
  <1>4. /\ \A x \in Elements : x \in Pointers /\ x # NULL
        /\ NULL \in Pointers
        /\ \A p \in Places : p \in Pointers
    BY QueueConstants DEF NULL, Pointers, Places
  <1>5. prev[PlaceOf(h, k)] = PlaceOf(h, k - 1) /\ next[PlaceOf(h, k)] = XOR(BehindOf(h, k))
    BY <1>2, <1>3 DEF QueueInv
  <1>6. BehindOf(h, k) \in Pointers /\ (BehindOf(h, k) = NULL <=> k = Len(contents[h]))
    BY <1>1, <1>3, <1>4 DEF BehindOf
  <1>7. XOR(BehindOf(h, k)) = BehindOf(h, k)
    BY <1>1, <1>6, NoMask
  <1>8. PlaceOf(h, k - 1) \in Places /\ PlaceOf(h, k - 1) \in Pointers
    BY <1>1, <1>3, <1>4, PlacesDiffer
  <1> QED
    BY <1>1, <1>2, <1>5, <1>6, <1>7, <1>8 DEF k

\* DMR_LIST_REMOVE and DMR_TAILQ_REMOVE: the element behind, or the head, takes
\* the back pointer of the one that goes.
LEMMA RemoveStep ==
    ASSUME QueueInv, Doubly, NEW h \in Heads, NEW e \in In(h), REMOVE(h, e),
           UNCHANGED <<kind, cookie>>
    PROVE  QueueInv'
  <1> DEFINE k == Index(h, e)
             t == RemoveAt(contents[h], k)
  <1>1. /\ contents[h] \in Seq(Elements) /\ Len(contents[h]) \in Nat /\ QueueShape
        /\ last \in [Heads -> Pointers] /\ prev \in [Elements -> Pointers]
    BY DEF QueueInv, QueueShape
  <1>2. /\ cookie = NULL /\ k \in 1 .. Len(contents[h])
        /\ prev[e] = PlaceOf(h, k - 1) /\ next[e] = BehindOf(h, k)
        /\ PlaceOf(h, k - 1) \in Pointers /\ PlaceOf(h, k - 1) \in Places
        /\ BehindOf(h, k) \in Pointers /\ (BehindOf(h, k) = NULL <=> k = Len(contents[h]))
    BY ElementFields
  <1>3. XOR(PlaceOf(h, k - 1)) = PlaceOf(h, k - 1) /\ XOR(BehindOf(h, k)) = BehindOf(h, k)
    <2> HIDE DEF k
    <2> QED
      BY <1>2, NoMask
  <1>4. contents' = [contents EXCEPT ![h] = t]
    BY DEF REMOVE
  <1> HIDE DEF k
  <1>5. next' = [next EXCEPT ![PlaceOf(h, k - 1)] = XOR(BehindOf(h, k))]
    BY <1>2, <1>3 DEF REMOVE
  <1>6. /\ prev' = IF k = Len(contents[h]) THEN prev
                   ELSE [prev EXCEPT ![BehindOf(h, k)] = PlaceOf(h, k - 1)]
        /\ prev' \in [Elements -> Pointers]
    BY <1>1, <1>2 DEF REMOVE
  <1>7. /\ HasLast => last' = IF k = Len(contents[h]) THEN [last EXCEPT ![h] = XOR(PlaceOf(h, k - 1))]
                              ELSE last
        /\ last' \in [Heads -> Pointers]
    BY <1>1, <1>2, <1>3 DEF REMOVE
  <1>8. t \in Seq(Elements) /\ IsRemove(t, contents[h], k)
    BY <1>1, <1>2, RemovedAt
  <1> HIDE DEF t
  <1> QED
    BY <1>2, <1>4, <1>5, <1>6, <1>7, <1>8, Removed

\* DMR_LIST_REPLACE and DMR_TAILQ_REPLACE.
LEMMA ReplaceStep ==
    ASSUME QueueInv, Doubly, NEW h \in Heads, NEW e \in In(h), NEW f \in Elements, Free(f),
           REPLACE(h, e, f), UNCHANGED <<kind, cookie>>
    PROVE  QueueInv'
  <1> DEFINE k == Index(h, e)
  <1>1. contents \in [Heads -> Seq(Elements)]
    BY DEF QueueInv, QueueShape
  <1>2. /\ k \in 1 .. Len(contents[h])
        /\ prev[e] = PlaceOf(h, k - 1) /\ next[e] = BehindOf(h, k)
        /\ BehindOf(h, k) = NULL <=> k = Len(contents[h])
    BY ElementFields
  <1>3. contents' = [contents EXCEPT ![h][k] = f]
    BY DEF REPLACE
  <1> HIDE DEF k
  <1>4. contents' = [contents EXCEPT ![h] = [contents[h] EXCEPT ![k] = f]]
    BY <1>1, <1>3
  <1>5. /\ next' = [next EXCEPT ![f] = BehindOf(h, k), ![PlaceOf(h, k - 1)] = f]
        /\ last' = IF k = Len(contents[h]) /\ HasLast THEN [last EXCEPT ![h] = f] ELSE last
        /\ prev' = [x \in Elements |-> IF x = f THEN PlaceOf(h, k - 1)
                                       ELSE IF x = BehindOf(h, k) THEN f ELSE prev[x]]
    BY <1>2 DEF REPLACE
  <1> QED
    BY <1>2, <1>4, <1>5, Replaced

\* DMR_SIMPLEQ_CONCAT and DMR_TAILQ_CONCAT, of an empty queue too.
LEMMA ConcatStep ==
    ASSUME QueueInv, HasLast, cookie = NULL, NEW h \in Heads, NEW g \in Heads, h # g, CONCAT(h, g),
           UNCHANGED <<kind, cookie>>
    PROVE  QueueInv'
  <1> SUFFICES ASSUME NEW n \in Nat, NEW m \in Nat, Len(contents[h]) = n, Len(contents[g]) = m
               PROVE  QueueInv'
    BY DEF QueueInv, QueueShape
  <1>1. /\ contents \in [Heads -> Seq(Elements)] /\ contents[h] \in Seq(Elements)
        /\ contents[g] \in Seq(Elements) /\ QueueShape
        /\ next \in [Places -> Pointers] /\ last \in [Heads -> Pointers] /\ prev \in [Elements -> Pointers]
    BY DEF QueueInv, QueueShape
  <1>2. /\ \A x \in Elements : x \in Pointers /\ x # NULL
        /\ NULL \in Pointers
        /\ \A p \in Places : p \in Pointers
    BY QueueConstants DEF NULL, Pointers, Places
  <1>3. next[g] = BehindOf(g, 0)
    <2>1. 0 \in 0 .. Len(contents[g]) /\ PlaceOf(g, 0) = g
      BY DEF PlaceOf
    <2>2. next[g] = XOR(BehindOf(g, 0))
      BY <2>1 DEF QueueInv
    <2>3. BehindOf(g, 0) \in Pointers
      BY <1>1, <1>2 DEF BehindOf
    <2> QED
      BY <1>2, <2>2, <2>3, NoMask
  <1>4. CASE m = 0
    <2>1. contents[g] = <<>>
      BY <1>1, <1>4
    <2>2. next[g] = NULL
      BY <1>3, <1>4 DEF BehindOf
    <2>3. UNCHANGED <<next, prev, last>>
      BY <2>2 DEF CONCAT
    <2>4. contents[h] \o contents[g] = contents[h]
      BY <1>1, <2>1
    <2>5. contents' = [contents EXCEPT ![h] = contents[h] \o contents[g], ![g] = <<>>]
      BY DEF CONCAT
    <2>6. contents' = contents
      <3>1. contents' = [contents EXCEPT ![h] = contents[h], ![g] = <<>>]
        BY <2>4, <2>5, Zenon
      <3> QED
        BY <1>1, <2>1, <3>1
    <2> QED
      BY <2>3, <2>6 DEF QueueInv, QueueShape, PlaceOf, BehindOf, XOR, HasLast, Doubly
  <1>5. CASE m > 0
    <2> DEFINE t == contents[h] \o contents[g]
    <2>1. t \in Seq(Elements) /\ IsJoin(t, contents[h], contents[g])
      <3>1. /\ t \in Seq(Elements) /\ Len(t) = n + m
            /\ \A i \in 1 .. n + m : t[i] = IF i <= n THEN contents[h][i] ELSE contents[g][i - n]
        <4>1. \A s, r \in Seq(Elements) :
                 /\ s \o r \in Seq(Elements) /\ Len(s \o r) = Len(s) + Len(r)
                 /\ \A i \in 1 .. Len(s) + Len(r) :
                      (s \o r)[i] = IF i <= Len(s) THEN s[i] ELSE r[i - Len(s)]
          BY ConcatProperties
        <4> QED
          BY <1>1, <4>1
      <3> HIDE DEF t
      <3>2. \A i \in 1 .. n : t[i] = contents[h][i]
        BY <3>1
      <3>3. \A i \in n + 1 .. n + m : t[i] = contents[g][i - n]
        BY <3>1
      <3>4. IsJoin(t, contents[h], contents[g])
        <4>1. Len(t) = Len(contents[h]) + Len(contents[g])
          BY <1>1, <3>1
        <4>2. \A i \in 1 .. Len(contents[h]) : t[i] = contents[h][i]
          BY <1>1, <3>2
        <4>3. \A i \in Len(contents[h]) + 1 .. Len(contents[h]) + Len(contents[g]) :
                  t[i] = contents[g][i - Len(contents[h])]
          BY <1>1, <3>3
        <4> QED
          BY <4>1, <4>2, <4>3, Zenon DEF IsJoin
      <3> QED
        BY <3>1, <3>4
    <2>2. /\ 0 < Len(contents[g]) /\ 1 \in 1 .. m /\ 0 + 1 = 1 /\ m \in 0 .. m /\ n \in 0 .. n
      BY <1>5
    <2>3. next[g] = PlaceOf(g, 1) /\ next[g] # NULL
      BY <1>1, <1>2, <1>3, <2>2 DEF PlaceOf, BehindOf
    <2>4. last[h] = PlaceOf(h, n) /\ last[g] = PlaceOf(g, m)
      <3>1. last[h] = XOR(PlaceOf(h, n)) /\ last[g] = XOR(PlaceOf(g, m))
        BY DEF QueueInv
      <3>2. PlaceOf(h, n) \in Pointers /\ PlaceOf(g, m) \in Pointers
        BY <1>1, <1>2, <2>2, PlacesDiffer
      <3> QED
        BY <3>1, <3>2, NoMask
    <2>5. contents' = [contents EXCEPT ![h] = t, ![g] = <<>>]
      BY DEF CONCAT
    <2>6. /\ next' = [next EXCEPT ![PlaceOf(h, n)] = PlaceOf(g, 1), ![g] = NULL]
          /\ last' = [last EXCEPT ![h] = PlaceOf(g, m), ![g] = g]
          /\ prev' = IF Doubly THEN [prev EXCEPT ![PlaceOf(g, 1)] = PlaceOf(h, n)] ELSE prev
      BY <2>3, <2>4 DEF CONCAT
    <2> HIDE DEF t
    <2>7. Joined(h, g, n, m, t, <<>>)
      BY <2>5, <2>6 DEF Joined
    <2>8. <<>> \in Seq(Elements) /\ Len(<<>>) = 0
      OBVIOUS
    <2> QED
      BY <1>5, <2>1, <2>7, <2>8, Concatenated
  <1> QED
    BY <1>4, <1>5

\* Empty queues, whatever the kind and the cookie.
LEMMA QueueStart == QueueInit => QueueInv
  <1> SUFFICES ASSUME QueueInit PROVE QueueInv
    OBVIOUS
  <1>1. /\ kind \in Kinds /\ cookie \in Pointers /\ (kind # "XSIMPLEQ" => cookie = NULL)
    BY QueueConstants DEF QueueInit, Pointers, NULL
  <1>2. /\ \A h \in Heads : h \in Pointers /\ h \in Places
        /\ NULL \in Pointers
    BY QueueConstants DEF Places, NULL, Pointers
  <1>3. \A p \in Pointers : XOR(p) \in Pointers
    BY <1>1, MaskUndone
  <1>4. /\ next = [p \in Places |-> XOR(NULL)] /\ prev = [e \in Elements |-> NULL]
        /\ last = [h \in Heads |-> XOR(h)] /\ contents = [h \in Heads |-> <<>>]
    BY DEF QueueInit
  <1>5. \A h \in Heads : contents[h] = <<>> /\ Len(contents[h]) = 0
    BY <1>4
  <1>6. QueueShape
    <2>1. /\ next \in [Places -> Pointers] /\ prev \in [Elements -> Pointers] /\ last \in [Heads -> Pointers]
      BY <1>2, <1>3, <1>4
    <2>2. contents \in [Heads -> Seq(Elements)]
      BY <1>4
    <2> QED
      BY <1>1, <1>5, <2>1, <2>2 DEF QueueShape
  <1>7. \A h \in Heads : \A i \in 0 .. Len(contents[h]) :
           i = 0 /\ PlaceOf(h, i) = h /\ BehindOf(h, i) = NULL
    BY <1>5 DEF PlaceOf, BehindOf
  <1>8. \A h \in Heads : \A i \in 0 .. Len(contents[h]) : next[PlaceOf(h, i)] = XOR(BehindOf(h, i))
    BY <1>2, <1>4, <1>7
  <1>9. \A h \in Heads : last[h] = XOR(PlaceOf(h, Len(contents[h])))
    BY <1>4, <1>5 DEF PlaceOf
  <1>10. \A h \in Heads : \A i \in 1 .. Len(contents[h]) : FALSE
    BY <1>5
  <1> QED
    BY <1>6, <1>8, <1>9, <1>10 DEF QueueInv

\* Every operation of every kind keeps the pointers in the order of the queue.
LEMMA QueueStep == QueueInv /\ [QueueNext]_queueVars => QueueInv'
  <1> SUFFICES ASSUME QueueInv, [QueueNext]_queueVars PROVE QueueInv'
    OBVIOUS
  <1>1. \A e \in Unused : e \in Elements /\ Free(e)
    BY DEF Unused
  <1>2. kind # "XSIMPLEQ" => cookie = NULL
    BY DEF QueueInv, QueueShape
  <1>3. CASE kind = "SLIST" /\ SLIST /\ UNCHANGED <<kind, cookie>>
    <2>1. ~ Doubly /\ kind = "SLIST"
      BY <1>3 DEF Doubly
    <2>2. CASE \E h \in Heads, e \in Unused :
                  INSERT_HEAD(h, e) \/ \E l \in In(h) : INSERT_AFTER(h, l, e)
      BY <1>1, <1>3, <2>2, InsertHeadStep, InsertAfterStep
    <2>3. CASE \E h \in Heads : contents[h] # <<>> /\ REMOVE_HEAD(h)
      BY <1>3, <2>1, <2>3, RemoveHeadStep
    <2>4. CASE \E h \in Heads : \E e \in In(h) :
                  SLIST_REMOVE(h, e) \/ (HasNext(h, e) /\ REMOVE_AFTER(h, e))
      BY <1>3, <2>1, <2>4, SListRemoveStep, RemoveAfterStep
    <2> QED
      BY <1>3, <2>2, <2>3, <2>4 DEF SLIST
  <1>4. CASE LIST /\ Doubly /\ UNCHANGED <<kind, cookie>>
    <2>1. CASE \E h \in Heads, e \in Unused :
                  \/ INSERT_HEAD(h, e)
                  \/ \E l \in In(h) : INSERT_AFTER(h, l, e) \/ INSERT_BEFORE(h, l, e) \/ REPLACE(h, l, e)
      BY <1>1, <1>4, <2>1, InsertHeadStep, InsertAfterStep, InsertBeforeStep, ReplaceStep
    <2>2. CASE \E h \in Heads : \E e \in In(h) : REMOVE(h, e)
      BY <1>4, <2>2, RemoveStep
    <2> QED
      BY <1>4, <2>1, <2>2 DEF LIST
  <1>5. CASE XSIMPLEQ /\ HasLast /\ ~ Doubly /\ UNCHANGED <<kind, cookie>>
    <2>1. CASE \E h \in Heads, e \in Unused :
                  INSERT_HEAD(h, e) \/ INSERT_TAIL(h, e) \/ \E l \in In(h) : INSERT_AFTER(h, l, e)
      BY <1>1, <1>5, <2>1, InsertHeadStep, InsertTailStep, InsertAfterStep
    <2>2. CASE \E h \in Heads : contents[h] # <<>> /\ REMOVE_HEAD(h)
      BY <1>5, <2>2, RemoveHeadStep
    <2>3. CASE \E h \in Heads : \E e \in In(h) : HasNext(h, e) /\ REMOVE_AFTER(h, e)
      BY <1>5, <2>3, RemoveAfterStep
    <2> QED
      BY <1>5, <2>1, <2>2, <2>3 DEF XSIMPLEQ
  <1>6. CASE (\E h, g \in Heads : h # g /\ CONCAT(h, g)) /\ HasLast /\ cookie = NULL
             /\ UNCHANGED <<kind, cookie>>
    BY <1>6, ConcatStep
  <1>7. CASE (\E h \in Heads, e \in Unused : INSERT_TAIL(h, e)) /\ HasLast /\ UNCHANGED <<kind, cookie>>
    BY <1>1, <1>7, InsertTailStep
  <1>8. CASE UNCHANGED queueVars
    BY <1>8 DEF queueVars, QueueInv, QueueShape, PlaceOf, BehindOf, XOR, HasLast, Doubly
  <1>9. /\ kind = "LIST" => Doubly
        /\ kind = "SIMPLEQ" => HasLast /\ ~ Doubly /\ cookie = NULL
        /\ kind = "XSIMPLEQ" => HasLast /\ ~ Doubly
        /\ kind = "TAILQ" => HasLast /\ Doubly /\ cookie = NULL
    BY <1>2 DEF HasLast, Doubly
  <1> QED
    BY <1>3, <1>4, <1>5, <1>6, <1>7, <1>8, <1>9 DEF QueueNext, SIMPLEQ, TAILQ

\* Every list and queue of queue.h, of any number of heads and elements, at any
\* addresses and with any cookies, after any calls of its macros: walked from its
\* head it is the sequence those calls make, an append finds the place of its
\* NULL, and a tail queue walked backwards is the same sequence reversed.
THEOREM QueuesHold == QueueSpec => []QueuesAsSequences
  <1>1. QueueInit => QueueInv
    BY QueueStart
  <1>2. QueueInv /\ [QueueNext]_queueVars => QueueInv'
    BY QueueStep
  <1>3. QueueInv => QueuesAsSequences
    BY QueueWalks
  <1> QED
    BY <1>1, <1>2, <1>3, PTL DEF QueueSpec
-----------------------------------------------------------------------------
(***************************************************************************)
(* The addresses of http_parser_parse_url.                                 *)
(***************************************************************************)
\* Steps that lead from base through the sets of holds, a recursion along them,
\* and two recursions that begin alike and go on alike.
Leads(base, step, holds, n) ==
    base \in holds[0] /\ \A k \in 1 .. n : \A u \in holds[k - 1] : step[<<u, k>>] \in holds[k]
Follows(f, base, step, holds, n) ==
    /\ f[0] = base /\ \A k \in 1 .. n : f[k] = step[<<f[k - 1], k>>]
    /\ \A k \in 0 .. n : f[k] \in holds[k]
Alike(f, g, n) == f[0] = g[0] /\ \A k \in 1 .. n : f[k - 1] = g[k - 1] => f[k] = g[k]

\* A recursion over 1 .. n has a solution, and each of its values is where the
\* steps lead: Through, the loops over characters of http_parser.c.
LEMMA FoldKeeps ==
    ASSUME NEW n \in Nat, NEW base, NEW step, NEW holds, Leads(base, step, holds, n)
    PROVE  \E f : Follows(f, base, step, holds, n)
  <1> USE DEF Leads, Follows
  <1> DEFINE Fold(f, m) == /\ f[0] = base /\ \A k \in 1 .. m : f[k] = step[<<f[k - 1], k>>]
                           /\ \A k \in 0 .. m : f[k] \in holds[k]
             S == {m \in 0 .. n : ~ \E f : Fold(f, m)}
  <1>1. SUFFICES ASSUME S # {} PROVE FALSE
    <2>1. n \in 0 .. n /\ n \notin S => \E f : Fold(f, n)
      OBVIOUS
    <2>2. n \in 0 .. n /\ n \notin {}
      OBVIOUS
    <2> HIDE DEF S
    <2>3. S = {} \/ S # {}
      OBVIOUS
    <2> QED
      BY <1>1, <2>1, <2>2, <2>3
  <1>0. S \in SUBSET Nat
    OBVIOUS
  <1>2. PICK m \in S : \A i \in S : m <= i
    <2> HIDE DEF S
    <2> QED
      BY <1>0, <1>1, LeastElement
  <1>3. CASE m = 0
    <2> DEFINE f == [k \in 0 .. 0 |-> base]
    <2>1. Fold(f, 0)
      OBVIOUS
    <2> QED
      BY <1>2, <1>3, <2>1
  <1>4. CASE m # 0
    <2>1. m \in 1 .. n /\ m - 1 \in 0 .. n /\ m - 1 \notin S
      <3>1. m \in 0 .. n
        OBVIOUS
      <3> HIDE DEF S
      <3> QED
        BY <1>2, <1>4, <3>1
    <2>2. PICK f : Fold(f, m - 1)
      BY <2>1
    <2> DEFINE g == [k \in 0 .. m |-> IF k < m THEN f[k] ELSE step[<<f[m - 1], m>>]]
    <2>3. f[m - 1] \in holds[m - 1]
      BY <2>1, <2>2
    <2>4. step[<<f[m - 1], m>>] \in holds[m]
      BY <2>1, <2>3
    <2>5. \A k \in 0 .. m : g[k] \in holds[k]
      <3> SUFFICES ASSUME NEW k \in 0 .. m PROVE g[k] \in holds[k]
        OBVIOUS
      <3>1. CASE k < m
        BY <2>1, <2>2, <3>1
      <3>2. CASE k = m
        BY <2>1, <2>4, <3>2
      <3> QED
        BY <2>1, <3>1, <3>2
    <2>6. g[0] = base /\ \A k \in 1 .. m : g[k] = step[<<g[k - 1], k>>]
      <3>1. g[0] = base
        BY <2>1, <2>2
      <3> SUFFICES ASSUME NEW k \in 1 .. m PROVE g[k] = step[<<g[k - 1], k>>]
        BY <3>1
      <3>2. k - 1 \in 0 .. m /\ g[k - 1] = f[k - 1]
        BY <2>1
      <3>3. CASE k < m
        <4>1. k \in 1 .. m - 1
          BY <2>1, <3>3
        <4> QED
          BY <2>2, <3>2, <3>3, <4>1
      <3>4. CASE k = m
        BY <2>1, <3>2, <3>4
      <3> QED
        BY <2>1, <3>3, <3>4
    <2> HIDE DEF g
    <2>7. Fold(g, m)
      BY <2>5, <2>6
    <2> QED
      BY <1>2, <2>7
  <1> QED
    BY <1>3, <1>4

\* Two recursions that begin alike and go on alike are the same.
LEMMA SameFold ==
    ASSUME NEW n \in Nat, NEW f, NEW g, Alike(f, g, n)
    PROVE  \A k \in 0 .. n : f[k] = g[k]
  <1> DEFINE S == {k \in 0 .. n : f[k] # g[k]}
  <1> SUFFICES ASSUME S # {} PROVE FALSE
    OBVIOUS
  <1>1. PICK m \in S : \A i \in S : m <= i
    <2>1. S \in SUBSET Nat
      OBVIOUS
    <2> HIDE DEF S
    <2> QED
      BY <2>1, LeastElement
  <1>2. m \in 1 .. n /\ m - 1 \in 0 .. n /\ m - 1 \notin S
    BY <1>1 DEF Alike
  <1> QED
    BY <1>1, <1>2 DEF Alike

\* The fields in the order in which they stand, and the fields of the states.
LEMMA FieldNames ==
    /\ Position["SCHEMA"] = 1 /\ Position["USERINFO"] = 2 /\ Position["HOST"] = 3
    /\ Position["PORT"] = 4 /\ Position["PATH"] = 5 /\ Position["QUERY"] = 6
    /\ Position["FRAGMENT"] = 7
    /\ \A f \in UrlFields : Position[f] \in 1 .. 7
    /\ \A f, g \in UrlFields : Position[f] = Position[g] => f = g
  BY DEF Position, UrlFields

\* The last field that may have begun in a state, and the states there are.
UrlRank == [s_req_spaces_before_url |-> 0, s_req_schema |-> 1, s_req_schema_slash |-> 1,
            s_req_schema_slash_slash |-> 1, s_req_server_start |-> 1, s_req_server |-> 3,
            s_req_server_with_at |-> 3, s_req_path |-> 5, s_req_query_string_start |-> 5,
            s_req_query_string |-> 6, s_req_fragment_start |-> 6, s_req_fragment |-> 7]
UrlStates == DOMAIN UrlRank
Delimiters == {":", "/", "@", "[", "]", "?", "#"}

\* A field that goes on in a state is the last that may have begun there.
LEMMA UrlStateFields ==
    /\ DOMAIN FieldOf \subseteq UrlStates
    /\ \A s \in UrlStates : UrlRank[s] \in 0 .. 7
    /\ \A s \in DOMAIN FieldOf : /\ FieldOf[s] \in UrlFields \ {"PORT", "USERINFO"}
                                 /\ UrlRank[s] = Position[FieldOf[s]]
  BY DEF FieldOf, UrlStates, UrlRank, UrlFields, Position

\* What a character of a URL may do to the state: it is a delimiter, continues
\* the field it stands behind, or begins a later one.
LEMMA UrlMoves ==
    ASSUME NEW s \in UrlStates, NEW ch
    PROVE  LET t == parse_url_char(s, ch) IN
           t # "s_dead" =>
               /\ t \in UrlStates /\ UrlRank[s] <= UrlRank[t]
               /\ t \notin DOMAIN FieldOf => ch \in Delimiters
               /\ t \in DOMAIN FieldOf =>
                     \/ s \in DOMAIN FieldOf /\ FieldOf[s] = FieldOf[t]
                     \/ UrlRank[s] < Position[FieldOf[t]]
  <1> DEFINE t == parse_url_char(s, ch)
             server == {"s_req_server_start", "s_req_server", "s_req_server_with_at"}
             query == {"s_req_query_string_start", "s_req_query_string"}
             fragment == {"s_req_fragment_start", "s_req_fragment"}
  <1>1. CASE ch \in {SP, CR, LF, "\t"}
    BY <1>1 DEF parse_url_char
  <1>2. CASE ch \notin {SP, CR, LF, "\t"} /\ s \in server
    <2>1. \/ t \in {"s_dead", "s_req_server", "s_req_server_with_at", "s_req_path"}
          \/ t = "s_req_query_string_start" /\ ch = "?"
      BY <1>2 DEF parse_url_char
    <2> HIDE DEF t
    <2>2. t # "s_dead" =>
               /\ t \in UrlStates /\ UrlRank[s] <= UrlRank[t]
               /\ t \notin DOMAIN FieldOf => ch \in Delimiters
               /\ t \in DOMAIN FieldOf =>
                     \/ s \in DOMAIN FieldOf /\ FieldOf[s] = FieldOf[t]
                     \/ UrlRank[s] < Position[FieldOf[t]]
      BY <1>2, <2>1 DEF UrlStates, UrlRank, FieldOf, Position, Delimiters
    <2> QED
      BY <2>2 DEF t
  <1>3. CASE ch \notin {SP, CR, LF, "\t"} /\ s \notin server
    <2>1. \/ t = "s_dead"
          \/ s = "s_req_spaces_before_url" /\ t \in {"s_req_path", "s_req_schema"}
          \/ s = "s_req_schema" /\ t = s
          \/ s = "s_req_schema" /\ t = "s_req_schema_slash" /\ ch = ":"
          \/ s = "s_req_schema_slash" /\ t = "s_req_schema_slash_slash" /\ ch = "/"
          \/ s = "s_req_schema_slash_slash" /\ t = "s_req_server_start" /\ ch = "/"
          \/ s = "s_req_path" /\ t = s
          \/ s = "s_req_path" /\ t = "s_req_query_string_start" /\ ch = "?"
          \/ s \in query /\ t = "s_req_query_string"
          \/ s \in query \cup {"s_req_path"} /\ t = "s_req_fragment_start" /\ ch = "#"
          \/ s = "s_req_fragment_start" /\ t = s /\ ch = "#"
          \/ s \in fragment /\ t = "s_req_fragment"
      BY <1>3 DEF parse_url_char
    <2> HIDE DEF t
    <2>2. t # "s_dead" =>
               /\ t \in UrlStates /\ UrlRank[s] <= UrlRank[t]
               /\ t \notin DOMAIN FieldOf => ch \in Delimiters
               /\ t \in DOMAIN FieldOf =>
                     \/ s \in DOMAIN FieldOf /\ FieldOf[s] = FieldOf[t]
                     \/ UrlRank[s] < Position[FieldOf[t]]
      BY <1>3, <2>1 DEF UrlStates, UrlRank, FieldOf, Position, Delimiters
    <2> QED
      BY <2>2 DEF t
  <1> QED
    BY <1>1, <1>2, <1>3

UrlExtents == [UrlFields -> [off : Nat, len : Nat]]
EndOf(x) == x.off + x.len - 1

\* The last index of an extent.
LEMMA EndIsInt == ASSUME NEW x, x.off \in Nat, x.len \in Nat PROVE EndOf(x) \in Int
  BY DEF EndOf

\* The characters from lo to k are cut into the fields of a set, which stand in
\* order; what is in none of them is a delimiter.
Cut(text, field, have, lo, k) ==
    /\ \A f \in have : field[f].len > 0 /\ lo <= field[f].off /\ EndOf(field[f]) <= k
    /\ \A f, g \in have : Position[f] < Position[g] => EndOf(field[f]) < field[g].off
    /\ \A i \in lo .. k : \/ text[i] \in Delimiters
                          \/ \E f \in have : field[f].off <= i /\ i <= EndOf(field[f])

\* One more character that is a delimiter.
LEMMA CutDelimited ==
    ASSUME NEW text, NEW field \in UrlExtents, NEW have \in SUBSET UrlFields, NEW lo \in Nat, NEW k \in Nat,
           Cut(text, field, have, lo, k), text[k + 1] \in Delimiters
    PROVE  Cut(text, field, have, lo, k + 1)
  <1>1. \A f \in have : field[f].off \in Nat /\ field[f].len \in Nat
    BY DEF UrlExtents
  <1>2. \A i \in lo .. k + 1 : i \in lo .. k \/ i = k + 1
    OBVIOUS
  <1> QED
    BY <1>1, <1>2 DEF Cut, EndOf

\* One more character that begins a field behind all others.
LEMMA CutBegun ==
    ASSUME NEW text, NEW field \in UrlExtents, NEW have \in SUBSET UrlFields, NEW lo \in Nat, NEW k \in Nat,
           Cut(text, field, have, lo, k), lo <= k + 1,
           NEW f \in UrlFields, \A g \in have : Position[g] < Position[f], NEW field2 \in UrlExtents,
           field2 = [field EXCEPT ![f] = [off |-> k + 1, len |-> 1]]
    PROVE  Cut(text, field2, have \cup {f}, lo, k + 1)
  <1>1. \A g \in UrlFields : field[g].off \in Nat /\ field[g].len \in Nat /\ Position[g] \in Int
    BY FieldNames DEF UrlExtents
  <1>2. \A i \in lo .. k + 1 : i \in lo .. k \/ i = k + 1
    OBVIOUS
  <1>3. f \notin have /\ field2[f].off = k + 1 /\ field2[f].len = 1
        /\ \A g \in have : field2[g] = field[g]
    BY <1>1 DEF UrlExtents
  <1>4. \A g \in have \cup {f} : field2[g].len > 0 /\ lo <= field2[g].off /\ EndOf(field2[g]) <= k + 1
    BY <1>1, <1>3 DEF Cut, EndOf
  <1>5. \A g, h \in have \cup {f} : Position[g] < Position[h] => EndOf(field2[g]) < field2[h].off
    BY <1>1, <1>3 DEF Cut, EndOf
  <1>6. \A i \in lo .. k + 1 : \/ text[i] \in Delimiters
                               \/ \E g \in have \cup {f} : field2[g].off <= i /\ i <= EndOf(field2[g])
    BY <1>1, <1>2, <1>3 DEF Cut, EndOf
  <1> QED
    BY <1>4, <1>5, <1>6 DEF Cut

\* One more character of the field that reaches up to here.
LEMMA CutGrown ==
    ASSUME NEW text, NEW field \in UrlExtents, NEW have \in SUBSET UrlFields, NEW lo \in Nat, NEW k \in Nat,
           Cut(text, field, have, lo, k), NEW f \in have, EndOf(field[f]) = k,
           NEW field2 \in UrlExtents, field2[f].off = field[f].off, field2[f].len = field[f].len + 1,
           \A g \in have : g # f => field2[g] = field[g]
    PROVE  Cut(text, field2, have, lo, k + 1) /\ EndOf(field2[f]) = k + 1
  <1>1. \A g \in UrlFields : field[g].off \in Nat /\ field[g].len \in Nat /\ Position[g] \in Int
    BY FieldNames DEF UrlExtents
  <1>2. \A i \in lo .. k + 1 : i \in lo .. k \/ i = k + 1
    OBVIOUS
  <1>4. EndOf(field2[f]) = k + 1 /\ \A g \in have : EndOf(field[g]) <= k
    BY <1>1 DEF EndOf, Cut
  <1>5. \A g \in have : field2[g].len > 0 /\ lo <= field2[g].off /\ EndOf(field2[g]) <= k + 1
    BY <1>1, <1>4 DEF Cut, EndOf
  <1>6. \A g, h \in have : Position[g] < Position[h] => EndOf(field2[g]) < field2[h].off
    BY <1>1, <1>4 DEF Cut, EndOf
  <1>7. \A i \in lo .. k + 1 : \/ text[i] \in Delimiters
                               \/ \E g \in have : field2[g].off <= i /\ i <= EndOf(field2[g])
    BY <1>1, <1>2, <1>4 DEF Cut, EndOf
  <1> QED
    BY <1>4, <1>5, <1>6, <1>7 DEF Cut

UrlRecords == [field : UrlExtents, set : SUBSET UrlFields, last : UrlFields \cup {"none"},
               s : UrlStates, found_at : BOOLEAN, bad : BOOLEAN]

\* What the first pass has found in k characters that it did not reject: the
\* fields they are cut into, none of which lies behind the state it is in.
UrlSound(text, u, k) ==
    /\ u.set \subseteq UrlFields \ {"PORT", "USERINFO"}
    /\ Cut(text, u.field, u.set, 1, k)
    /\ u.last = "none" \/ u.last \in u.set
    /\ \A f \in u.set : Position[f] <= UrlRank[u.s]
    /\ u.s \in DOMAIN FieldOf => u.last = FieldOf[u.s] /\ u.last \in u.set /\ EndOf(u.field[u.last]) = k

UrlRead(text, k) == {u \in UrlRecords : ~u.bad => UrlSound(text, u, k)}

\* http_parser_parse_url's loop, one character on.
LEMMA UrlPassKeeps ==
    ASSUME NEW text, NEW k \in Nat \ {0}, NEW u \in UrlRead(text, k - 1)
    PROVE  UrlPass(text, u, k) \in UrlRead(text, k)
  <1> DEFINE ch == text[k]
             t == parse_url_char(u.s, ch)
             v == [u EXCEPT !.s = t, !.found_at = @ \/ t = "s_req_server_with_at"]
             f == FieldOf[t]
             w == UrlPass(text, u, k)
  <1>1. u \in UrlRecords /\ (~u.bad => UrlSound(text, u, k - 1))
    BY DEF UrlRead
  <1>2. CASE u.bad \/ t = "s_dead"
    <2>1. w = [u EXCEPT !.bad = TRUE]
      BY <1>2 DEF UrlPass
    <2>2. w \in UrlRecords /\ w.bad
      BY <1>1, <2>1 DEF UrlRecords
    <2> QED
      BY <2>2 DEF UrlRead
  <1>3. CASE ~u.bad /\ t # "s_dead"
    <2>1. u.s \in UrlStates /\ u.field \in UrlExtents /\ u.set \in SUBSET UrlFields
          /\ u.last \in UrlFields \cup {"none"} /\ u.found_at \in BOOLEAN /\ u.bad = FALSE
      BY <1>1, <1>3 DEF UrlRecords
    <2>2. /\ t \in UrlStates /\ UrlRank[u.s] <= UrlRank[t]
          /\ t \notin DOMAIN FieldOf => ch \in Delimiters
          /\ t \in DOMAIN FieldOf =>
                \/ u.s \in DOMAIN FieldOf /\ FieldOf[u.s] = f
                \/ UrlRank[u.s] < Position[f]
      BY <1>3, <2>1, UrlMoves
    <2>3. UrlSound(text, u, k - 1)
      BY <1>1, <1>3
    <2>4. k - 1 \in Nat /\ (k - 1) + 1 = k
      OBVIOUS
    <2>5. \A g \in u.set : Position[g] \in Int /\ Position[g] <= UrlRank[u.s]
      BY <2>1, <2>3, FieldNames DEF UrlSound
    <2>6. UrlRank[u.s] \in Int /\ UrlRank[t] \in Int
      BY <2>1, <2>2, UrlStateFields
    <2>7. w = IF t \notin DOMAIN FieldOf THEN v
              ELSE [Grow(v, f, k, f # u.last) EXCEPT !.last = f]
      BY <1>3 DEF UrlPass
    <2>8. v \in UrlRecords /\ v.field = u.field /\ v.set = u.set /\ v.last = u.last /\ v.s = t /\ v.bad = FALSE
      <3> HIDE DEF t
      <3> QED
        BY <1>1, <2>1, <2>2 DEF UrlRecords
    <2> HIDE DEF t, v, w, f, ch
    <2>9. CASE t \notin DOMAIN FieldOf
      <3>1. w = v
        BY <2>7, <2>9
      <3>2. Cut(text, u.field, u.set, 1, k)
        <4>1. text[(k - 1) + 1] \in Delimiters
          BY <2>2, <2>4, <2>9 DEF ch
        <4>2. Cut(text, u.field, u.set, 1, (k - 1) + 1)
          BY <2>1, <2>3, <2>4, <4>1, CutDelimited DEF UrlSound
        <4> QED
          BY <2>4, <4>2
      <3>3. UrlSound(text, w, k)
        BY <2>2, <2>3, <2>5, <2>6, <2>8, <2>9, <3>1, <3>2 DEF UrlSound
      <3> QED
        BY <2>8, <3>1, <3>3 DEF UrlRead, w
    <2>10. CASE t \in DOMAIN FieldOf /\ u.s \in DOMAIN FieldOf /\ FieldOf[u.s] = f
      <3>1. f = u.last /\ f \in u.set /\ EndOf(u.field[f]) = k - 1
        BY <2>3, <2>10 DEF UrlSound
      <3> DEFINE field2 == [u.field EXCEPT ![f].len = @ + 1]
      <3>2. w = [v EXCEPT !.field = field2]
        <4>1. w = [[v EXCEPT !.field[f].len = @ + 1] EXCEPT !.last = f]
          BY <2>7, <2>10, <3>1 DEF Grow
        <4> QED
          BY <2>8, <3>1, <4>1 DEF UrlRecords
      <3>3. field2 \in UrlExtents
        BY <2>1, <3>1 DEF UrlExtents
      <3>4. Cut(text, field2, u.set, 1, (k - 1) + 1) /\ EndOf(field2[f]) = (k - 1) + 1
        <4>1. Cut(text, u.field, u.set, 1, k - 1)
          BY <2>3 DEF UrlSound
        <4>2. /\ field2[f].off = u.field[f].off /\ field2[f].len = u.field[f].len + 1
              /\ \A g \in u.set : g # f => field2[g] = u.field[g]
          BY <2>1, <3>1 DEF UrlExtents
        <4> HIDE DEF field2
        <4> QED
          BY <2>1, <2>4, <3>1, <3>3, <4>1, <4>2, CutGrown
      <3> HIDE DEF field2
      <3>5. w \in UrlRecords /\ w.field = field2 /\ w.set = u.set /\ w.last = f /\ w.s = t
        BY <2>8, <3>1, <3>2, <3>3 DEF UrlRecords
      <3>6. UrlSound(text, w, k)
        BY <2>2, <2>3, <2>4, <2>5, <2>6, <2>10, <3>1, <3>4, <3>5 DEF UrlSound, f
      <3> QED
        BY <3>5, <3>6 DEF UrlRead, w
    <2>11. CASE t \in DOMAIN FieldOf /\ UrlRank[u.s] < Position[f]
      <3>1. /\ f \in UrlFields \ {"PORT", "USERINFO"} /\ Position[f] \in Int /\ Position[f] = UrlRank[t]
            /\ \A g \in u.set : Position[g] < Position[f]
        <4>1. f \in UrlFields \ {"PORT", "USERINFO"} /\ Position[f] = UrlRank[t]
          BY <2>11, UrlStateFields DEF f
        <4> QED
          BY <2>5, <2>6, <2>11, <4>1
      <3>2. f # u.last
        <4>1. f \notin u.set /\ f # "none"
          BY <3>1 DEF UrlFields
        <4> QED
          BY <2>3, <4>1 DEF UrlSound
      <3> DEFINE field2 == [u.field EXCEPT ![f] = [off |-> k, len |-> 1]]
                 set2 == u.set \cup {f}
      <3>3. field2 \in UrlExtents /\ set2 \in SUBSET UrlFields /\ field2[f] = [off |-> k, len |-> 1]
        BY <2>1, <3>1 DEF UrlExtents
      <3>4. w = [v EXCEPT !.field = field2, !.set = set2, !.last = f]
        <4>1. w = [[v EXCEPT !.field[f] = [off |-> k, len |-> 1], !.set = @ \cup {f}] EXCEPT !.last = f]
          BY <2>7, <2>11, <3>2 DEF Grow
        <4> QED
          BY <2>8, <4>1 DEF UrlRecords
      <3>5. Cut(text, field2, set2, 1, (k - 1) + 1)
        <4>1. Cut(text, u.field, u.set, 1, k - 1)
          BY <2>3 DEF UrlSound
        <4>2. field2 = [u.field EXCEPT ![f] = [off |-> (k - 1) + 1, len |-> 1]] /\ 1 <= (k - 1) + 1
          BY <2>4
        <4> HIDE DEF field2
        <4> QED
          BY <2>1, <2>4, <3>1, <3>3, <4>1, <4>2, CutBegun
      <3> HIDE DEF field2
      <3>6. w \in UrlRecords /\ w.field = field2 /\ w.set = set2 /\ w.last = f /\ w.s = t
        BY <2>8, <3>1, <3>3, <3>4 DEF UrlRecords
      <3>7. EndOf(field2[f]) = k
        BY <3>3 DEF EndOf
      <3>8. UrlSound(text, w, k)
        BY <2>2, <2>3, <2>4, <2>5, <2>6, <2>11, <3>1, <3>5, <3>6, <3>7 DEF UrlSound, f
      <3> QED
        BY <3>6, <3>8 DEF UrlRead, w
    <2> QED
      BY <2>2, <2>9, <2>10, <2>11
  <1> QED
    BY <1>2, <1>3

\* The last part of an authority that may have begun in a state.
HostRank == [userinfo_start |-> 1, userinfo |-> 2, host_start |-> 2, v6_start |-> 2, host |-> 3, v6 |-> 3,
             v6_zone_start |-> 3, v6_zone |-> 3, v6_end |-> 3, port_start |-> 3, port |-> 4]
HostStates == DOMAIN HostRank
HostParts == {"USERINFO", "HOST", "PORT"}
Begins(s, t) == t # s /\ t \notin {"v6_zone_start", "v6_zone"}

\* A part of the authority that goes on in a state is the last that may have begun.
LEMMA HostStateFields ==
    /\ DOMAIN HostFieldOf \subseteq HostStates
    /\ \A s \in HostStates : HostRank[s] \in 1 .. 4
    /\ \A s \in DOMAIN HostFieldOf : /\ HostFieldOf[s] \in HostParts
                                     /\ HostRank[s] = Position[HostFieldOf[s]]
    /\ HostParts \subseteq UrlFields
  BY DEF HostFieldOf, HostStates, HostRank, HostParts, UrlFields, Position

\* What a character of an authority may do to the state (http_parse_host_char).
LEMMA HostMoves ==
    ASSUME NEW s \in HostStates, NEW ch
    PROVE  LET t == http_parse_host_char(s, ch) IN
           t # "dead" =>
               /\ t \in HostStates /\ HostRank[s] <= HostRank[t]
               /\ t \notin DOMAIN HostFieldOf => ch \in Delimiters /\ (HostRank[s] >= 3 <=> HostRank[t] >= 3)
               /\ t \in DOMAIN HostFieldOf =>
                     IF Begins(s, t) THEN HostRank[s] < Position[HostFieldOf[t]]
                     ELSE s \in DOMAIN HostFieldOf /\ HostFieldOf[s] = HostFieldOf[t]
               /\ t \in DOMAIN HostFieldOf /\ HostFieldOf[t] # "HOST" =>
                     (HostRank[s] >= 3 <=> HostRank[t] >= 3)
               /\ t \in DOMAIN HostFieldOf /\ HostFieldOf[t] = "PORT" => IS_NUM(ch)
  <1> DEFINE t == http_parse_host_char(s, ch)
  <1>1. \/ t = "dead"
        \/ s \in {"userinfo_start", "userinfo"} /\ t = "host_start" /\ ch = "@"
        \/ s \in {"userinfo_start", "userinfo"} /\ t = "userinfo"
        \/ s = "host_start" /\ t = "v6_start" /\ ch = "["
        \/ s \in {"host_start", "host"} /\ t = "host"
        \/ s \in {"host", "v6_end"} /\ t = "port_start" /\ ch = ":"
        \/ s \in {"v6", "v6_zone"} /\ t = "v6_end" /\ ch = "]"
        \/ s \in {"v6", "v6_start"} /\ t = "v6"
        \/ s = "v6" /\ t = "v6_zone_start"
        \/ s \in {"v6_zone", "v6_zone_start"} /\ t = "v6_zone"
        \/ s \in {"port", "port_start"} /\ t = "port" /\ IS_NUM(ch)
    BY DEF http_parse_host_char
  <1> HIDE DEF t
  <1>2. t # "dead" =>
               /\ t \in HostStates /\ HostRank[s] <= HostRank[t]
               /\ t \notin DOMAIN HostFieldOf => ch \in Delimiters /\ (HostRank[s] >= 3 <=> HostRank[t] >= 3)
               /\ t \in DOMAIN HostFieldOf =>
                     IF Begins(s, t) THEN HostRank[s] < Position[HostFieldOf[t]]
                     ELSE s \in DOMAIN HostFieldOf /\ HostFieldOf[s] = HostFieldOf[t]
               /\ t \in DOMAIN HostFieldOf /\ HostFieldOf[t] # "HOST" =>
                     (HostRank[s] >= 3 <=> HostRank[t] >= 3)
               /\ t \in DOMAIN HostFieldOf /\ HostFieldOf[t] = "PORT" => IS_NUM(ch)
    BY <1>1 DEF HostStates, HostRank, HostFieldOf, Position, Delimiters, Begins
  <1> QED
    BY <1>2 DEF t

HostRecords == [field : UrlExtents, set : SUBSET UrlFields, last : UrlFields \cup {"none"},
                s : HostStates, found_at : BOOLEAN, bad : BOOLEAN]

\* The parts of the authority found so far; the host of the first pass counts
\* when the second one has come to it.
HostHave(u) == (u.set \cap {"PORT", "USERINFO"}) \cup (IF HostRank[u.s] >= 3 THEN {"HOST"} ELSE {})

\* What the second pass has made of the authority of u0 up to character k.
HostSound(text, u0, u, k) ==
    /\ \A f \in UrlFields \ HostParts : u.field[f] = u0.field[f]
    /\ u.set \ {"PORT", "USERINFO"} = u0.set
    /\ Cut(text, u.field, HostHave(u), u0.field["HOST"].off, k)
    /\ \A f \in HostHave(u) : Position[f] <= HostRank[u.s]
    /\ u.s \in DOMAIN HostFieldOf =>
          HostFieldOf[u.s] \in HostHave(u) /\ EndOf(u.field[HostFieldOf[u.s]]) = k
    /\ "PORT" \in u.set => \A i \in u.field["PORT"].off .. EndOf(u.field["PORT"]) : IS_NUM(text[i])

HostRead(text, u0, k) == {u \in HostRecords : ~u.bad => HostSound(text, u0, u, k)}

\* http_parse_host's loop, one character on.
LEMMA HostPassKeeps ==
    ASSUME NEW text, NEW u0, u0.field["HOST"].off \in Nat \ {0}, u0.set \subseteq UrlFields, "HOST" \in u0.set,
           NEW k \in Nat \ {0}, u0.field["HOST"].off <= k, NEW u \in HostRead(text, u0, k - 1)
    PROVE  HostPass(text, u, k) \in HostRead(text, u0, k)
  <1> DEFINE ch == text[k]
             t == http_parse_host_char(u.s, ch)
             f == HostFieldOf[t]
             w == HostPass(text, u, k)
             lo == u0.field["HOST"].off
             port == {"PORT", "USERINFO"}
  <1>1. u \in HostRecords /\ (~u.bad => HostSound(text, u0, u, k - 1)) /\ lo \in Nat /\ lo <= k
    BY DEF HostRead
  <1>2. CASE u.bad \/ t = "dead"
    <2>1. w = [u EXCEPT !.bad = TRUE]
      BY <1>2 DEF HostPass
    <2>2. w \in HostRecords /\ w.bad
      BY <1>1, <2>1 DEF HostRecords
    <2> QED
      BY <2>2 DEF HostRead
  <1>3. CASE ~u.bad /\ t # "dead"
    <2>1. u.s \in HostStates /\ u.field \in UrlExtents /\ u.set \in SUBSET UrlFields
          /\ u.last \in UrlFields \cup {"none"} /\ u.found_at \in BOOLEAN /\ u.bad = FALSE
      BY <1>1, <1>3 DEF HostRecords
    <2>2. /\ t \in HostStates /\ HostRank[u.s] <= HostRank[t]
          /\ t \notin DOMAIN HostFieldOf => ch \in Delimiters /\ (HostRank[u.s] >= 3 <=> HostRank[t] >= 3)
          /\ t \in DOMAIN HostFieldOf =>
                IF Begins(u.s, t) THEN HostRank[u.s] < Position[f]
                ELSE u.s \in DOMAIN HostFieldOf /\ HostFieldOf[u.s] = f
          /\ t \in DOMAIN HostFieldOf /\ f # "HOST" => (HostRank[u.s] >= 3 <=> HostRank[t] >= 3)
          /\ t \in DOMAIN HostFieldOf /\ f = "PORT" => IS_NUM(ch)
      BY <1>3, <2>1, HostMoves
    <2>3. HostSound(text, u0, u, k - 1)
      BY <1>1, <1>3
    <2>4. k - 1 \in Nat /\ (k - 1) + 1 = k
      OBVIOUS
    <2>5. HostHave(u) \in SUBSET UrlFields
      BY <2>1 DEF HostHave, UrlFields
    <2>6. \A g \in HostHave(u) : Position[g] \in Int /\ Position[g] <= HostRank[u.s]
      BY <2>3, <2>5, FieldNames DEF HostSound
    <2>7. HostRank[u.s] \in Int /\ HostRank[t] \in Int
      BY <2>1, <2>2, HostStateFields
    <2>8. w = IF t \notin DOMAIN HostFieldOf THEN [u EXCEPT !.s = t]
              ELSE [Grow(u, f, k, Begins(u.s, t)) EXCEPT !.s = t]
      BY <1>3 DEF HostPass, Begins
    <2>9. Cut(text, u.field, HostHave(u), lo, k - 1)
      BY <2>3 DEF HostSound
    <2> HIDE DEF t, w, f, ch, lo
    <2>10. CASE t \notin DOMAIN HostFieldOf
      <3>1. w \in HostRecords /\ w.field = u.field /\ w.set = u.set /\ w.s = t
        BY <1>1, <2>2, <2>8, <2>10 DEF HostRecords
      <3>2. HostHave(w) = HostHave(u)
        BY <2>2, <2>10, <3>1 DEF HostHave
      <3>3. Cut(text, u.field, HostHave(u), lo, k)
        <4>1. text[(k - 1) + 1] \in Delimiters
          BY <2>2, <2>4, <2>10 DEF ch
        <4>2. Cut(text, u.field, HostHave(u), lo, (k - 1) + 1)
          BY <1>1, <2>1, <2>4, <2>5, <2>9, <4>1, CutDelimited
        <4> QED
          BY <2>4, <4>2
      <3>4. \A g \in HostHave(w) : Position[g] <= HostRank[t]
        BY <2>2, <2>6, <2>7, <3>2
      <3>5. HostSound(text, u0, w, k)
        BY <2>3, <2>10, <3>1, <3>2, <3>3, <3>4 DEF HostSound, lo
      <3> QED
        BY <3>1, <3>5 DEF HostRead, w
    <2>11. CASE t \in DOMAIN HostFieldOf /\ ~Begins(u.s, t)
      <3>1. f \in HostParts /\ f \in HostHave(u) /\ EndOf(u.field[f]) = k - 1 /\ f \in UrlFields
            /\ Position[f] = HostRank[u.s]
        BY <2>2, <2>3, <2>5, <2>11, HostStateFields DEF HostSound
      <3> DEFINE field2 == [u.field EXCEPT ![f].len = @ + 1]
      <3>2. field2 \in UrlExtents
        BY <2>1, <3>1 DEF UrlExtents
      <3>3. /\ field2[f].off = u.field[f].off /\ field2[f].len = u.field[f].len + 1
            /\ \A g \in UrlFields : g # f => field2[g] = u.field[g]
        BY <2>1, <3>1 DEF UrlExtents
      <3>4. w = [u EXCEPT !.field = field2, !.s = t]
        <4>1. w = [[u EXCEPT !.field[f].len = @ + 1] EXCEPT !.s = t]
          BY <2>8, <2>11 DEF Grow
        <4> QED
          BY <1>1, <4>1 DEF HostRecords
      <3> HIDE DEF field2
      <3>5. w \in HostRecords /\ w.field = field2 /\ w.set = u.set /\ w.s = t
        BY <1>1, <2>2, <3>2, <3>4 DEF HostRecords
      <3>6. Cut(text, field2, HostHave(u), lo, (k - 1) + 1) /\ EndOf(field2[f]) = (k - 1) + 1
        <4>1. \A g \in HostHave(u) : g # f => field2[g] = u.field[g]
          BY <2>5, <3>3
        <4> QED
          BY <1>1, <2>1, <2>4, <2>5, <2>9, <3>1, <3>2, <3>3, <4>1, CutGrown
      <3>7. HostHave(w) = HostHave(u)
        <4>1. t \in HostStates /\ Position[f] = HostRank[t]
          BY <2>2, <2>11, HostStateFields DEF f
        <4> QED
          BY <3>1, <3>5, <4>1 DEF HostHave
      <3>8. \A g \in HostHave(w) : Position[g] <= HostRank[t]
        BY <2>2, <2>6, <2>7, <3>7
      <3>9. "PORT" \in w.set => \A i \in field2["PORT"].off .. EndOf(field2["PORT"]) : IS_NUM(text[i])
        <4>1. CASE f = "PORT" /\ "PORT" \in u.set
          <5>1. IS_NUM(text[k])
            BY <2>2, <2>11, <4>1 DEF ch
          <5>2. \A i \in u.field["PORT"].off .. k - 1 : IS_NUM(text[i])
            BY <2>3, <3>1, <4>1 DEF HostSound
          <5>3. field2["PORT"].off = u.field["PORT"].off /\ EndOf(field2["PORT"]) = k
                /\ u.field["PORT"].off \in Nat
            BY <2>1, <2>4, <3>1, <3>3, <3>6, <4>1 DEF UrlExtents
          <5>4. \A i \in u.field["PORT"].off .. k : i = k \/ i \in u.field["PORT"].off .. k - 1
            BY <5>3
          <5> QED
            BY <5>1, <5>2, <5>3, <5>4
        <4>2. CASE f # "PORT" /\ "PORT" \in u.set
          BY <2>1, <2>3, <3>3, <4>2 DEF HostSound
        <4> QED
          BY <3>5, <4>1, <4>2
      <3>10. HostFieldOf[t] \in HostHave(w) /\ EndOf(w.field[HostFieldOf[t]]) = k
        BY <2>4, <3>1, <3>5, <3>6, <3>7 DEF f
      <3>11. \A g \in UrlFields \ HostParts : w.field[g] = u0.field[g]
        BY <2>3, <3>1, <3>3, <3>5 DEF HostSound
      <3>12. HostSound(text, u0, w, k)
        BY <2>3, <2>4, <3>5, <3>6, <3>7, <3>8, <3>9, <3>10, <3>11 DEF HostSound, lo
      <3> QED
        BY <3>5, <3>12 DEF HostRead, w
    <2>12. CASE t \in DOMAIN HostFieldOf /\ Begins(u.s, t)
      <3>1. /\ f \in HostParts /\ f \in UrlFields /\ Position[f] \in Int /\ Position[f] = HostRank[t]
            /\ \A g \in HostHave(u) : Position[g] < Position[f]
        <4>1. f \in HostParts /\ f \in UrlFields /\ Position[f] = HostRank[t]
          BY <2>12, HostStateFields DEF f
        <4> QED
          BY <2>2, <2>6, <2>7, <2>12, <4>1
      <3> DEFINE field2 == [u.field EXCEPT ![f] = [off |-> k, len |-> 1]]
                 set2 == u.set \cup {f}
      <3>2. field2 \in UrlExtents /\ set2 \in SUBSET UrlFields
        BY <2>1, <3>1 DEF UrlExtents
      <3>3. /\ field2[f] = [off |-> k, len |-> 1]
            /\ \A g \in UrlFields : g # f => field2[g] = u.field[g]
        BY <2>1, <3>1 DEF UrlExtents
      <3>4. w = [u EXCEPT !.field = field2, !.set = set2, !.s = t]
        <4>1. w = [[u EXCEPT !.field[f] = [off |-> k, len |-> 1], !.set = @ \cup {f}] EXCEPT !.s = t]
          BY <2>8, <2>12 DEF Grow
        <4> QED
          BY <1>1, <4>1 DEF HostRecords
      <3>5. Cut(text, field2, HostHave(u) \cup {f}, lo, (k - 1) + 1)
        <4>1. field2 = [u.field EXCEPT ![f] = [off |-> (k - 1) + 1, len |-> 1]] /\ lo <= (k - 1) + 1
          BY <1>1, <2>4
        <4> HIDE DEF field2
        <4> QED
          BY <1>1, <2>1, <2>4, <2>5, <2>9, <3>1, <3>2, <4>1, CutBegun
      <3> HIDE DEF field2
      <3>6. w \in HostRecords /\ w.field = field2 /\ w.set = set2 /\ w.s = t
        BY <1>1, <2>2, <3>2, <3>4 DEF HostRecords
      <3>7. HostHave(w) = HostHave(u) \cup {f}
        <4>1. CASE f = "HOST"
          <5>1. HostRank[t] = 3 /\ HostRank[u.s] < 3
            BY <2>2, <2>12, <3>1, <4>1, FieldNames
          <5> QED
            BY <2>7, <3>6, <4>1, <5>1 DEF HostHave
        <4>2. CASE f \in port
          BY <2>2, <2>12, <3>6, <4>2 DEF HostHave
        <4> QED
          BY <3>1, <4>1, <4>2 DEF HostParts
      <3>8. \A g \in HostHave(w) : Position[g] <= HostRank[t]
        BY <2>2, <2>6, <2>7, <3>1, <3>7
      <3>9. "PORT" \in w.set => \A i \in field2["PORT"].off .. EndOf(field2["PORT"]) : IS_NUM(text[i])
        <4>1. CASE f = "PORT"
          <5>1. IS_NUM(text[k])
            BY <2>2, <2>12, <4>1 DEF ch
          <5>2. field2["PORT"].off = k /\ EndOf(field2["PORT"]) = k
            BY <3>3, <4>1 DEF EndOf
          <5> QED
            BY <5>1, <5>2
        <4>2. CASE f # "PORT"
          BY <2>1, <2>3, <3>3, <3>6, <4>2 DEF HostSound, UrlFields
        <4> QED
          BY <4>1, <4>2
      <3>10. HostFieldOf[t] \in HostHave(w) /\ EndOf(w.field[HostFieldOf[t]]) = k
        BY <3>3, <3>6, <3>7 DEF f, EndOf
      <3>11. \A g \in UrlFields \ HostParts : w.field[g] = u0.field[g]
        BY <2>3, <3>1, <3>3, <3>6 DEF HostSound
      <3>12. w.set \ port = u0.set
        BY <2>3, <3>1, <3>6 DEF HostSound, HostParts
      <3>13. HostSound(text, u0, w, k)
        BY <2>4, <3>5, <3>6, <3>7, <3>8, <3>9, <3>10, <3>11, <3>12 DEF HostSound, lo
      <3> QED
        BY <3>6, <3>13 DEF HostRead, w
    <2> QED
      BY <2>2, <2>10, <2>11, <2>12
  <1> QED
    BY <1>2, <1>3

\* The first pass over a whole text (http_parser.c, the loop of
\* http_parser_parse_url).
LEMMA UrlPassed ==
    ASSUME NEW text, Len(text) \in Nat, NEW begin \in UrlRead(text, 0)
    PROVE  Through(LAMBDA u, k : UrlPass(text, u, k), begin, [k \in 1 .. Len(text) |-> k])
               \in UrlRead(text, Len(text))
  <1> DEFINE n == Len(text)
             ks == [k \in 1 .. n |-> k]
             F(f, k) == IF k = 0 THEN begin ELSE UrlPass(text, f[k - 1], ks[k])
             at == CHOOSE f : f = [k \in 0 .. n |-> F(f, k)]
             step == [p \in UrlRecords \X (1 .. n) |-> UrlPass(text, p[1], p[2])]
             holds == [k \in 0 .. n |-> UrlRead(text, k)]
  <1>1. Through(LAMBDA u, k : UrlPass(text, u, k), begin, ks) = at[n]
    <2>1. Len(ks) = n
      OBVIOUS
    <2> HIDE DEF ks
    <2> QED
      BY <2>1 DEF Through
  <1>2. n \in Nat /\ \A k \in 1 .. n : ks[k] = k /\ k - 1 \in 0 .. n /\ k \in 0 .. n /\ k \in Nat \ {0}
    OBVIOUS
  <1> HIDE DEF n, ks
  <1>3. \A k \in 1 .. n : \A u \in UrlRead(text, k - 1) :
            step[<<u, k>>] = UrlPass(text, u, k) /\ UrlPass(text, u, k) \in UrlRead(text, k)
    <2>1. \A k \in 0 .. n : \A u \in UrlRead(text, k) : u \in UrlRecords
      BY DEF UrlRead
    <2>2. \A k \in 1 .. n : \A u \in UrlRead(text, k - 1) : step[<<u, k>>] = UrlPass(text, u, k)
      BY <1>2, <2>1
    <2>3. \A k \in 1 .. n : \A u \in UrlRead(text, k - 1) : UrlPass(text, u, k) \in UrlRead(text, k)
      BY <1>2, UrlPassKeeps
    <2> QED
      BY <2>2, <2>3
  <1> HIDE DEF step
  <1>4. Leads(begin, step, holds, n) /\ \A k \in 0 .. n : holds[k] = UrlRead(text, k)
    <2>1. \A k \in 0 .. n : holds[k] = UrlRead(text, k)
      OBVIOUS
    <2>2. 0 \in 0 .. n /\ \A k \in 1 .. n : k \in 0 .. n /\ k - 1 \in 0 .. n
      BY <1>2
    <2> HIDE DEF holds
    <2>3. begin \in holds[0]
      BY <2>1, <2>2
    <2>4. \A k \in 1 .. n : holds[k] = UrlRead(text, k) /\ holds[k - 1] = UrlRead(text, k - 1)
      BY <2>1, <2>2
    <2> QED
      BY <1>3, <2>1, <2>3, <2>4 DEF Leads
  <1> HIDE DEF holds
  <1>5. PICK g : Follows(g, begin, step, holds, n)
    BY <1>2, <1>4, FoldKeeps
  <1> DEFINE all == [k \in 0 .. n |-> g[k]]
  <1>6. \A k \in 1 .. n : g[k] = UrlPass(text, g[k - 1], ks[k])
    <2> SUFFICES ASSUME NEW k \in 1 .. n PROVE g[k] = UrlPass(text, g[k - 1], ks[k])
      OBVIOUS
    <2>1. g[k - 1] \in UrlRead(text, k - 1) /\ ks[k] = k /\ g[k] = step[<<g[k - 1], k>>]
      BY <1>2, <1>4, <1>5 DEF Follows
    <2> QED
      BY <1>3, <2>1
  <1>7. \A k \in 0 .. n : all[k] = F(all, k)
    BY <1>2, <1>5, <1>6 DEF Follows
  <1> HIDE DEF F
  <1>8. all = [k \in 0 .. n |-> F(all, k)]
    BY <1>7
  <1>9. at = [k \in 0 .. n |-> F(at, k)]
    BY <1>8
  <1>10. \A k \in 0 .. n : at[k] = F(at, k)
    <2> HIDE DEF at
    <2> QED
      BY <1>9
  <1> HIDE DEF at
  <1>11. Alike(at, g, n)
    BY <1>2, <1>5, <1>6, <1>10 DEF F, Alike, Follows
  <1>12. at[n] = g[n] /\ g[n] \in UrlRead(text, n)
    <2>1. n \in 0 .. n
      BY <1>2
    <2>2. \A k \in 0 .. n : at[k] = g[k]
      BY <1>2, <1>11, SameFold
    <2> QED
      BY <1>4, <1>5, <2>1, <2>2 DEF Follows
  <1> QED
    BY <1>1, <1>12 DEF n, ks

\* The second pass over the host that the first one found (http_parse_host).
LEMMA HostPassed ==
    ASSUME NEW text, NEW u0, u0.field["HOST"].off \in Nat \ {0}, u0.field["HOST"].len \in Nat,
           u0.set \subseteq UrlFields, "HOST" \in u0.set,
           NEW begin \in HostRead(text, u0, u0.field["HOST"].off - 1)
    PROVE  LET h == u0.field["HOST"] IN
           Through(LAMBDA v, k : HostPass(text, v, k), begin, [j \in 1 .. h.len |-> h.off + j - 1])
               \in HostRead(text, u0, EndOf(h))
  <1> DEFINE lo == u0.field["HOST"].off
             n == u0.field["HOST"].len
             ks == [j \in 1 .. n |-> lo + j - 1]
             F(f, j) == IF j = 0 THEN begin ELSE HostPass(text, f[j - 1], ks[j])
             at == CHOOSE f : f = [j \in 0 .. n |-> F(f, j)]
             step == [p \in HostRecords \X (1 .. n) |-> HostPass(text, p[1], ks[p[2]])]
             holds == [j \in 0 .. n |-> HostRead(text, u0, lo + j - 1)]
  <1>1. Through(LAMBDA v, k : HostPass(text, v, k), begin, ks) = at[n]
    <2>1. Len(ks) = n
      OBVIOUS
    <2> HIDE DEF ks
    <2> QED
      BY <2>1 DEF Through
  <1>2. /\ n \in Nat /\ lo \in Nat \ {0}
        /\ \A j \in 1 .. n : /\ ks[j] = lo + j - 1 /\ j - 1 \in 0 .. n /\ j \in 0 .. n
                             /\ ks[j] \in Nat \ {0} /\ lo <= ks[j] /\ ks[j] - 1 = lo + (j - 1) - 1
    <2>1. n \in Nat /\ lo \in Nat \ {0}
      OBVIOUS
    <2> HIDE DEF n, lo
    <2> QED
      BY <2>1
  <1> HIDE DEF n, lo, ks
  <1>3. \A j \in 1 .. n : \A u \in HostRead(text, u0, lo + (j - 1) - 1) :
            /\ step[<<u, j>>] = HostPass(text, u, ks[j])
            /\ HostPass(text, u, ks[j]) \in HostRead(text, u0, lo + j - 1)
    <2> SUFFICES ASSUME NEW j \in 1 .. n, NEW u \in HostRead(text, u0, lo + (j - 1) - 1)
                 PROVE  /\ step[<<u, j>>] = HostPass(text, u, ks[j])
                        /\ HostPass(text, u, ks[j]) \in HostRead(text, u0, lo + j - 1)
      OBVIOUS
    <2>1. u \in HostRecords
      BY DEF HostRead
    <2>2. HostPass(text, u, ks[j]) \in HostRead(text, u0, ks[j])
      <3>1. ks[j] \in Nat \ {0} /\ u0.field["HOST"].off <= ks[j] /\ u \in HostRead(text, u0, ks[j] - 1)
        BY <1>2 DEF lo
      <3> QED
        BY <3>1, HostPassKeeps
    <2> QED
      BY <1>2, <2>1, <2>2
  <1> HIDE DEF step
  <1>4. Leads(begin, step, holds, n) /\ \A j \in 0 .. n : holds[j] = HostRead(text, u0, lo + j - 1)
    <2>1. \A j \in 0 .. n : holds[j] = HostRead(text, u0, lo + j - 1)
      OBVIOUS
    <2>2. begin \in holds[0]
      <3>1. lo + 0 - 1 = lo - 1 /\ 0 \in 0 .. n
        BY <1>2
      <3> QED
        BY <3>1 DEF lo
    <2>3. \A j \in 1 .. n : holds[j - 1] = HostRead(text, u0, lo + (j - 1) - 1)
      BY <1>2
    <2> HIDE DEF holds
    <2> QED
      BY <1>2, <1>3, <2>1, <2>2, <2>3 DEF Leads
  <1> HIDE DEF holds
  <1>5. PICK g : Follows(g, begin, step, holds, n)
    BY <1>2, <1>4, FoldKeeps
  <1> DEFINE all == [j \in 0 .. n |-> g[j]]
  <1>6. \A j \in 1 .. n : g[j] = HostPass(text, g[j - 1], ks[j])
    <2> SUFFICES ASSUME NEW j \in 1 .. n PROVE g[j] = HostPass(text, g[j - 1], ks[j])
      OBVIOUS
    <2>1. g[j - 1] \in HostRead(text, u0, lo + (j - 1) - 1) /\ g[j] = step[<<g[j - 1], j>>]
      BY <1>2, <1>4, <1>5 DEF Follows
    <2> QED
      BY <1>3, <2>1
  <1>7. \A j \in 0 .. n : all[j] = F(all, j)
    BY <1>2, <1>5, <1>6 DEF Follows
  <1> HIDE DEF F
  <1>8. all = [j \in 0 .. n |-> F(all, j)]
    BY <1>7
  <1>9. at = [j \in 0 .. n |-> F(at, j)]
    BY <1>8
  <1>10. \A j \in 0 .. n : at[j] = F(at, j)
    <2> HIDE DEF at
    <2> QED
      BY <1>9
  <1> HIDE DEF at
  <1>11. Alike(at, g, n)
    BY <1>2, <1>5, <1>6, <1>10 DEF F, Alike, Follows
  <1>12. at[n] = g[n] /\ g[n] \in HostRead(text, u0, lo + n - 1)
    <2>1. n \in 0 .. n
      BY <1>2
    <2>2. \A j \in 0 .. n : at[j] = g[j]
      BY <1>2, <1>11, SameFold
    <2> QED
      BY <1>4, <1>5, <2>1, <2>2 DEF Follows
  <1> QED
    BY <1>1, <1>12 DEF n, lo, ks, EndOf

\* The digits are numbers.
LEMMA DigitNumbers == \A c : IS_NUM(c) => Numbers[c] \in Nat
  <1> SUFFICES ASSUME NEW c, IS_NUM(c) PROVE Numbers[c] \in Nat
    OBVIOUS
  <1>1. c \in Range(Digits) /\ Numbers[c] = CHOOSE n \in 0 .. 9 : Digits[n + 1] = c
    BY DEF IS_NUM, Numbers
  <1>2. PICK i \in 1 .. 10 : Digits[i] = c
    BY <1>1 DEF Range, Digits
  <1>3. i - 1 \in 0 .. 9 /\ Digits[(i - 1) + 1] = c
    BY <1>2
  <1> QED
    BY <1>1, <1>3

\* A recursion along digits gives the number they write, and what strtoul makes
\* of them.
Reads(g, s, n) == g[0] = 0 /\ \A k \in 1 .. n : g[k] = 10 * g[k - 1] + Numbers[s[k]]
ReadsLow(g, s, n) ==
    g[0] = 0 /\ \A k \in 1 .. n : g[k] = IF g[k - 1] > 65535 THEN g[k - 1] ELSE 10 * g[k - 1] + Numbers[s[k]]

\* What a recursion along digits reaches is the number they write.
LEMMA NumberIs ==
    ASSUME NEW n \in Nat, NEW s, Len(s) = n, NEW g, Reads(g, s, n)
    PROVE  NumberOf(s) = g[n]
  <1> DEFINE F(f, k) == IF k = 0 THEN 0 ELSE 10 * f[k - 1] + Numbers[s[k]]
             at == CHOOSE f : f = [k \in 0 .. n |-> F(f, k)]
             all == [k \in 0 .. n |-> g[k]]
  <1>1. NumberOf(s) = at[n]
    BY DEF NumberOf, Through
  <1>2. \A k \in 0 .. n : all[k] = F(all, k)
    BY DEF Reads
  <1> HIDE DEF F
  <1>3. all = [k \in 0 .. n |-> F(all, k)]
    BY <1>2
  <1>4. at = [k \in 0 .. n |-> F(at, k)]
    BY <1>3
  <1> HIDE DEF at
  <1>5. \A k \in 0 .. n : at[k] = F(at, k)
    BY <1>4
  <1>6. Alike(at, g, n)
    <2>1. at[0] = 0 /\ g[0] = 0
      <3>1. 0 \in 0 .. n
        OBVIOUS
      <3>2. at[0] = F(at, 0)
        BY <1>5, <3>1
      <3>3. at[0] = 0
        BY <3>2 DEF F
      <3> QED
        BY <3>3 DEF Reads
    <2>2. \A k \in 1 .. n : k \in 0 .. n /\ k # 0
      OBVIOUS
    <2>3. \A k \in 1 .. n : at[k] = F(at, k) /\ g[k] = 10 * g[k - 1] + Numbers[s[k]]
      BY <1>5, <2>2 DEF Reads
    <2> SUFFICES ASSUME NEW k \in 1 .. n, at[k - 1] = g[k - 1] PROVE at[k] = g[k]
      BY <2>1 DEF Alike
    <2>4. at[k] = 10 * at[k - 1] + Numbers[s[k]]
      BY <2>2, <2>3 DEF F
    <2> QED
      BY <2>3, <2>4
  <1> QED
    BY <1>1, <1>6, SameFold

\* And with the cut-off it is what strtoul makes of them.
LEMMA StrtoulIs ==
    ASSUME NEW n \in Nat, NEW s, Len(s) = n, NEW g, ReadsLow(g, s, n)
    PROVE  strtoul(s) = g[n]
  <1> DEFINE F(f, k) == IF k = 0 THEN 0 ELSE IF f[k - 1] > 65535 THEN f[k - 1] ELSE 10 * f[k - 1] + Numbers[s[k]]
             at == CHOOSE f : f = [k \in 0 .. n |-> F(f, k)]
             all == [k \in 0 .. n |-> g[k]]
  <1>1. strtoul(s) = at[n]
    BY DEF strtoul, Through
  <1>2. \A k \in 0 .. n : all[k] = F(all, k)
    BY DEF ReadsLow
  <1> HIDE DEF F
  <1>3. all = [k \in 0 .. n |-> F(all, k)]
    BY <1>2
  <1>4. at = [k \in 0 .. n |-> F(at, k)]
    BY <1>3
  <1> HIDE DEF at
  <1>5. \A k \in 0 .. n : at[k] = F(at, k)
    BY <1>4
  <1>6. Alike(at, g, n)
    <2>1. at[0] = 0 /\ g[0] = 0
      <3>1. 0 \in 0 .. n
        OBVIOUS
      <3>2. at[0] = F(at, 0)
        BY <1>5, <3>1
      <3>3. at[0] = 0
        BY <3>2 DEF F
      <3> QED
        BY <3>3 DEF ReadsLow
    <2>2. \A k \in 1 .. n : k \in 0 .. n /\ k # 0
      OBVIOUS
    <2>3. \A k \in 1 .. n : /\ at[k] = F(at, k)
                             /\ g[k] = IF g[k - 1] > 65535 THEN g[k - 1] ELSE 10 * g[k - 1] + Numbers[s[k]]
      BY <1>5, <2>2 DEF ReadsLow
    <2> SUFFICES ASSUME NEW k \in 1 .. n, at[k - 1] = g[k - 1] PROVE at[k] = g[k]
      BY <2>1 DEF Alike
    <2>4. at[k] = IF at[k - 1] > 65535 THEN at[k - 1] ELSE 10 * at[k - 1] + Numbers[s[k]]
      BY <2>2, <2>3 DEF F
    <2> QED
      BY <2>3, <2>4
  <1> QED
    BY <1>1, <1>6, SameFold

\* The port as strtoul reads it, cut off at a value that is too large, is the
\* number that its digits write.
LEMMA PortValue ==
    ASSUME NEW n \in Nat, NEW s, Len(s) = n, \A i \in 1 .. n : IS_NUM(s[i]), ~ strtoul(s) > 65535
    PROVE  NumberOf(s) < 65536
  <1> DEFINE step == [p \in Nat \X (1 .. n) |-> 10 * p[1] + Numbers[s[p[2]]]]
             holds == [k \in 0 .. n |-> Nat]
             steplow == [p \in Nat \X (1 .. n) |-> IF p[1] > 65535 THEN p[1] ELSE 10 * p[1] + Numbers[s[p[2]]]]
  <1>1. /\ \A k \in 1 .. n : Numbers[s[k]] \in Nat /\ k \in 0 .. n /\ k - 1 \in 0 .. n
        /\ 0 \in 0 .. n /\ n \in 0 .. n
    BY DigitNumbers
  <1>2. \A k \in 1 .. n : \A v \in Nat :
            /\ step[<<v, k>>] = 10 * v + Numbers[s[k]] /\ step[<<v, k>>] \in Nat
            /\ steplow[<<v, k>>] = IF v > 65535 THEN v ELSE 10 * v + Numbers[s[k]]
    BY <1>1
  <1> HIDE DEF step, steplow
  <1>3. Leads(0, step, holds, n) /\ \A k \in 0 .. n : holds[k] = Nat
    BY <1>1, <1>2 DEF Leads
  <1> HIDE DEF holds
  <1>4. PICK g : Follows(g, 0, step, holds, n)
    BY <1>3, FoldKeeps
  <1>5. (\A k \in 0 .. n : g[k] \in Nat) /\ Reads(g, s, n)
    <2>1. \A k \in 0 .. n : g[k] \in Nat
      BY <1>3, <1>4 DEF Follows
    <2>2. g[0] = 0 /\ \A k \in 1 .. n : g[k] = step[<<g[k - 1], k>>]
      BY <1>4 DEF Follows
    <2>3. \A k \in 1 .. n : g[k - 1] \in Nat
      BY <1>1, <2>1
    <2>4. ASSUME NEW k \in 1 .. n PROVE g[k] = 10 * g[k - 1] + Numbers[s[k]]
      <3>1. g[k - 1] \in Nat /\ g[k] = step[<<g[k - 1], k>>]
        BY <2>2, <2>3
      <3> QED
        BY <1>2, <3>1
    <2> QED
      BY <2>1, <2>2, <2>4 DEF Reads
  <1> DEFINE low == [k \in 0 .. n |-> {v \in Nat : v <= 65535 => v = g[k]}]
  <1>6. Leads(0, steplow, low, n)
    <2>0. 0 \in low[0]
      BY <1>1, <1>5 DEF Reads
    <2>1. ASSUME NEW k \in 1 .. n, NEW v \in low[k - 1] PROVE steplow[<<v, k>>] \in low[k]
      <3>1. v \in Nat /\ (v <= 65535 => v = g[k - 1]) /\ Numbers[s[k]] \in Nat
        BY <1>1
      <3>2. g[k] \in Nat /\ g[k - 1] \in Nat /\ g[k] = 10 * g[k - 1] + Numbers[s[k]]
        BY <1>1, <1>5 DEF Reads
      <3>3. steplow[<<v, k>>] = IF v > 65535 THEN v ELSE 10 * v + Numbers[s[k]]
        BY <1>2, <3>1
      <3>4. steplow[<<v, k>>] \in Nat /\ (steplow[<<v, k>>] <= 65535 => steplow[<<v, k>>] = g[k])
        BY <3>1, <3>2, <3>3
      <3> QED
        BY <1>1, <3>4
    <2> HIDE DEF low
    <2> QED
      BY <2>0, <2>1 DEF Leads
  <1>7. PICK l : Follows(l, 0, steplow, low, n)
    <2> HIDE DEF low
    <2> QED
      BY <1>6, FoldKeeps
  <1>8. \A k \in 0 .. n : l[k] \in Nat /\ (l[k] <= 65535 => l[k] = g[k])
    BY <1>7 DEF Follows
  <1>9. ReadsLow(l, s, n)
    <2> HIDE DEF low
    <2>1. l[0] = 0 /\ \A k \in 1 .. n : l[k] = steplow[<<l[k - 1], k>>]
      BY <1>7 DEF Follows
    <2>2. \A k \in 1 .. n : l[k - 1] \in Nat
      BY <1>1, <1>8
    <2>3. ASSUME NEW k \in 1 .. n
          PROVE  l[k] = IF l[k - 1] > 65535 THEN l[k - 1] ELSE 10 * l[k - 1] + Numbers[s[k]]
      <3>1. l[k - 1] \in Nat /\ l[k] = steplow[<<l[k - 1], k>>]
        BY <2>1, <2>2
      <3> QED
        BY <1>2, <3>1
    <2> QED
      BY <2>1, <2>3 DEF ReadsLow
  <1>10. strtoul(s) = l[n] /\ NumberOf(s) = g[n]
    BY <1>5, <1>9, NumberIs, StrtoulIs
  <1> QED
    BY <1>1, <1>8, <1>10

\* The host of the first pass, cut into the parts that the second pass found in
\* it, among the fields of the first.
LEMMA CutMerged ==
    ASSUME NEW text, NEW field \in UrlExtents, NEW field2 \in UrlExtents, NEW n \in Nat,
           NEW have \in SUBSET (UrlFields \ {"PORT", "USERINFO"}), "HOST" \in have,
           NEW parts \in SUBSET HostParts, "HOST" \in parts,
           Cut(text, field, have, 1, n),
           Cut(text, field2, parts, field["HOST"].off, EndOf(field["HOST"])),
           \A f \in UrlFields \ HostParts : field2[f] = field[f]
    PROVE  Cut(text, field2, have \cup parts, 1, n)
  <1> DEFINE rest == have \ {"HOST"}
             h == field["HOST"]
  <1>1. \A g \in UrlFields : /\ field[g].off \in Nat /\ field[g].len \in Nat /\ Position[g] \in Int
                             /\ field2[g].off \in Nat /\ field2[g].len \in Nat
    BY FieldNames DEF UrlExtents
  <1>2. /\ have \cup parts = rest \cup parts /\ rest \subseteq UrlFields \ HostParts
        /\ parts \subseteq UrlFields /\ have \subseteq UrlFields /\ "HOST" \in UrlFields
    BY DEF HostParts, UrlFields
  <1>3. \A g \in rest : field2[g] = field[g] /\ g \in have /\ g \in UrlFields
    BY <1>2
  <1>4. \A g \in parts : h.off <= field2[g].off /\ EndOf(field2[g]) <= EndOf(h) /\ field2[g].len > 0
    BY DEF Cut
  <1>5. 1 <= h.off /\ EndOf(h) <= n
    BY DEF Cut
  <1>6. \A g \in rest, f \in parts :
            /\ Position[g] < Position[f] => Position[g] < Position["HOST"]
            /\ Position[f] < Position[g] => Position["HOST"] < Position[g]
    <2>1. \A g \in UrlFields \ HostParts : Position[g] \in {1, 5, 6, 7}
      BY DEF UrlFields, HostParts, Position
    <2>2. \A f \in HostParts : Position[f] \in {2, 3, 4}
      BY DEF HostParts, Position
    <2> QED
      BY <1>2, <2>1, <2>2, FieldNames
  <1> HIDE DEF rest, h
  <1>7. \A g \in rest \cup parts : field2[g].len > 0 /\ 1 <= field2[g].off /\ EndOf(field2[g]) <= n
    <2>1. \A g \in rest : field2[g].len > 0 /\ 1 <= field2[g].off /\ EndOf(field2[g]) <= n
      BY <1>3 DEF Cut
    <2>2. \A g \in parts : 1 <= field2[g].off /\ EndOf(field2[g]) <= n
      BY <1>1, <1>2, <1>4, <1>5 DEF EndOf, h
    <2> QED
      BY <1>4, <2>1, <2>2
  <1>8. \A f, g \in rest \cup parts : Position[f] < Position[g] => EndOf(field2[f]) < field2[g].off
    <2> SUFFICES ASSUME NEW f \in rest \cup parts, NEW g \in rest \cup parts, Position[f] < Position[g]
                 PROVE  EndOf(field2[f]) < field2[g].off
      OBVIOUS
    <2>1. CASE f \in rest /\ g \in rest
      BY <1>3, <2>1 DEF Cut
    <2>2. CASE f \in parts /\ g \in parts
      BY <2>2 DEF Cut
    <2>3. CASE f \in rest /\ g \in parts
      <3>1. EndOf(field[f]) < h.off
        BY <1>3, <1>6, <2>3 DEF Cut, h
      <3> QED
        BY <1>1, <1>2, <1>3, <1>4, <2>3, <3>1 DEF EndOf, h
    <2>4. CASE f \in parts /\ g \in rest
      <3>1. EndOf(h) < field[g].off
        BY <1>3, <1>6, <2>4 DEF Cut, h
      <3> QED
        BY <1>1, <1>2, <1>3, <1>4, <2>4, <3>1 DEF EndOf, h
    <2> QED
      BY <2>1, <2>2, <2>3, <2>4
  <1>9. \A i \in 1 .. n : \/ text[i] \in Delimiters
                          \/ \E g \in rest \cup parts : field2[g].off <= i /\ i <= EndOf(field2[g])
    <2> SUFFICES ASSUME NEW i \in 1 .. n, text[i] \notin Delimiters
                 PROVE  \E g \in rest \cup parts : field2[g].off <= i /\ i <= EndOf(field2[g])
      OBVIOUS
    <2>1. PICK g \in have : field[g].off <= i /\ i <= EndOf(field[g])
      BY DEF Cut
    <2>2. CASE g = "HOST"
      <3>1. i \in h.off .. EndOf(h)
        BY <1>1, <1>2, <2>1, <2>2 DEF h, EndOf
      <3> QED
        BY <3>1 DEF Cut, h
    <2>3. CASE g # "HOST"
      BY <1>3, <2>1, <2>3 DEF rest
    <2> QED
      BY <2>2, <2>3
  <1> QED
    BY <1>2, <1>7, <1>8, <1>9 DEF Cut

\* What http_parser_parse_url has found after both passes over the text: the
\* fields, and a port of digits only.
UrlFound(text, u) ==
    /\ u.set \in SUBSET UrlFields /\ u.field \in UrlExtents
    /\ Cut(text, u.field, u.set, 1, Len(text))
    /\ "PORT" \in u.set => "HOST" \in u.set
    /\ "PORT" \in u.set => \A i \in u.field["PORT"].off .. EndOf(u.field["PORT"]) : IS_NUM(text[i])

\* The second pass, which cuts the authority, ends in what both have found
\* (http_parse_host).
LEMMA AuthorityFound ==
    ASSUME NEW text, Len(text) \in Nat, NEW u0 \in UrlRead(text, Len(text))
    PROVE  /\ Authority(text, u0) \in UrlRecords \cup HostRecords
           /\ ~Authority(text, u0).bad => UrlFound(text, Authority(text, u0))
  <1> DEFINE n == Len(text)
  <1>1. u0 \in UrlRecords /\ (~u0.bad => UrlSound(text, u0, n))
    BY DEF UrlRead
  <1>2. u0.set \in SUBSET UrlFields /\ u0.field \in UrlExtents
    BY <1>1 DEF UrlRecords
  <1>3. CASE ~("HOST" \in u0.set /\ ~u0.bad)
    <2>1. Authority(text, u0) = u0
      BY <1>3 DEF Authority
    <2> QED
      BY <1>1, <1>2, <2>1 DEF UrlFound, UrlSound
  <1>4. CASE "HOST" \in u0.set /\ ~u0.bad
    <2> DEFINE h == u0.field["HOST"]
               start == IF u0.found_at THEN "userinfo_start" ELSE "host_start"
               begin == [u0 EXCEPT !.s = start, !.field["HOST"].len = 0]
               ks == [j \in 1 .. h.len |-> h.off + j - 1]
               b == Through(LAMBDA v, k : HostPass(text, v, k), begin, ks)
    <2>1. UrlSound(text, u0, n)
      BY <1>1, <1>4
    <2>2. /\ h.off \in Nat \ {0} /\ h.len \in Nat /\ u0.set \subseteq UrlFields /\ "HOST" \in UrlFields
          /\ h.off - 1 \in Nat
      <3>1. h.off \in Nat /\ h.len \in Nat /\ "HOST" \in UrlFields
        BY <1>2 DEF UrlExtents, UrlFields
      <3>2. 1 <= h.off
        BY <1>4, <2>1 DEF UrlSound, Cut
      <3> HIDE DEF h
      <3> QED
        BY <1>2, <3>1, <3>2
    <2>3. begin \in HostRead(text, u0, h.off - 1)
      <3> DEFINE field2 == [u0.field EXCEPT !["HOST"].len = 0]
      <3>1. begin = [u0 EXCEPT !.s = start, !.field = field2]
        BY <1>1 DEF UrlRecords
      <3>2. field2 \in UrlExtents /\ \A f \in UrlFields \ {"HOST"} : field2[f] = u0.field[f]
        BY <1>2 DEF UrlExtents, UrlFields
      <3>3. start \in HostStates /\ start \notin DOMAIN HostFieldOf /\ ~ HostRank[start] >= 3
        BY DEF HostStates, HostRank, HostFieldOf
      <3> HIDE DEF field2, start, begin
      <3>4. begin \in HostRecords /\ begin.field = field2 /\ begin.set = u0.set /\ begin.s = start
        BY <1>1, <3>1, <3>2, <3>3 DEF UrlRecords, HostRecords
      <3>5. u0.set \subseteq UrlFields \ {"PORT", "USERINFO"}
        BY <2>1 DEF UrlSound
      <3>6. HostHave(begin) = {}
        BY <3>3, <3>4, <3>5 DEF HostHave
      <3>7. Cut(text, field2, {}, h.off, h.off - 1)
        <4> HIDE DEF h
        <4> QED
          BY <2>2 DEF Cut
      <3>8. \A f \in UrlFields \ HostParts : begin.field[f] = u0.field[f]
        BY <3>2, <3>4 DEF HostParts
      <3>9. begin.set \ {"PORT", "USERINFO"} = u0.set /\ "PORT" \notin begin.set
        BY <3>4, <3>5
      <3>10. HostSound(text, u0, begin, h.off - 1)
        BY <3>3, <3>4, <3>6, <3>7, <3>8, <3>9 DEF HostSound
      <3> QED
        BY <3>4, <3>10 DEF HostRead
    <2>4. b \in HostRead(text, u0, EndOf(h))
      <3> HIDE DEF begin
      <3> QED
        BY <1>4, <2>2, <2>3, HostPassed
    <2>5. Authority(text, u0) = [b EXCEPT !.bad = @ \/ b.s \in Unfinished]
      BY <1>4 DEF Authority, http_parse_host, HostEnd
    <2> HIDE DEF b, h
    <2>6. b \in HostRecords /\ (~b.bad => HostSound(text, u0, b, EndOf(h)))
      BY <2>4 DEF HostRead
    <2> DEFINE a == [b EXCEPT !.bad = @ \/ b.s \in Unfinished]
    <2>7. /\ a \in HostRecords
          /\ a.field = b.field /\ a.set = b.set /\ a.bad = (b.bad \/ b.s \in Unfinished)
      BY <2>6 DEF HostRecords
    <2>8. ASSUME ~a.bad PROVE UrlFound(text, a)
      <3>1. HostSound(text, u0, b, EndOf(h)) /\ b.s \in HostStates \ Unfinished
            /\ b.field \in UrlExtents /\ b.set \in SUBSET UrlFields
        BY <2>6, <2>7, <2>8 DEF HostRecords
      <3>2. HostRank[b.s] >= 3
        BY <3>1 DEF HostStates, HostRank, Unfinished
      <3>3. HostHave(b) \in SUBSET HostParts /\ "HOST" \in HostHave(b)
        BY <3>2 DEF HostHave, HostParts
      <3>4. b.set = u0.set \cup HostHave(b)
        <4>1. b.set \ {"PORT", "USERINFO"} = u0.set
          BY <3>1 DEF HostSound
        <4> QED
          BY <1>4, <3>2, <4>1 DEF HostHave
      <3>5. Cut(text, b.field, u0.set \cup HostHave(b), 1, n)
        <4>1. u0.set \in SUBSET (UrlFields \ {"PORT", "USERINFO"}) /\ Cut(text, u0.field, u0.set, 1, n)
          BY <2>1 DEF UrlSound
        <4>2. /\ Cut(text, b.field, HostHave(b), u0.field["HOST"].off, EndOf(u0.field["HOST"]))
              /\ \A f \in UrlFields \ HostParts : b.field[f] = u0.field[f]
          BY <3>1 DEF HostSound, h
        <4> QED
          BY <1>2, <1>4, <3>1, <3>3, <4>1, <4>2, CutMerged
      <3>6. "PORT" \in b.set => \A i \in b.field["PORT"].off .. EndOf(b.field["PORT"]) : IS_NUM(text[i])
        BY <3>1 DEF HostSound
      <3>7. UrlFound(text, b)
        BY <1>4, <3>1, <3>4, <3>5, <3>6 DEF UrlFound
      <3> HIDE DEF a
      <3> QED
        BY <2>7, <3>7 DEF UrlFound
    <2> HIDE DEF a
    <2> QED
      BY <2>5, <2>7, <2>8 DEF a
  <1> QED
    BY <1>3, <1>4

\* Every text is cut into the fields it has, or rejected.
LEMMA UrlIsRight == ASSUME url \in Seq(STRING), isConnect \in BOOLEAN PROVE UrlFieldsRight
  <1> DEFINE n == Len(url)
             start == IF isConnect THEN "s_req_server_start" ELSE "s_req_spaces_before_url"
             begin == [field |-> [f \in UrlFields |-> NoField], set |-> {}, last |-> "none",
                       s |-> start, found_at |-> FALSE, bad |-> FALSE]
             u0 == Through(LAMBDA u, k : UrlPass(url, u, k), begin, [k \in 1 .. n |-> k])
             a == Authority(url, u0)
             w == UrlEnd(url, a, isConnect)
  <1>1. n \in Nat
    OBVIOUS
  <1>2. begin \in UrlRead(url, 0)
    <2>1. start \in UrlStates /\ start \notin DOMAIN FieldOf
      BY DEF UrlStates, UrlRank, FieldOf
    <2> HIDE DEF start
    <2>2. begin \in UrlRecords
      BY <2>1 DEF UrlRecords, UrlExtents, NoField
    <2>3. Cut(url, begin.field, {}, 1, 0)
      BY DEF Cut
    <2>4. UrlSound(url, begin, 0)
      BY <2>1, <2>3 DEF UrlSound
    <2> QED
      BY <2>2, <2>4 DEF UrlRead
  <1>3. u0 \in UrlRead(url, n)
    <2> HIDE DEF begin
    <2> QED
      BY <1>1, <1>2, UrlPassed
  <1>4. http_parser_parse_url(url, isConnect) = w
    BY DEF http_parser_parse_url
  <1> HIDE DEF begin, u0
  <1>5. a \in UrlRecords \cup HostRecords /\ (~a.bad => UrlFound(url, a))
    BY <1>1, <1>3, AuthorityFound
  <1> HIDE DEF a
  <1>6. /\ w.field = a.field /\ w.set = a.set
        /\ w.bad <=> \/ a.bad
                     \/ "SCHEMA" \in a.set /\ "HOST" \notin a.set
                     \/ isConnect /\ a.set # {"HOST", "PORT"}
                     \/ "PORT" \in a.set /\ PortOf(url, a) > 65535
    BY <1>5 DEF UrlEnd, UrlRecords, HostRecords
  <1> HIDE DEF w
  <1>7. ASSUME ~w.bad PROVE FieldsPartitionUrl(w) /\ FieldsUsable(w)
    <2>1. /\ w.set \in SUBSET UrlFields /\ w.field \in UrlExtents
          /\ Cut(url, w.field, w.set, 1, n)
          /\ "PORT" \in w.set => \A i \in w.field["PORT"].off .. EndOf(w.field["PORT"]) : IS_NUM(url[i])
      BY <1>5, <1>6, <1>7 DEF UrlFound
    <2>2. \A f \in UrlFields : w.field[f].off \in Nat /\ w.field[f].len \in Nat
      BY <2>1 DEF UrlExtents
    <2>3. FieldsPartitionUrl(w)
      <3>1. \A f \in w.set : w.field[f].len > 0 /\ Extent(w, f) \subseteq 1 .. n
        BY <1>1, <2>1, <2>2 DEF Cut, Extent, EndOf
      <3>2. \A f, g \in w.set : Position[f] < Position[g] =>
                \A i \in Extent(w, f), j \in Extent(w, g) : i < j
        <4> SUFFICES ASSUME NEW f \in w.set, NEW g \in w.set, Position[f] < Position[g],
                            NEW i \in Extent(w, f), NEW j \in Extent(w, g)
                     PROVE  i < j
          OBVIOUS
        <4>1. EndOf(w.field[f]) < w.field[g].off
          BY <2>1 DEF Cut
        <4>2. f \in UrlFields /\ g \in UrlFields
          BY <2>1
        <4>3. /\ w.field[f].off \in Nat /\ w.field[f].len \in Nat
              /\ w.field[g].off \in Nat /\ w.field[g].len \in Nat
          BY <2>2, <4>2
        <4>4. i \in w.field[f].off .. EndOf(w.field[f]) /\ j \in w.field[g].off .. EndOf(w.field[g])
          BY DEF Extent, EndOf
        <4>5. EndOf(w.field[f]) \in Int /\ EndOf(w.field[g]) \in Int
          BY <4>3, EndIsInt
        <4> QED
          BY <4>1, <4>3, <4>4, <4>5
      <3>3. \A i \in (1 .. n) \ UNION {Extent(w, f) : f \in w.set} :
                url[i] \in {":", "/", "@", "[", "]", "?", "#"}
        BY <2>1, <2>2 DEF Cut, Extent, EndOf, Delimiters
      <3> QED
        BY <3>1, <3>2, <3>3 DEF FieldsPartitionUrl
    <2>4. ASSUME "PORT" \in w.set PROVE NumberOf(FieldText(url, w, "PORT")) < 65536
      <3> DEFINE off == w.field["PORT"].off
                 len == w.field["PORT"].len
                 s == FieldText(url, w, "PORT")
      <3>1. off \in Nat /\ len \in Nat /\ 1 <= off /\ off + len - 1 <= n /\ len > 0
        BY <2>1, <2>2, <2>4 DEF Cut, EndOf
      <3>2. \A i \in off .. off + len - 1 : IS_NUM(url[i])
        BY <2>1, <2>4 DEF EndOf
      <3>3. s = SubSeq(url, off, off + len - 1)
        BY DEF FieldText
      <3> HIDE DEF off, len, s
      <3>4. Len(s) = len /\ \A i \in 1 .. len : s[i] = url[off + i - 1]
        BY <1>1, <3>1, <3>3
      <3>5. \A i \in 1 .. len : IS_NUM(s[i])
        <4>1. \A i \in 1 .. len : off + i - 1 \in off .. off + len - 1
          BY <3>1
        <4> QED
          BY <3>2, <3>4, <4>1
      <3>6. ~ strtoul(s) > 65535
        BY <1>6, <1>7, <2>4 DEF PortOf, FieldText, s
      <3>7. ~ strtoul(s) > 65535 => NumberOf(s) < 65536
        <4>1. len \in Nat /\ Len(s) = len
          BY <3>1, <3>4
        <4> QED
          BY <3>5, <4>1, PortValue
      <3> QED
        BY <3>6, <3>7 DEF s
    <2> QED
      BY <1>6, <1>7, <2>3, <2>4 DEF FieldsUsable
  <1> QED
    BY <1>4, <1>7 DEF UrlFieldsRight, FieldsPartitionUrl, FieldsUsable

UrlSpec == UrlInit /\ [][UrlNext]_urlVars

\* Whatever is typed as an address, and however long it is: what
\* http_parser_parse_url accepts is cut into fields in their order, the rest is
\* delimiters, there is a host where one is needed, and the port fits 16 bits.
THEOREM UrlsAreCut == UrlSpec => []UrlFieldsRight
  <1> DEFINE typing == url \in Seq(STRING) /\ isConnect \in BOOLEAN
  <1>1. UrlInit => typing
    BY UrlConstants DEF UrlInit
  <1>2. typing /\ [UrlNext]_urlVars => typing'
    <2> SUFFICES ASSUME typing, [UrlNext]_urlVars PROVE typing'
      OBVIOUS
    <2>1. ASSUME NEW c \in UrlAlphabet, Type(c) PROVE typing'
      <3>1. c \in STRING
        BY UrlConstants
      <3> QED
        BY <2>1, <3>1, AppendProperties DEF Type
    <2>2. CASE UNCHANGED urlVars
      BY <2>2 DEF urlVars
    <2> QED
      BY <2>1, <2>2 DEF UrlNext
  <1>3. typing => UrlFieldsRight
    BY UrlIsRight
  <1> QED
    BY <1>1, <1>2, <1>3, PTL DEF UrlSpec
-----------------------------------------------------------------------------
(***************************************************************************)
(* The frames of the homebrew protocol.                                    *)
(***************************************************************************)
FrameSpec == FrameInit /\ [][FrameNext]_frameVars

\* Where a field of w bytes stands.
InPlace(r, at, w, c) ==
    at \in Nat /\ w \in Nat /\ at + w <= r.len /\ \A j \in 1 .. w : r.buf[at + j] = c[j]

\* A frame into which the first k of its fields were put, and the steps that put
\* them there.
FieldsUpTo(r, starts, widths, texts, k) ==
    /\ RawType(r) /\ ZeroTail(r) /\ r.len = starts[k + 1]
    /\ \A i \in 1 .. k : InPlace(r, starts[i], widths[i], texts[i])
Layout(starts, widths, n) ==
    \A k \in 1 .. n : starts[k] \in Nat /\ widths[k] \in Nat /\ starts[k + 1] = starts[k] + widths[k]
RawBufs == [buf : Seq(Stored), len : Nat]
Runs(f, base, step, n) ==
    /\ f[0] = base /\ \A k \in 1 .. n : f[k] = step[<<f[k - 1], k>>]
    /\ \A k \in 0 .. n : f[k] \in RawBufs
Extends(step, widths, texts, n) ==
    \A k \in 1 .. n : \A r \in RawBufs : RawType(r) /\ ZeroTail(r) =>
        step[<<r, k>>] \in RawBufs /\ Extended(r, step[<<r, k>>], widths[k], texts[k])

\* What stands in its place stays there when more is added.
LEMMA StaysInPlace ==
    ASSUME NEW r, RawType(r), NEW n \in Nat, NEW more, NEW q, Extended(r, q, n, more),
           NEW at, NEW w, NEW c, InPlace(r, at, w, c)
    PROVE  InPlace(q, at, w, c)
  <1>1. r.len \in Nat /\ q.len = r.len + n /\ \A i \in 1 .. r.len : q.buf[i] = r.buf[i]
    BY DEF Extended, RawType
  <1>2. at \in Nat /\ w \in Nat /\ at + w <= r.len /\ \A j \in 1 .. w : r.buf[at + j] = c[j]
    BY DEF InPlace
  <1>3. \A j \in 1 .. w : at + j \in 1 .. r.len
    BY <1>1, <1>2
  <1>4. \A j \in 1 .. w : q.buf[at + j] = c[j]
    BY <1>1, <1>2, <1>3
  <1>5. at + w <= q.len
    BY <1>1, <1>2
  <1> QED
    BY <1>2, <1>4, <1>5 DEF InPlace

\* A field that is added leaves those before it where they are.
LEMMA NextField ==
    ASSUME NEW starts, NEW widths, NEW texts, NEW n \in Nat, Layout(starts, widths, n), NEW k \in 1 .. n,
           NEW r, FieldsUpTo(r, starts, widths, texts, k - 1),
           NEW q, Extended(r, q, widths[k], texts[k])
    PROVE  FieldsUpTo(q, starts, widths, texts, k)
  <1>1. k - 1 + 1 = k /\ starts[k] \in Nat /\ widths[k] \in Nat /\ starts[k + 1] = starts[k] + widths[k]
    BY DEF Layout
  <1>2. r.len = starts[k]
    BY <1>1 DEF FieldsUpTo
  <1>3. RawType(q) /\ ZeroTail(q) /\ q.len = starts[k + 1]
    BY <1>1, <1>2 DEF Extended
  <1>4. InPlace(q, starts[k], widths[k], texts[k])
    BY <1>1, <1>2, <1>3 DEF InPlace, Extended
  <1>5. ASSUME NEW i \in 1 .. k - 1 PROVE InPlace(q, starts[i], widths[i], texts[i])
    <2>1. InPlace(r, starts[i], widths[i], texts[i])
      BY <1>5 DEF FieldsUpTo
    <2>2. RawType(r) /\ widths[k] \in Nat
      BY <1>1 DEF FieldsUpTo
    <2> QED
      BY <2>1, <2>2, StaysInPlace
  <1>6. \A i \in 1 .. k : i = k \/ i \in 1 .. k - 1
    OBVIOUS
  <1> QED
    BY <1>3, <1>4, <1>5, <1>6, Zenon DEF FieldsUpTo

\* After all of its steps a frame has all of its fields.
LEMMA FieldsBuilt ==
    ASSUME NEW starts, NEW widths, NEW texts, NEW n \in Nat, Layout(starts, widths, n),
           NEW base \in RawBufs, FieldsUpTo(base, starts, widths, texts, 0),
           NEW step, Extends(step, widths, texts, n), NEW w, NEW name, InPlace(base, 0, w, name)
    PROVE  \E f : /\ Runs(f, base, step, n) /\ FieldsUpTo(f[n], starts, widths, texts, n)
                  /\ InPlace(f[n], 0, w, name)
  <1> DEFINE Good(r, k) == FieldsUpTo(r, starts, widths, texts, k) /\ InPlace(r, 0, w, name)
             holds == [k \in 0 .. n |-> {r \in RawBufs : Good(r, k)}]
  <1>1. \A k \in 0 .. n : holds[k] = {r \in RawBufs : Good(r, k)}
    OBVIOUS
  <1>2. 0 \in 0 .. n /\ n \in 0 .. n /\ \A k \in 1 .. n : k \in 0 .. n /\ k - 1 \in 0 .. n
    OBVIOUS
  <1> HIDE DEF holds
  <1>3. Leads(base, step, holds, n)
    <2>1. base \in holds[0]
      BY <1>1, <1>2
    <2>2. ASSUME NEW k \in 1 .. n, NEW u \in holds[k - 1] PROVE step[<<u, k>>] \in holds[k]
      <3>1. /\ u \in RawBufs /\ FieldsUpTo(u, starts, widths, texts, k - 1)
            /\ InPlace(u, 0, w, name)
        BY <1>1, <1>2
      <3>2. RawType(u) /\ ZeroTail(u)
        BY <3>1 DEF FieldsUpTo
      <3>3. step[<<u, k>>] \in RawBufs /\ Extended(u, step[<<u, k>>], widths[k], texts[k])
        BY <3>1, <3>2 DEF Extends
      <3>4. FieldsUpTo(step[<<u, k>>], starts, widths, texts, k)
        BY <3>1, <3>3, NextField
      <3>5. widths[k] \in Nat
        BY DEF Layout
      <3>6. InPlace(step[<<u, k>>], 0, w, name)
        BY <3>1, <3>2, <3>3, <3>5, StaysInPlace
      <3> QED
        BY <1>1, <1>2, <3>3, <3>4, <3>6
    <2> QED
      BY <2>1, <2>2 DEF Leads
  <1>4. PICK f : Follows(f, base, step, holds, n)
    BY <1>3, FoldKeeps
  <1>5. f[0] = base /\ (\A k \in 1 .. n : f[k] = step[<<f[k - 1], k>>]) /\ \A k \in 0 .. n : f[k] \in holds[k]
    BY <1>4 DEF Follows
  <1>6. \A k \in 0 .. n : /\ f[k] \in RawBufs /\ FieldsUpTo(f[k], starts, widths, texts, k)
                         /\ InPlace(f[k], 0, w, name)
    BY <1>1, <1>5
  <1> QED
    BY <1>2, <1>5, <1>6 DEF Runs

\* Two recursions that go on alike end alike.
LEMMA SameEnd ==
    ASSUME NEW n \in Nat, NEW f, NEW g, Alike(f, g, n)
    PROVE  f[n] = g[n]
  <1>1. n \in 0 .. n
    OBVIOUS
  <1> QED
    BY <1>1, SameFold

\* A new buffer holds nothing yet.
LEMMA NewRawIsEmpty ==
    ASSUME NEW n \in Nat
    PROVE  /\ dmr_raw_new(n) \in RawBufs /\ RawType(dmr_raw_new(n)) /\ ZeroTail(dmr_raw_new(n))
           /\ dmr_raw_new(n).len = 0 /\ Holds(dmr_raw_new(n), <<>>) /\ Len(dmr_raw_new(n).buf) >= n
  <1> DEFINE z == Zeros(RoundUp(n))
  <1>1. z \in Seq(Stored) /\ Len(z) \in Nat /\ \A i \in 1 .. Len(z) : z[i] = 0
    <2>1. RoundUp(n) \in Nat /\ RoundUp(n) >= n
      BY RoundedUp
    <2> QED
      BY <2>1, ZeroBytes
  <1>3. Len(z) >= n
    BY RoundedUp, ZeroBytes
  <1>2. dmr_raw_new(n) = [buf |-> z, len |-> 0]
    BY DEF dmr_raw_new
  <1> HIDE DEF z
  <1> QED
    BY <1>1, <1>2, <1>3 DEF RawBufs, RawType, ZeroTail, Holds

\* The fields of a DMRD frame: its name, sequence number, source, destination,
\* repeater, slot information, stream and packet.
DmrdStarts == <<0, 4, 5, 8, 11, 15, 16, 20, 53>>
DmrdWidths == <<4, 1, 3, 3, 4, 1, 4, 33>>
DmrdTexts(p, dmo) ==
    <<DMRD, <<p.sequence % 256>>, Bytes(Word(3, p.src_id)), Bytes(Word(3, p.dst_id)),
      Bytes(Word(4, p.repeater_id)), <<slot_info(p, dmo)>>, Bytes(Word(4, p.stream_id)), p.packet>>

\* What a packet is made of.
LEMMA PacketFields ==
    ASSUME NEW p \in Packets
    PROVE  /\ p.ts \in {0, 1} /\ p.flco \in {0, 1} /\ p.voice_frame \in 0 .. 15 /\ p.sequence \in Nat
           /\ p.data_type \in Nat
           /\ p.data_type \in 0 .. 15 \/ p.data_type \in {32, 240, 241}
           /\ p.packet \in [1 .. 33 -> 0 .. 255]
  <1> DEFINE Types == 0 .. 15 \cup {SYNC_VOICE, VOICE_SYNC, VOICE}
             Bursts == [1 .. PACKET_LEN -> 0 .. 255]
  <1>1. p \in [ts : {0, 1}, flco : {0, 1}, data_type : Types, voice_frame : 0 .. 15, sequence : Nat,
               src_id : Nat, dst_id : Nat, repeater_id : Nat, stream_id : Nat, packet : Bursts]
    BY FrameConstants
  <1>2. \A x \in Types : x \in Nat /\ (x \in 0 .. 15 \/ x \in {32, 240, 241})
    BY DEF SYNC_VOICE, VOICE_SYNC, VOICE
  <1>3. Bursts = [1 .. 33 -> 0 .. 255]
    BY DEF PACKET_LEN
  <1> HIDE DEF Types, Bursts
  <1>4. p.ts \in {0, 1} /\ p.flco \in {0, 1} /\ p.voice_frame \in 0 .. 15 /\ p.sequence \in Nat
    BY <1>1
  <1>5. p.data_type \in Types /\ p.packet \in Bursts
    BY <1>1
  <1> QED
    BY <1>2, <1>3, <1>4, <1>5

\* The slot information is one byte.
LEMMA SlotInfoIsByte ==
    ASSUME NEW p \in Packets, NEW dmo \in BOOLEAN
    PROVE  slot_info(p, dmo) \in 0 .. 255
  <1> DEFINE type == IF p.data_type \in {DATA_TYPE_INVALID, VOICE} THEN p.voice_frame * 16
                     ELSE IF p.data_type = VOICE_SYNC THEN 4 ELSE 8 + p.data_type * 16
             x == type + (IF dmo THEN 0 ELSE p.ts) + (IF p.flco = 1 THEN 2 ELSE 0)
  <1>1. p.ts \in {0, 1} /\ p.voice_frame \in 0 .. 15 /\ p.data_type \in Nat
    BY PacketFields, Zenon
  <1>2. slot_info(p, dmo) = x % 256
    BY DEF slot_info
  <1>3. type \in Nat
    BY <1>1
  <1> HIDE DEF type
  <1>4. x \in Nat
    BY <1>1, <1>3
  <1> HIDE DEF x
  <1> QED
    BY <1>2, <1>4

\* Each of the fields has its width.
LEMMA DmrdWords ==
    ASSUME NEW p \in Packets, NEW dmo \in BOOLEAN, NEW k \in 1 .. 8
    PROVE  /\ DmrdTexts(p, dmo)[k] \in Seq(Stored) /\ DmrdWidths[k] \in Nat
           /\ Len(DmrdTexts(p, dmo)[k]) = DmrdWidths[k]
  <1> DEFINE t == DmrdTexts(p, dmo)
             Fits(s, w) == s \in Seq(Stored) /\ Len(s) = w
  <1>1. Fits(DMRD, 4)
    BY DEF Stored, DMRD
  <1>2. Fits(<<p.sequence % 256>>, 1) /\ Fits(<<slot_info(p, dmo)>>, 1)
    <2>1. p.sequence % 256 \in Stored
      <3>1. p.sequence \in Nat
        BY PacketFields, Zenon
      <3>2. p.sequence % 256 \in Nat
        BY <3>1
      <3> QED
        BY <3>2 DEF Stored
    <2>2. slot_info(p, dmo) \in Stored
      BY SlotInfoIsByte DEF Stored
    <2> QED
      BY <2>1, <2>2
  <1>3. ASSUME NEW w \in FrameWords PROVE Fits(Bytes(w), w.size)
    BY WordBytes DEF AllWords
  <1>4. /\ Word(3, p.src_id) \in FrameWords /\ Word(3, p.dst_id) \in FrameWords
        /\ Word(4, p.repeater_id) \in FrameWords /\ Word(4, p.stream_id) \in FrameWords
    BY DEF FrameWords
  <1>5. \A n, v : Word(n, v).size = n
    BY DEF Word
  <1>6. Fits(p.packet, 33)
    <2> DEFINE burst == p.packet
    <2>1. burst \in [1 .. 33 -> 0 .. 255]
      BY PacketFields, Zenon
    <2>2. 0 .. 255 \subseteq Stored
      BY DEF Stored
    <2> HIDE DEF burst
    <2>3. burst = [i \in 1 .. 33 |-> burst[i]] /\ \A i \in 1 .. 33 : burst[i] \in Stored
      BY <2>1, <2>2
    <2>4. burst \in Seq(Stored) /\ Len(burst) = 33
      BY <2>3, AsSequence
    <2> QED
      BY <2>4 DEF burst
  <1>7. /\ t[1] = DMRD /\ t[2] = <<p.sequence % 256>> /\ t[3] = Bytes(Word(3, p.src_id))
        /\ t[4] = Bytes(Word(3, p.dst_id)) /\ t[5] = Bytes(Word(4, p.repeater_id))
        /\ t[6] = <<slot_info(p, dmo)>> /\ t[7] = Bytes(Word(4, p.stream_id)) /\ t[8] = p.packet
    BY DEF DmrdTexts
  <1>8. /\ DmrdWidths[1] = 4 /\ DmrdWidths[2] = 1 /\ DmrdWidths[3] = 3 /\ DmrdWidths[4] = 3
        /\ DmrdWidths[5] = 4 /\ DmrdWidths[6] = 1 /\ DmrdWidths[7] = 4 /\ DmrdWidths[8] = 33
    BY DEF DmrdWidths
  <1> HIDE DEF t, Fits
  <1>9. /\ Fits(t[3], 3) /\ Fits(t[4], 3) /\ Fits(t[5], 4) /\ Fits(t[7], 4)
    BY <1>3, <1>4, <1>5, <1>7
  <1>10. Fits(t[1], 4) /\ Fits(t[2], 1) /\ Fits(t[6], 1) /\ Fits(t[8], 33)
    BY <1>1, <1>2, <1>6, <1>7
  <1>11. \/ k = 1 \/ k = 2 \/ k = 3 \/ k = 4 \/ k = 5 \/ k = 6 \/ k = 7 \/ k = 8
    OBVIOUS
  <1>12. Fits(t[k], DmrdWidths[k]) /\ DmrdWidths[k] \in Nat
    BY <1>8, <1>9, <1>10, <1>11
  <1> QED
    BY <1>12 DEF t, Fits

\* The frame that dmr_homebrew_send builds has its fields in their places.
LEMMA DmrdFields ==
    ASSUME NEW p \in Packets, NEW dmo \in BOOLEAN
    PROVE  FieldsUpTo(dmr_homebrew_send(p, dmo), DmrdStarts, DmrdWidths, DmrdTexts(p, dmo), 8)
  <1> DEFINE t == DmrdTexts(p, dmo)
             base == dmr_raw_new(53)
             step == [a \in RawBufs \X (1 .. 8) |-> dmr_raw_add(a[1], t[a[2]])]
             F(f, k) == IF k = 0 THEN base ELSE dmr_raw_add(f[k - 1], t[k])
             at == CHOOSE f : f = [k \in 0 .. 8 |-> F(f, k)]
  <1>1. dmr_homebrew_send(p, dmo) = at[8]
    BY DEF dmr_homebrew_send, Built, DmrdTexts
  <1>2. /\ base \in RawBufs /\ RawType(base) /\ ZeroTail(base) /\ base.len = 0
    BY NewRawIsEmpty
  <1>3. \A k \in 1 .. 8 : t[k] \in Seq(Stored) /\ DmrdWidths[k] \in Nat /\ Len(t[k]) = DmrdWidths[k]
    BY DmrdWords
  <1> HIDE DEF t, base
  <1>4. \A k \in 1 .. 8 : \A r \in RawBufs : step[<<r, k>>] = dmr_raw_add(r, t[k])
    OBVIOUS
  <1> HIDE DEF step
  <1>5. Layout(DmrdStarts, DmrdWidths, 8)
    BY DEF Layout, DmrdStarts, DmrdWidths
  <1>6. FieldsUpTo(base, DmrdStarts, DmrdWidths, t, 0)
    BY <1>2 DEF FieldsUpTo, DmrdStarts
  <1>7. Extends(step, DmrdWidths, t, 8)
    <2>1. ASSUME NEW k \in 1 .. 8, NEW r \in RawBufs, RawType(r), ZeroTail(r)
          PROVE  step[<<r, k>>] \in RawBufs /\ Extended(r, step[<<r, k>>], DmrdWidths[k], t[k])
      <3>1. Extended(r, dmr_raw_add(r, t[k]), DmrdWidths[k], t[k])
        BY <1>3, <2>1, RawAdded
      <3>2. dmr_raw_add(r, t[k]) \in RawBufs
        BY <3>1 DEF Extended, RawType, RawBufs
      <3> QED
        BY <1>4, <3>1, <3>2
    <2> QED
      BY <2>1 DEF Extends
  <1>8. PICK f : Runs(f, base, step, 8) /\ FieldsUpTo(f[8], DmrdStarts, DmrdWidths, t, 8)
    <2>1. 8 \in Nat
      OBVIOUS
    <2>2. InPlace(base, 0, 0, <<>>)
      BY <1>2 DEF InPlace
    <2> QED
      BY <1>2, <1>5, <1>6, <1>7, <2>1, <2>2, FieldsBuilt, Zenon
  <1>9. \A k \in 1 .. 8 : f[k] = dmr_raw_add(f[k - 1], t[k])
    <2>1. \A k \in 1 .. 8 : k - 1 \in 0 .. 8
      OBVIOUS
    <2> QED
      BY <1>4, <1>8, <2>1 DEF Runs
  <1>10. at[8] = f[8]
    <2> DEFINE all == [k \in 0 .. 8 |-> f[k]]
    <2>0. \A k \in 0 .. 8 : all[k] = f[k]
      OBVIOUS
    <2> HIDE DEF all
    <2>1. ASSUME NEW k \in 0 .. 8 PROVE all[k] = F(all, k)
      <3>1. CASE k = 0
        BY <1>8, <2>0, <3>1 DEF Runs
      <3>2. CASE k # 0
        <4>1. k \in 1 .. 8 /\ k - 1 \in 0 .. 8
          BY <3>2
        <4>2. all[k] = f[k] /\ all[k - 1] = f[k - 1]
          BY <2>0, <4>1
        <4> QED
          BY <1>9, <3>2, <4>1, <4>2
      <3> QED
        BY <3>1, <3>2
    <2> HIDE DEF F
    <2>2. all = [k \in 0 .. 8 |-> F(all, k)]
      BY <2>1 DEF all
    <2>3. at = [k \in 0 .. 8 |-> F(at, k)]
      BY <2>2
    <2> HIDE DEF at
    <2>4. \A k \in 0 .. 8 : at[k] = F(at, k)
      BY <2>3
    <2>5. Alike(at, f, 8)
      <3>1. at[0] = f[0]
        BY <1>8, <2>4 DEF F, Runs
      <3>2. \A k \in 1 .. 8 : k \in 0 .. 8 /\ k # 0
        OBVIOUS
      <3>3. \A k \in 1 .. 8 : at[k] = dmr_raw_add(at[k - 1], t[k])
        BY <2>4, <3>2 DEF F
      <3> QED
        BY <1>9, <3>1, <3>3 DEF Alike
    <2>6. 8 \in Nat
      OBVIOUS
    <2> QED
      BY <2>5, <2>6, SameEnd
  <1> QED
    BY <1>1, <1>8, <1>10 DEF t

\* A field that is in its place is read from there.
LEMMA SliceIs ==
    ASSUME NEW r, RawType(r), NEW at, NEW w, NEW c \in Seq(Stored), InPlace(r, at, w, c), w <= Len(c)
    PROVE  Slice(r, at, w) = SubSeq(c, 1, w)
  <1> DEFINE b == r.buf
             m == at + 1
             n == at + w
  <1>1. b \in Seq(Stored) /\ at \in Nat /\ w \in Nat /\ n <= Len(b) /\ \A j \in 1 .. w : b[at + j] = c[j]
    BY DEF RawType, InPlace
  <1>2. Slice(r, at, w) = SubSeq(b, m, n)
    BY DEF Slice
  <1>3. m \in 1 .. Len(b) + 1 /\ n \in m - 1 .. Len(b) /\ n - m + 1 = w
    BY <1>1
  <1>4. 1 \in 1 .. Len(c) + 1 /\ w \in 1 - 1 .. Len(c) /\ w - 1 + 1 = w
    BY <1>1
  <1>5. \A i \in 1 .. w : m + i - 1 = at + i /\ 1 + i - 1 = i
    BY <1>1
  <1> HIDE DEF b, m, n
  <1>6. /\ SubSeq(b, m, n) \in Seq(Stored) /\ Len(SubSeq(b, m, n)) = w
        /\ \A i \in 1 .. w : SubSeq(b, m, n)[i] = b[m + i - 1]
    BY <1>1, <1>3, SubSeqProperties
  <1>7. /\ SubSeq(c, 1, w) \in Seq(Stored) /\ Len(SubSeq(c, 1, w)) = w
        /\ \A i \in 1 .. w : SubSeq(c, 1, w)[i] = c[1 + i - 1]
    BY <1>1, <1>4, SubSeqProperties
  <1>8. \A i \in 1 .. w : SubSeq(b, m, n)[i] = SubSeq(c, 1, w)[i]
    <2> SUFFICES ASSUME NEW i \in 1 .. w PROVE SubSeq(b, m, n)[i] = SubSeq(c, 1, w)[i]
      OBVIOUS
    <2>1. SubSeq(b, m, n)[i] = b[m + i - 1] /\ SubSeq(c, 1, w)[i] = c[1 + i - 1]
      BY <1>6, <1>7
    <2>2. m + i - 1 = at + i /\ 1 + i - 1 = i /\ b[at + i] = c[i]
      BY <1>1, <1>5
    <2> QED
      BY <2>1, <2>2
  <1> DEFINE x == SubSeq(b, m, n)
             y == SubSeq(c, 1, w)
  <1>9. x \in Seq(Stored) /\ y \in Seq(Stored) /\ Len(x) = Len(y) /\ \A i \in 1 .. Len(x) : x[i] = y[i]
    BY <1>6, <1>7, <1>8
  <1> HIDE DEF x, y
  <1>10. x = y
    BY <1>9
  <1> QED
    BY <1>2, <1>10 DEF x, y

\* A text is a string of bytes.
IsText(text) == text \in Seq(0 .. 255)

\* A text that is formatted for a field of n fills it.
LEMMA PaddedFills ==
    ASSUME NEW text, IsText(text), NEW n \in Nat
    PROVE  padded(text, n) \in Seq(Stored) /\ Len(padded(text, n)) >= n
  <1> USE DEF IsText
  <1> DEFINE B == 0 .. 255
             m == n - Len(text)
             blanks == [i \in 1 .. m |-> 32]
  <1>1. B \subseteq Stored
    BY DEF Stored
  <1>2. padded(text, n) \in Seq(B) /\ Len(padded(text, n)) >= n
    <2>1. CASE Len(text) >= n
      BY <2>1 DEF padded
    <2>2. CASE ~ Len(text) >= n
      <3>1. m \in Nat /\ blanks \in Seq(B) /\ Len(blanks) = m /\ Len(text) + m = n
        BY <2>2
      <3>2. padded(text, n) = text \o blanks
        BY <2>2 DEF padded
      <3> HIDE DEF blanks, m, B
      <3>3. text \in Seq(B)
        BY DEF B
      <3>4. text \o blanks \in Seq(B) /\ Len(text \o blanks) = Len(text) + Len(blanks)
        BY <3>1, <3>3, ConcatProperties
      <3> QED
        BY <3>1, <3>2, <3>4
    <2> QED
      BY <2>1, <2>2
  <1> HIDE DEF B
  <1> QED
    BY <1>1, <1>2, SeqMonotonic

\* The texts of a configuration, one per field.
ConfigTexts(text) == [k \in 1 .. 14 |-> padded(text, FieldWidths[k])]

\* The fields of a configuration stand one behind the other (homebrew_send_config).
LEMMA ConfigLayout == Layout(FieldStarts, FieldWidths, 14) /\ DOMAIN FieldWidths = 1 .. 14
  BY DEF Layout, FieldStarts, FieldWidths

\* Every text of a configuration stands in its field, the last of which ends where
\* the frame does (homebrew_send_config).
LEMMA ConfigFields ==
    ASSUME NEW text, IsText(text), NEW id
    PROVE  /\ FieldsUpTo(config(id, text), FieldStarts, FieldWidths, ConfigTexts(text), 14)
           /\ InPlace(config(id, text), 0, 4, RPTC)
  <1> DEFINE t == ConfigTexts(text)
             base == Named(dmr_raw_new(302), RPTC)
             step == [a \in RawBufs \X (1 .. 14) |-> dmr_raw_addf(a[1], FieldWidths[a[2]], t[a[2]])]
             F(f, k) == IF k = 0 THEN base
                        ELSE dmr_raw_addf(f[k - 1], FieldWidths[k], padded(text, FieldWidths[k]))
             at == CHOOSE f : f = [k \in 0 .. 14 |-> F(f, k)]
  <1>1. config(id, text) = at[14]
    BY DEF config, Built
  <1>2. /\ base \in RawBufs /\ RawType(base) /\ ZeroTail(base) /\ base.len = 4
        /\ InPlace(base, 0, 4, RPTC)
    <2> DEFINE new == dmr_raw_new(302)
    <2>1. new \in RawBufs /\ RawType(new) /\ ZeroTail(new) /\ new.len = 0
      BY NewRawIsEmpty
    <2>2. RPTC \in Seq(Stored) /\ Len(RPTC) = 4
      BY DEF RPTC, Stored
    <2>3. base = dmr_raw_add(new, RPTC)
      BY DEF Named
    <2> HIDE DEF new, base
    <2>4. Extended(new, base, 4, RPTC)
      BY <2>1, <2>2, <2>3, RawAdded
    <2>5. /\ RawType(base) /\ ZeroTail(base) /\ base.len = 4
          /\ \A j \in 1 .. 4 : base.buf[0 + j] = RPTC[j]
      BY <2>1, <2>4 DEF Extended
    <2> QED
      BY <2>5 DEF RawType, RawBufs, InPlace
  <1>3. \A k \in 1 .. 14 : /\ FieldWidths[k] \in Nat /\ t[k] = padded(text, FieldWidths[k])
                          /\ t[k] \in Seq(Stored) /\ Len(t[k]) >= FieldWidths[k]
    BY ConfigLayout, PaddedFills DEF Layout, ConfigTexts
  <1> HIDE DEF t, base
  <1>4. \A k \in 1 .. 14 : \A r \in RawBufs : step[<<r, k>>] = dmr_raw_addf(r, FieldWidths[k], t[k])
    OBVIOUS
  <1> HIDE DEF step
  <1>6. FieldsUpTo(base, FieldStarts, FieldWidths, t, 0)
    BY <1>2 DEF FieldsUpTo, FieldStarts
  <1>7. Extends(step, FieldWidths, t, 14)
    <2>1. ASSUME NEW k \in 1 .. 14, NEW r \in RawBufs, RawType(r), ZeroTail(r)
          PROVE  step[<<r, k>>] \in RawBufs /\ Extended(r, step[<<r, k>>], FieldWidths[k], t[k])
      <3>1. Extended(r, dmr_raw_addf(r, FieldWidths[k], t[k]), FieldWidths[k], t[k])
        BY <1>3, <2>1, RawPrinted
      <3>2. dmr_raw_addf(r, FieldWidths[k], t[k]) \in RawBufs
        BY <3>1 DEF Extended, RawType, RawBufs
      <3> QED
        BY <1>4, <3>1, <3>2
    <2> QED
      BY <2>1 DEF Extends
  <1>8. PICK f : /\ Runs(f, base, step, 14) /\ FieldsUpTo(f[14], FieldStarts, FieldWidths, t, 14)
                /\ InPlace(f[14], 0, 4, RPTC)
    <2>1. 14 \in Nat
      OBVIOUS
    <2> QED
      BY <1>2, <1>6, <1>7, <2>1, ConfigLayout, FieldsBuilt, Zenon
  <1>9. \A k \in 1 .. 14 : f[k] = dmr_raw_addf(f[k - 1], FieldWidths[k], padded(text, FieldWidths[k]))
    <2>1. \A k \in 1 .. 14 : k - 1 \in 0 .. 14
      OBVIOUS
    <2> QED
      BY <1>3, <1>4, <1>8, <2>1 DEF Runs
  <1>10. at[14] = f[14]
    <2> DEFINE all == [k \in 0 .. 14 |-> f[k]]
    <2>0. \A k \in 0 .. 14 : all[k] = f[k]
      OBVIOUS
    <2> HIDE DEF all
    <2>1. ASSUME NEW k \in 0 .. 14 PROVE all[k] = F(all, k)
      <3>1. CASE k = 0
        BY <1>8, <2>0, <3>1 DEF Runs
      <3>2. CASE k # 0
        <4>1. k \in 1 .. 14 /\ k - 1 \in 0 .. 14
          BY <3>2
        <4>2. all[k] = f[k] /\ all[k - 1] = f[k - 1]
          BY <2>0, <4>1
        <4> QED
          BY <1>9, <3>2, <4>1, <4>2
      <3> QED
        BY <3>1, <3>2
    <2> HIDE DEF F
    <2>2. all = [k \in 0 .. 14 |-> F(all, k)]
      BY <2>1 DEF all
    <2>3. at = [k \in 0 .. 14 |-> F(at, k)]
      BY <2>2
    <2> HIDE DEF at
    <2>4. \A k \in 0 .. 14 : at[k] = F(at, k)
      BY <2>3
    <2>5. Alike(at, f, 14)
      <3>1. at[0] = f[0]
        BY <1>8, <2>4 DEF F, Runs
      <3>2. \A k \in 1 .. 14 : k \in 0 .. 14 /\ k # 0
        OBVIOUS
      <3>3. \A k \in 1 .. 14 : at[k] = dmr_raw_addf(at[k - 1], FieldWidths[k], padded(text, FieldWidths[k]))
        BY <2>4, <3>2 DEF F
      <3> QED
        BY <1>9, <3>1, <3>3 DEF Alike
    <2>6. 14 \in Nat
      OBVIOUS
    <2> HIDE DEF F
    <2> QED
      BY <2>5, <2>6, SameEnd
  <1> QED
    BY <1>1, <1>8, <1>10 DEF t

\* The configuration is read from where its fields are.
LEMMA ConfigReadBack ==
    ASSUME NEW text, IsText(text), NEW id, NEW r, r = config(id, text)
    PROVE  /\ r.len = 306 /\ r.len <= Allocated(r) /\ Slice(r, 0, 4) = RPTC
           /\ \A i \in DOMAIN FieldWidths :
                Slice(r, FieldStarts[i], FieldWidths[i])
                  = SubSeq(padded(text, FieldWidths[i]), 1, FieldWidths[i])
  <1>1. /\ FieldsUpTo(r, FieldStarts, FieldWidths, ConfigTexts(text), 14)
        /\ InPlace(r, 0, 4, RPTC)
    BY ConfigFields
  <1>2. r.len = 306 /\ RawType(r) /\ r.len <= Allocated(r)
    BY <1>1 DEF FieldsUpTo, FieldStarts, RawType, Allocated
  <1>7. Slice(r, 0, 4) = RPTC
    <2>1. RPTC \in Seq(Stored) /\ Len(RPTC) = 4
      BY DEF RPTC, Stored
    <2>2. SubSeq(RPTC, 1, 4) = RPTC /\ 4 <= Len(RPTC)
      BY <2>1
    <2>3. Slice(r, 0, 4) = SubSeq(RPTC, 1, 4)
      <3>1. /\ RawType(r) /\ InPlace(r, 0, 4, RPTC) /\ RPTC \in Seq(Stored)
            /\ 4 <= Len(RPTC)
        BY <1>1, <1>2, <2>1, <2>2
      <3> QED
        BY <3>1, SliceIs, Zenon
    <2> QED
      BY <2>2, <2>3
  <1>3. ASSUME NEW i \in 1 .. 14
        PROVE  Slice(r, FieldStarts[i], FieldWidths[i])
                 = SubSeq(padded(text, FieldWidths[i]), 1, FieldWidths[i])
    <2> DEFINE c == padded(text, FieldWidths[i])
               at == FieldStarts[i]
               w == FieldWidths[i]
    <2>1. RawType(r) /\ InPlace(r, at, w, ConfigTexts(text)[i])
      BY <1>1 DEF FieldsUpTo
    <2>2. ConfigTexts(text)[i] = c
      BY DEF ConfigTexts
    <2>3. w \in Nat
      BY ConfigLayout DEF Layout
    <2>4. c \in Seq(Stored) /\ Len(c) >= w
      BY <2>3, PaddedFills
    <2> HIDE DEF c, at, w
    <2>5. w <= Len(c)
      BY <2>3, <2>4
    <2>6. Slice(r, at, w) = SubSeq(c, 1, w)
      BY <2>1, <2>2, <2>4, <2>5, SliceIs
    <2> QED
      BY <2>6 DEF c, at, w
  <1>4. \A i \in 1 .. 14 : Slice(r, FieldStarts[i], FieldWidths[i])
                            = SubSeq(padded(text, FieldWidths[i]), 1, FieldWidths[i])
    BY <1>3
  <1>5. DOMAIN FieldWidths = 1 .. 14
    BY ConfigLayout
  <1>6. ASSUME NEW i \in DOMAIN FieldWidths
        PROVE  Slice(r, FieldStarts[i], FieldWidths[i])
                 = SubSeq(padded(text, FieldWidths[i]), 1, FieldWidths[i])
    <2>1. i \in 1 .. 14
      BY <1>5
    <2> QED
      BY <1>4, <2>1
  <1> QED
    BY <1>2, <1>6, <1>7

\* What dmr_homebrew_parse_dmrd finds in the byte of slot_info.
LEMMA SlotInfoReadBack ==
    ASSUME NEW p \in Packets, NEW dmo \in BOOLEAN, NEW i, i = slot_info(p, dmo)
    PROVE  /\ i % 2 = IF dmo THEN 0 ELSE p.ts
           /\ (i \div 2) % 2 = p.flco
           /\ p.data_type \in {DATA_TYPE_INVALID, VOICE} => (i \div 4) % 4 = 0 /\ i \div 16 = p.voice_frame
           /\ p.data_type = VOICE_SYNC => (i \div 4) % 4 = 1
           /\ p.data_type \notin {DATA_TYPE_INVALID, VOICE, VOICE_SYNC} =>
                /\ (i \div 4) % 4 = 2
                /\ i \div 16 = IF p.data_type = SYNC_VOICE THEN 0 ELSE p.data_type
  <1>0. p.ts \in {0, 1} /\ p.flco \in {0, 1} /\ p.voice_frame \in 0 .. 15
    BY PacketFields, Zenon
  <1> DEFINE low == IF dmo THEN 0 ELSE p.ts
             d == p.data_type
             v == p.voice_frame
             fl == p.flco
             type == IF d \in {10, 241} THEN v * 16 ELSE IF d = 240 THEN 4 ELSE 8 + d * 16
             x == type + low + (IF fl = 1 THEN 2 ELSE 0)
  <1>1. /\ low \in {0, 1} /\ fl \in {0, 1} /\ v \in 0 .. 15
        /\ d \in 0 .. 15 \/ d \in {32, 240, 241}
    <2>1. p.ts \in {0, 1} /\ fl \in {0, 1} /\ v \in 0 .. 15
      BY <1>0
    <2>2. d \in 0 .. 15 \/ d \in {32, 240, 241}
      BY PacketFields, Zenon
    <2> HIDE DEF d, v, fl
    <2> QED
      BY <2>1, <2>2
  <1>2. i = x % 256
    BY DEF slot_info, DATA_TYPE_INVALID, VOICE_SYNC, VOICE
  <1> SUFFICES /\ i % 2 = low /\ (i \div 2) % 2 = fl
               /\ d \in {10, 241} => (i \div 4) % 4 = 0 /\ i \div 16 = v
               /\ d = 240 => (i \div 4) % 4 = 1
               /\ d \notin {10, 241, 240} =>
                    /\ (i \div 4) % 4 = 2
                    /\ i \div 16 = IF d = 32 THEN 0 ELSE d
    BY DEF DATA_TYPE_INVALID, VOICE_SYNC, VOICE, SYNC_VOICE
  <1> HIDE DEF low, d, v, fl, type
  <1>3. (IF fl = 1 THEN 2 ELSE 0) = 2 * fl
    BY <1>1
  <1>4. x = type + low + 2 * fl
    BY <1>3
  <1> HIDE DEF x
  <1>5. CASE d \in {10, 241}
    <2>1. x = v * 16 + low + 2 * fl
      BY <1>4, <1>5 DEF type
    <2> QED
      BY <1>1, <1>2, <1>5, <2>1
  <1>6. CASE d = 240
    <2>1. x = 4 + low + 2 * fl
      BY <1>4, <1>6 DEF type
    <2> QED
      BY <1>1, <1>2, <1>6, <2>1
  <1>7. CASE d \notin {10, 241, 240}
    <2>1. x = 8 + d * 16 + low + 2 * fl /\ d \in 0 .. 15 \cup {32}
      BY <1>1, <1>4, <1>7 DEF type
    <2>2. CASE d = 32
      BY <1>1, <1>2, <2>1, <2>2
    <2>3. CASE d # 32
      BY <1>1, <1>2, <1>7, <2>1, <2>3
    <2> QED
      BY <2>2, <2>3
  <1> QED
    BY <1>5, <1>6, <1>7

\* The places of a frame's fields, read back.
LEMMA DmrdReadBack ==
    ASSUME NEW p \in Packets, NEW dmo \in BOOLEAN, NEW r, r = dmr_homebrew_send(p, dmo)
    PROVE  /\ r.len = 53 /\ r.len <= Allocated(r) /\ Slice(r, 0, 4) = DMRD /\ r.buf[5] = p.sequence % 256 /\ r.buf[16] = slot_info(p, dmo)
           /\ Slice(r, 5, 3) = Bytes(Word(3, p.src_id)) /\ Slice(r, 8, 3) = Bytes(Word(3, p.dst_id))
           /\ Slice(r, 11, 4) = Bytes(Word(4, p.repeater_id))
           /\ Slice(r, 16, 4) = Bytes(Word(4, p.stream_id))
           /\ Slice(r, 20, 33) = p.packet
  <1> DEFINE t == DmrdTexts(p, dmo)
  <1>1. FieldsUpTo(r, DmrdStarts, DmrdWidths, t, 8)
    BY DmrdFields
  <1>2. \A k \in 1 .. 8 : t[k] \in Seq(Stored) /\ DmrdWidths[k] \in Nat /\ Len(t[k]) = DmrdWidths[k]
    BY DmrdWords
  <1>3. /\ t[1] = DMRD /\ t[2] = <<p.sequence % 256>> /\ t[3] = Bytes(Word(3, p.src_id))
        /\ t[4] = Bytes(Word(3, p.dst_id)) /\ t[5] = Bytes(Word(4, p.repeater_id))
        /\ t[6] = <<slot_info(p, dmo)>> /\ t[7] = Bytes(Word(4, p.stream_id)) /\ t[8] = p.packet
    BY DEF DmrdTexts
  <1>4. RawType(r) /\ r.len = 53 /\ \A k \in 1 .. 8 : InPlace(r, DmrdStarts[k], DmrdWidths[k], t[k])
    BY <1>1 DEF FieldsUpTo, DmrdStarts
  <1> HIDE DEF t
  <1>5. ASSUME NEW k \in 1 .. 8 PROVE Slice(r, DmrdStarts[k], DmrdWidths[k]) = t[k]
    <2> DEFINE c == t[k]
               w == DmrdWidths[k]
    <2>1. c \in Seq(Stored) /\ w \in Nat /\ Len(c) = w /\ InPlace(r, DmrdStarts[k], w, c)
      BY <1>2, <1>4
    <2> HIDE DEF c, w
    <2>2. Slice(r, DmrdStarts[k], w) = SubSeq(c, 1, w)
      BY <1>4, <2>1, SliceIs
    <2>3. SubSeq(c, 1, w) = c
      BY <2>1
    <2> QED
      BY <2>2, <2>3 DEF c, w
  <1>6. /\ DmrdStarts[3] = 5 /\ DmrdWidths[3] = 3 /\ DmrdStarts[4] = 8 /\ DmrdWidths[4] = 3
        /\ DmrdStarts[5] = 11 /\ DmrdWidths[5] = 4 /\ DmrdStarts[7] = 16 /\ DmrdWidths[7] = 4
        /\ DmrdStarts[8] = 20 /\ DmrdWidths[8] = 33 /\ DmrdStarts[1] = 0 /\ DmrdWidths[1] = 4
        /\ DmrdStarts[2] = 4 /\ DmrdWidths[2] = 1 /\ DmrdStarts[6] = 15 /\ DmrdWidths[6] = 1
    BY DEF DmrdStarts, DmrdWidths
  <1>7. /\ Slice(r, 5, 3) = t[3] /\ Slice(r, 8, 3) = t[4] /\ Slice(r, 11, 4) = t[5]
        /\ Slice(r, 16, 4) = t[7] /\ Slice(r, 20, 33) = t[8] /\ Slice(r, 0, 4) = t[1]
    BY <1>5, <1>6
  <1>8. InPlace(r, 4, 1, t[2]) /\ InPlace(r, 15, 1, t[6])
    BY <1>4, <1>6
  <1>9. r.buf[5] = t[2][1] /\ r.buf[16] = t[6][1]
    BY <1>8 DEF InPlace
  <1>10. t[2][1] = p.sequence % 256 /\ t[6][1] = slot_info(p, dmo)
    BY <1>3
  <1>11. r.len <= Allocated(r)
    BY <1>4 DEF RawType, Allocated
  <1> QED
    BY <1>3, <1>4, <1>7, <1>9, <1>10, <1>11

\* The packet that dmr_homebrew_parse_dmrd makes of a frame.
PacketRead(p, dmo) ==
    LET voice == p.data_type \in {DATA_TYPE_INVALID, VOICE} IN
    [p EXCEPT !.ts = IF dmo THEN 0 ELSE @,
                      !.data_type = IF voice THEN VOICE ELSE IF @ = SYNC_VOICE THEN 0 ELSE @,
                      !.voice_frame = IF voice THEN @ ELSE 0,
                      !.sequence = @ % 256,
                      !.src_id = Bytes(Word(3, @)), !.dst_id = Bytes(Word(3, @)),
                      !.repeater_id = Bytes(Word(4, @)), !.stream_id = Bytes(Word(4, @))]

\* A packet is read back as PacketRead says.
LEMMA PacketReadBack ==
    ASSUME NEW p \in Packets, NEW dmo \in BOOLEAN
    PROVE  dmr_homebrew_parse_dmrd(dmr_homebrew_send(p, dmo)) = PacketRead(p, dmo)
  <1> DEFINE r == dmr_homebrew_send(p, dmo)
             i == slot_info(p, dmo)
             type == (i \div 4) % 4
             voice == p.data_type \in {DATA_TYPE_INVALID, VOICE}
             data == CASE type = 0 -> VOICE [] type = 1 -> VOICE_SYNC [] type = 2 -> i \div 16 [] OTHER -> 0
             kept == IF p.data_type = SYNC_VOICE THEN 0 ELSE p.data_type
             number == IF type = 0 THEN i \div 16 ELSE 0
             right == [ts |-> IF dmo THEN 0 ELSE p.ts, flco |-> p.flco,
                       data_type |-> IF voice THEN VOICE ELSE kept,
                       voice_frame |-> IF voice THEN p.voice_frame ELSE 0, sequence |-> p.sequence % 256,
                       src_id |-> Bytes(Word(3, p.src_id)), dst_id |-> Bytes(Word(3, p.dst_id)),
                       repeater_id |-> Bytes(Word(4, p.repeater_id)),
                       stream_id |-> Bytes(Word(4, p.stream_id)), packet |-> p.packet]
  <1>1. /\ i % 2 = IF dmo THEN 0 ELSE p.ts
        /\ (i \div 2) % 2 = p.flco
        /\ voice => type = 0 /\ i \div 16 = p.voice_frame
        /\ p.data_type = VOICE_SYNC => type = 1
        /\ ~ voice /\ p.data_type # VOICE_SYNC => type = 2 /\ i \div 16 = kept
    BY SlotInfoReadBack
  <1>2. data = IF voice THEN VOICE ELSE kept
    <2>1. VOICE # VOICE_SYNC /\ DATA_TYPE_INVALID # VOICE_SYNC /\ SYNC_VOICE # VOICE_SYNC
      BY DEF VOICE, VOICE_SYNC, DATA_TYPE_INVALID, SYNC_VOICE
    <2> HIDE DEF type, i
    <2>2. CASE voice
      BY <1>1, <2>2
    <2>3. CASE ~ voice /\ p.data_type = VOICE_SYNC
      BY <1>1, <2>1, <2>3
    <2>4. CASE ~ voice /\ p.data_type # VOICE_SYNC
      BY <1>1, <2>4
    <2> QED
      BY <2>2, <2>3, <2>4
  <1>3. number = IF voice THEN p.voice_frame ELSE 0
    <2> HIDE DEF type, i
    <2> QED
      BY <1>1
  <1>4. /\ r.buf[5] = p.sequence % 256 /\ r.buf[16] = i
        /\ Slice(r, 5, 3) = Bytes(Word(3, p.src_id)) /\ Slice(r, 8, 3) = Bytes(Word(3, p.dst_id))
        /\ Slice(r, 11, 4) = Bytes(Word(4, p.repeater_id))
        /\ Slice(r, 16, 4) = Bytes(Word(4, p.stream_id))
        /\ Slice(r, 20, 33) = p.packet
    BY DmrdReadBack
  <1> HIDE DEF r
  <1>5. dmr_homebrew_parse_dmrd(r)
          = [ts |-> i % 2, flco |-> (i \div 2) % 2, data_type |-> data, voice_frame |-> number,
             sequence |-> p.sequence % 256, src_id |-> Bytes(Word(3, p.src_id)),
             dst_id |-> Bytes(Word(3, p.dst_id)), repeater_id |-> Bytes(Word(4, p.repeater_id)),
             stream_id |-> Bytes(Word(4, p.stream_id)), packet |-> p.packet]
    BY <1>4 DEF dmr_homebrew_parse_dmrd, PACKET_LEN
  <1> HIDE DEF i, data, number
  <1>6. dmr_homebrew_parse_dmrd(r) = right
    BY <1>1, <1>2, <1>3, <1>5
  <1>7. p = [ts |-> p.ts, flco |-> p.flco, data_type |-> p.data_type, voice_frame |-> p.voice_frame,
             sequence |-> p.sequence, src_id |-> p.src_id, dst_id |-> p.dst_id,
             repeater_id |-> p.repeater_id, stream_id |-> p.stream_id, packet |-> p.packet]
    <2> DEFINE Types == 0 .. 15 \cup {SYNC_VOICE, VOICE_SYNC, VOICE}
               Bursts == [1 .. PACKET_LEN -> 0 .. 255]
    <2>1. p \in [ts : {0, 1}, flco : {0, 1}, data_type : Types, voice_frame : 0 .. 15, sequence : Nat,
                 src_id : Nat, dst_id : Nat, repeater_id : Nat, stream_id : Nat, packet : Bursts]
      BY FrameConstants
    <2> HIDE DEF Types, Bursts
    <2> QED
      BY <2>1
  <1> HIDE DEF voice
  <1>8. right = [p EXCEPT !.ts = IF dmo THEN 0 ELSE @,
                          !.data_type = IF voice THEN VOICE ELSE IF @ = SYNC_VOICE THEN 0 ELSE @,
                          !.voice_frame = IF voice THEN @ ELSE 0,
                          !.sequence = @ % 256,
                          !.src_id = Bytes(Word(3, @)), !.dst_id = Bytes(Word(3, @)),
                          !.repeater_id = Bytes(Word(4, @)), !.stream_id = Bytes(Word(4, @))]
    <2> DEFINE v1 == IF dmo THEN 0 ELSE p.ts
               v2 == IF voice THEN VOICE ELSE kept
               v3 == IF voice THEN p.voice_frame ELSE 0
               v4 == p.sequence % 256
               v5 == Bytes(Word(3, p.src_id))
               v6 == Bytes(Word(3, p.dst_id))
               v7 == Bytes(Word(4, p.repeater_id))
               v8 == Bytes(Word(4, p.stream_id))
               w1 == p.ts
               w2 == p.flco
               w3 == p.data_type
               w4 == p.voice_frame
               w5 == p.sequence
               w6 == p.src_id
               w7 == p.dst_id
               w8 == p.repeater_id
               w9 == p.stream_id
               w10 == p.packet
               q == [p EXCEPT !.ts = v1, !.data_type = v2, !.voice_frame = v3, !.sequence = v4,
                              !.src_id = v5, !.dst_id = v6, !.repeater_id = v7, !.stream_id = v8]
    <2>1. right = [ts |-> v1, flco |-> w2, data_type |-> v2, voice_frame |-> v3, sequence |-> v4,
                   src_id |-> v5, dst_id |-> v6, repeater_id |-> v7, stream_id |-> v8, packet |-> w10]
      OBVIOUS
    <2>2. p = [ts |-> w1, flco |-> w2, data_type |-> w3, voice_frame |-> w4, sequence |-> w5, src_id |-> w6,
               dst_id |-> w7, repeater_id |-> w8, stream_id |-> w9, packet |-> w10]
      BY <1>7
    <2> HIDE DEF right, v1, v2, v3, v4, v5, v6, v7, v8, w1, w2, w3, w4, w5, w6, w7, w8, w9, w10
    <2>3. q \in [ts : {v1}, flco : {w2}, data_type : {v2}, voice_frame : {v3}, sequence : {v4},
                 src_id : {v5}, dst_id : {v6}, repeater_id : {v7}, stream_id : {v8}, packet : {w10}]
      BY <2>2
    <2> HIDE DEF q
    <2>4. q = right
      BY <2>1, <2>3
    <2> QED
      BY <2>4, Zenon DEF q, v1, v2, v3, v4, v5, v6, v7, v8
  <1>9. right = PacketRead(p, dmo)
    <2> HIDE DEF right
    <2> QED
      BY <1>8, Zenon DEF PacketRead, voice
  <1> HIDE DEF right
  <1> QED
    BY <1>6, <1>9 DEF r

\* A frame that is sent as these bytes.
SentAs(r, bytes) == r.len = Len(bytes) /\ Slice(r, 0, r.len) = bytes

\* What a buffer holds is what is sent of it.
LEMMA HeldIsSent ==
    ASSUME NEW r, NEW bytes, Holds(r, bytes)
    PROVE  SentAs(r, bytes) /\ r.len <= Allocated(r)
  <1> DEFINE n == Len(bytes)
  <1>1. RawType(r) /\ r.len = n /\ n \in Nat /\ bytes \in Seq(Stored) /\ r.len <= Len(r.buf)
    BY DEF Holds, RawType
  <1>2. \A j \in 1 .. n : r.buf[0 + j] = bytes[j]
    BY <1>1 DEF Holds
  <1> HIDE DEF n
  <1>3. InPlace(r, 0, n, bytes)
    BY <1>1, <1>2 DEF InPlace
  <1>4. n <= Len(bytes)
    BY DEF n
  <1>5. Slice(r, 0, n) = SubSeq(bytes, 1, n)
    BY <1>1, <1>3, <1>4, SliceIs
  <1>6. SubSeq(bytes, 1, n) = bytes
    BY <1>1 DEF n
  <1> QED
    BY <1>1, <1>5, <1>6 DEF SentAs, Allocated, n

\* A name and an identifier make a frame of twelve bytes (dmr_homebrew_auth,
\* dmr_homebrew_close, homebrew_send_key).
LEMMA IdFrameHeld ==
    ASSUME NEW id \in RepeaterIds, NEW name \in Seq(Stored), Len(name) = 4, NEW n \in Nat,
           NEW r, r = dmr_raw_add_xuint(Named(dmr_raw_new(n), name), Word(4, id))
    PROVE  Holds(r, IdFrame(name, id)) /\ r.len = 12 /\ Len(r.buf) >= n
  <1> DEFINE new == dmr_raw_new(n)
             q == dmr_raw_add(new, name)
             b == Reverse(Bytes(Word(4, id)))
             c == CutDigits(HexOf(b))
  <1>1. RawType(new) /\ ZeroTail(new) /\ new.len = 0 /\ Holds(new, <<>>) /\ Len(new.buf) >= n
    BY NewRawIsEmpty
  <1>2. b \in Seq(Stored) /\ Len(b) = 4 /\ DigitsIn(b) \subseteq Stored
    <2> DEFINE w == Word(4, id)
    <2>1. w \in AllWords
      BY DEF AllWords, IdWords
    <2>2. w.size = 4
      BY DEF Word
    <2> HIDE DEF w
    <2>3. /\ Reverse(Bytes(w)) \in Seq(Stored) /\ Len(Reverse(Bytes(w))) = w.size
          /\ DigitsIn(Reverse(Bytes(w))) \subseteq Stored
      BY <2>1, WordEncodings
    <2> QED
      BY <2>2, <2>3 DEF w
  <1>3. r = AddDigits(q, b)
    BY DEF Named, dmr_raw_add_xuint
  <1>4. IdFrame(name, id) = name \o c
    BY DEF IdFrame
  <1> HIDE DEF new, b
  <1>5. Extended(new, q, 4, name)
    BY <1>1, RawAdded
  <1> HIDE DEF q
  <1>6. RawType(q) /\ ZeroTail(q) /\ q.len = 4 /\ Len(q.buf) >= Len(new.buf)
    BY <1>1, <1>5 DEF Extended
  <1>7. c \in Seq(Stored) /\ Len(c) = 8 /\ Extended(q, r, 8, c)
    <2>1. Len(b) # 0 /\ 2 * Len(b) = 8
      BY <1>2
    <2>2. c \in Seq(Stored) /\ Len(c) = 2 * Len(b) /\ Extended(q, r, 2 * Len(b), c)
      BY <1>2, <1>3, <1>6, <2>1, RawNumbered
    <2> QED
      BY <2>1, <2>2, Zenon
  <1> HIDE DEF c
  <1>8. Holds(q, name)
    <2>1. Holds(q, <<>> \o name)
      BY <1>1, <1>5, HoldsMore
    <2>2. <<>> \o name = name
      OBVIOUS
    <2> QED
      BY <2>1, <2>2, Zenon
  <1>9. Holds(r, name \o c)
    BY <1>7, <1>8, HoldsMore
  <1>10. r.len = 12 /\ Len(r.buf) >= Len(q.buf)
    BY <1>6, <1>7 DEF Extended
  <1>11. Len(new.buf) \in Nat /\ Len(q.buf) \in Nat /\ Len(r.buf) \in Nat
    BY <1>1, <1>6, <1>9 DEF RawType, Holds
  <1> QED
    BY <1>1, <1>4, <1>6, <1>9, <1>10, <1>11

\* The frames of the login and of the closing, to the last byte.  The key's is longer
\* by 32 than what was added to it, and the allocation by more.
LEMMA LoginFrames ==
    ASSUME NEW id \in RepeaterIds
    PROVE  /\ SentAs(login(id), IdFrame(RPTL, id)) /\ login(id).len <= Allocated(login(id))
           /\ SentAs(closing(id), IdFrame(RPTC, id)) /\ closing(id).len <= Allocated(closing(id))
           /\ SentAs(key(id), IdFrame(RPTK, id) \o HexOf(Digest) \o Zeros(32))
           /\ key(id).len <= Allocated(key(id))
  <1>1. /\ RPTL \in Seq(Stored) /\ Len(RPTL) = 4 /\ RPTC \in Seq(Stored) /\ Len(RPTC) = 4
        /\ RPTK \in Seq(Stored) /\ Len(RPTK) = 4
    BY DEF RPTL, RPTC, RPTK, Stored
  <1>2. Holds(login(id), IdFrame(RPTL, id)) /\ Holds(closing(id), IdFrame(RPTC, id))
    BY <1>1, IdFrameHeld DEF login, closing
  <1> DEFINE r == dmr_raw_add_xuint(Named(dmr_raw_new(76), RPTK), Word(4, id))
             h == dmr_raw_add_hex(r, Digest)
             d == HexOf(Digest)
             s == IdFrame(RPTK, id) \o d
             k == [h EXCEPT !.len = @ + 32]
  <1>3. key(id) = k
    BY DEF key
  <1>4. Holds(r, IdFrame(RPTK, id)) /\ r.len = 12 /\ Len(r.buf) >= 108
    <2> DEFINE new == dmr_raw_new(76)
               q == Named(new, RPTK)
    <2>1. Holds(r, IdFrame(RPTK, id)) /\ r.len = 12
      BY <1>1, IdFrameHeld
    <2>2. new.len = 0 /\ Len(new.buf) = 128
      <3>1. RoundUp(76) = 128
        BY DEF RoundUp, ROUND
      <3>2. new = [buf |-> Zeros(128), len |-> 0]
        BY <3>1 DEF dmr_raw_new
      <3>3. Len(Zeros(128)) = 128
        BY ZeroBytes
      <3> HIDE DEF new
      <3> QED
        BY <3>2, <3>3
    <2>3. Len(r.buf) >= 108
      <3> HIDE DEF new
      <3>1. RawType(new) /\ ZeroTail(new)
        BY NewRawIsEmpty DEF new
      <3>2. Extended(new, q, 4, RPTK)
        BY <1>1, <3>1, RawAdded DEF Named
      <3> HIDE DEF q
      <3>3. RawType(q) /\ ZeroTail(q) /\ Len(q.buf) >= 128
        BY <2>2, <3>2 DEF Extended
      <3> DEFINE w == Word(4, id)
                 b == Reverse(Bytes(w))
      <3>4. b \in Seq(Stored) /\ Len(b) # 0 /\ DigitsIn(b) \subseteq Stored
        <4>1. w \in AllWords
          BY DEF AllWords, IdWords
        <4> HIDE DEF w
        <4>2. /\ w.size \in Nat \ {0} /\ b \in Seq(Stored) /\ Len(b) = w.size
              /\ DigitsIn(b) \subseteq Stored
          BY <4>1, WordEncodings
        <4> QED
          BY <4>2
      <3>5. r = AddDigits(q, b)
        BY DEF dmr_raw_add_xuint, q, new
      <3> HIDE DEF r, b
      <3>6. Extended(q, r, 2 * Len(b), CutDigits(HexOf(b)))
        BY <3>3, <3>4, <3>5, RawNumbered
      <3>7. RawType(r) /\ Len(r.buf) >= Len(q.buf)
        BY <3>6 DEF Extended
      <3> QED
        BY <3>3, <3>7 DEF RawType
    <2> QED
      BY <2>1, <2>3
  <1>5. Digest \in Seq(Stored) /\ DigitsIn(Digest) \subseteq Stored /\ Len(Digest) = 32
    <2>1. Digest \in Seq(Stored) /\ DigitsIn(Digest) \subseteq Stored
      BY TextEncodings DEF AllTexts
    <2>2. Len(Digest) = 32
      BY <2>1, FrameConstants
    <2> QED
      BY <2>1, <2>2
  <1> HIDE DEF r
  <1>6. d \in Seq(Stored) /\ Len(d) = 64 /\ Extended(r, h, 64, d)
    <2>1. RawType(r) /\ ZeroTail(r)
      BY <1>4 DEF Holds
    <2>2. Extended(r, h, 2 * Len(Digest), d)
      BY <1>5, <2>1, RawHexed
    <2>3. d \in Seq(Stored) /\ Len(d) = 2 * Len(Digest)
      BY <1>5, HexDigits
    <2>4. 2 * Len(Digest) = 64
      BY <1>5
    <2> QED
      BY <2>2, <2>3, <2>4, Zenon
  <1> HIDE DEF h, d
  <1>7. Holds(h, s) /\ h.len = 76 /\ Len(h.buf) >= 108
    <2>1. Holds(h, s)
      BY <1>4, <1>6, HoldsMore
    <2>2. h.len = 76 /\ Len(h.buf) >= Len(r.buf) /\ RawType(h)
      BY <1>4, <1>6 DEF Extended
    <2>3. Len(h.buf) \in Nat /\ Len(r.buf) \in Nat
      BY <1>4, <2>2 DEF Holds, RawType
    <2> QED
      BY <1>4, <2>1, <2>2, <2>3
  <1> HIDE DEF s
  <1>8. Holds(k, s \o Zeros(32)) /\ k.len <= Allocated(k)
    <2> DEFINE z == Zeros(32)
               t == s \o z
               b == h.buf
    <2>1. h \in [buf : Seq(Stored), len : Nat] /\ b \in Seq(Stored) /\ Len(b) >= 108
      BY <1>7 DEF Holds, RawType
    <2>2. k = [buf |-> b, len |-> 108]
      <3>1. k \in [buf : {b}, len : {108}]
        BY <1>7, <2>1
      <3> QED
        BY <3>1
    <2>3. s \in Seq(Stored) /\ Len(s) = 76 /\ \A i \in 1 .. 76 : b[i] = s[i]
      BY <1>7 DEF Holds
    <2>4. z \in Seq(Stored) /\ Len(z) = 32 /\ \A i \in 1 .. 32 : z[i] = 0
      BY ZeroBytes
    <2>5. \A i \in 1 .. Len(b) : i > 76 => b[i] = 0
      BY <1>7 DEF Holds, ZeroTail
    <2> HIDE DEF z, b, k
    <2>6. /\ t \in Seq(Stored) /\ Len(t) = Len(s) + Len(z)
          /\ \A i \in 1 .. Len(s) + Len(z) : t[i] = IF i <= Len(s) THEN s[i] ELSE z[i - Len(s)]
      <3>1. s \in Seq(Stored) /\ z \in Seq(Stored)
        BY <2>3, <2>4
      <3> QED
        BY <3>1, ConcatProperties
    <2> HIDE DEF t
    <2>7. Len(t) = 108 /\ \A i \in 1 .. 108 : t[i] = IF i <= 76 THEN s[i] ELSE z[i - 76]
      BY <2>3, <2>4, <2>6
    <2>8. ASSUME NEW i \in 1 .. 108 PROVE b[i] = t[i]
      <3>1. CASE i <= 76
        <4>1. i \in 1 .. 76 /\ t[i] = s[i]
          BY <2>7, <3>1
        <4> QED
          BY <2>3, <4>1
      <3>2. CASE ~ i <= 76
        <4>1. i - 76 \in 1 .. 32 /\ i > 76 /\ i \in 1 .. Len(b)
          BY <2>1, <3>2
        <4>2. t[i] = z[i - 76] /\ z[i - 76] = 0 /\ b[i] = 0
          BY <2>4, <2>5, <2>7, <3>2, <4>1
        <4> QED
          BY <4>2
      <3> QED
        BY <3>1, <3>2
    <2>9. RawType(k) /\ ZeroTail(k) /\ k.len = 108 /\ k.buf = b
      <3>1. \A i \in 1 .. Len(b) : i > 108 => b[i] = 0
        BY <2>1, <2>5
      <3> QED
        BY <2>1, <2>2, <3>1 DEF RawType, ZeroTail
    <2>10. Holds(k, t)
      BY <2>6, <2>7, <2>8, <2>9 DEF Holds
    <2> QED
      BY <2>1, <2>9, <2>10 DEF t, z, Allocated
  <1>9. SentAs(k, s \o Zeros(32))
    BY <1>8, HeldIsSent
  <1>10. /\ SentAs(login(id), IdFrame(RPTL, id)) /\ login(id).len <= Allocated(login(id))
         /\ SentAs(closing(id), IdFrame(RPTC, id)) /\ closing(id).len <= Allocated(closing(id))
    BY <1>2, HeldIsSent
  <1> QED
    BY <1>3, <1>8, <1>9, <1>10 DEF s, d

\* What was built is what the job says, and what was read is read from it.
FrameInv ==
    \/ job.kind = "none" /\ frame = NoRaw /\ got = NoPacket
    \/ /\ job.kind = "dmrd" /\ job.packet \in Packets /\ job.dmo \in BOOLEAN
       /\ frame = dmr_homebrew_send(job.packet, job.dmo)
       /\ got \in {NoPacket, dmr_homebrew_parse_dmrd(frame)}
    \/ /\ job.id \in RepeaterIds /\ got = NoPacket
       /\ \/ job.kind = "login" /\ frame = login(job.id)
          \/ job.kind = "closing" /\ frame = closing(job.id)
          \/ job.kind = "key" /\ frame = key(job.id)
    \/ job.kind = "config" /\ job.text \in Texts /\ frame = config(job.id, job.text) /\ got = NoPacket

\* The steps that build and read frames.
LEMMA FrameStep == FrameInv /\ [FrameNext]_frameVars => FrameInv'
  <1> SUFFICES ASSUME FrameInv, [FrameNext]_frameVars PROVE FrameInv'
    OBVIOUS
  <1>1. CASE SendPacket
    <2>1. PICK p \in Packets, dmo \in BOOLEAN :
              /\ job.kind = "none" /\ job' = Job("dmrd", p, dmo, 0, <<>>)
              /\ frame' = dmr_homebrew_send(p, dmo) /\ UNCHANGED got
      BY <1>1 DEF SendPacket
    <2>2. got = NoPacket
      BY <2>1 DEF FrameInv
    <2>3. job'.kind = "dmrd" /\ job'.packet = p /\ job'.dmo = dmo
      BY <2>1 DEF Job
    <2> QED
      BY <2>1, <2>2, <2>3 DEF FrameInv
  <1>2. CASE SendLogin
    <2>1. PICK id \in RepeaterIds :
              /\ job.kind = "none" /\ UNCHANGED got
              /\ \/ job' = Job("login", NoPacket, FALSE, id, <<>>) /\ frame' = login(id)
                 \/ job' = Job("closing", NoPacket, FALSE, id, <<>>) /\ frame' = closing(id)
                 \/ job' = Job("key", NoPacket, FALSE, id, <<>>) /\ frame' = key(id)
                 \/ \E text \in Texts :
                      job' = Job("config", NoPacket, FALSE, id, text) /\ frame' = config(id, text)
      BY <1>2 DEF SendLogin
    <2>2. got' = NoPacket
      BY <2>1 DEF FrameInv
    <2>3. CASE job' = Job("login", NoPacket, FALSE, id, <<>>) /\ frame' = login(id)
      BY <2>2, <2>3 DEF Job, FrameInv
    <2>4. CASE job' = Job("closing", NoPacket, FALSE, id, <<>>) /\ frame' = closing(id)
      BY <2>2, <2>4 DEF Job, FrameInv
    <2>5. CASE job' = Job("key", NoPacket, FALSE, id, <<>>) /\ frame' = key(id)
      BY <2>2, <2>5 DEF Job, FrameInv
    <2>6. ASSUME NEW text \in Texts, job' = Job("config", NoPacket, FALSE, id, text),
                 frame' = config(id, text)
          PROVE  FrameInv'
      BY <2>2, <2>6 DEF Job, FrameInv
    <2> QED
      BY <2>1, <2>3, <2>4, <2>5, <2>6
  <1>3. CASE ReadPacket
    BY <1>3 DEF ReadPacket, FrameInv
  <1>4. CASE UNCHANGED frameVars
    BY <1>4 DEF frameVars, FrameInv
  <1> QED
    BY <1>1, <1>2, <1>3, <1>4 DEF FrameNext

\* Frames that are built so are what their readers take them for.
LEMMA FrameInvIsRight == FrameInv => FramesReadBack
  <1> SUFFICES ASSUME FrameInv PROVE FramesReadBack
    OBVIOUS
  <1>1. NoRaw.len <= Allocated(NoRaw)
    BY DEF NoRaw, Allocated
  <1>2. CASE job.kind = "none"
    BY <1>1, <1>2 DEF FrameInv, FramesReadBack, PacketsReadBack, FramesInPlace
  <1>3. CASE job.kind = "dmrd"
    <2>1. /\ job.packet \in Packets /\ job.dmo \in BOOLEAN
          /\ frame = dmr_homebrew_send(job.packet, job.dmo)
          /\ got # NoPacket => got = dmr_homebrew_parse_dmrd(frame)
      BY <1>3 DEF FrameInv
    <2>2. frame.len = 53 /\ frame.len <= Allocated(frame) /\ Slice(frame, 0, 4) = DMRD
      BY <2>1, DmrdReadBack
    <2>3. FramesInPlace
      BY <1>3, <2>2 DEF FramesInPlace
    <2>4. PacketsReadBack
      <3> DEFINE p == job.packet
                 dmo == job.dmo
      <3>1. p \in Packets /\ dmo \in BOOLEAN
        BY <2>1
      <3>2. dmr_homebrew_parse_dmrd(dmr_homebrew_send(p, dmo)) = PacketRead(p, dmo)
        <4> HIDE DEF p, dmo
        <4> QED
          BY <3>1, PacketReadBack
      <3>3. got # NoPacket => got = PacketRead(p, dmo)
        BY <2>1, <3>2
      <3> QED
        BY <3>3, Zenon DEF PacketsReadBack, PacketRead
    <2> QED
      BY <2>3, <2>4 DEF FramesReadBack
  <1>4. CASE job.kind \in {"login", "closing", "key"}
    <2>1. got = NoPacket /\ job.id \in RepeaterIds
      BY <1>4 DEF FrameInv
    <2>2. job.kind = "login" => frame = login(job.id)
      BY <1>4 DEF FrameInv
    <2>3. job.kind = "closing" => frame = closing(job.id)
      BY <1>4 DEF FrameInv
    <2>4. job.kind = "key" => frame = key(job.id)
      BY <1>4 DEF FrameInv
    <2>5. /\ frame.len <= Allocated(frame)
          /\ job.kind = "login" => SentAs(frame, IdFrame(RPTL, job.id))
          /\ job.kind = "closing" => SentAs(frame, IdFrame(RPTC, job.id))
          /\ job.kind = "key" => SentAs(frame, IdFrame(RPTK, job.id) \o HexOf(Digest) \o Zeros(32))
      BY <1>4, <2>1, <2>2, <2>3, <2>4, LoginFrames, Zenon DEF SentAs
    <2> QED
      BY <1>4, <2>1, <2>5 DEF FramesReadBack, PacketsReadBack, FramesInPlace, SentAs
  <1>5. CASE job.kind = "config"
    <2>1. job.text \in Texts /\ frame = config(job.id, job.text) /\ got = NoPacket
      BY <1>5 DEF FrameInv
    <2>2. IsText(job.text)
      BY <2>1, FrameConstants DEF IsText
    <2>3. /\ frame.len = 306 /\ frame.len <= Allocated(frame) /\ Slice(frame, 0, 4) = RPTC
          /\ \A i \in DOMAIN FieldWidths :
                Slice(frame, FieldStarts[i], FieldWidths[i])
                  = SubSeq(padded(job.text, FieldWidths[i]), 1, FieldWidths[i])
      BY <2>1, <2>2, ConfigReadBack
    <2> QED
      BY <1>5, <2>1, <2>3 DEF FramesReadBack, PacketsReadBack, FramesInPlace
  <1> QED
    BY <1>2, <1>3, <1>4, <1>5 DEF FrameInv

\* For all packets, identifiers, digests and texts of any length: a packet that goes
\* out in a DMRD frame is read back as PacketsReadBack says, the modems' own data type
\* as another one; the frames of the login and of the closing are, to the last byte,
\* their name and the identifier without its last digit, the key's goes on for 32
\* zeros after the digest and stays in its allocation; and every text of a
\* configuration stands cut or padded in its own field (dmr_homebrew_send,
\* dmr_homebrew_parse_dmrd, dmr_homebrew_auth, dmr_homebrew_close,
\* homebrew_send_config, homebrew_send_key).  Identifiers are compared as the bytes
\* they are read from.
THEOREM FramesAreReadBack == FrameSpec => []FramesReadBack
  <1>1. FrameInit => FrameInv
    BY DEF FrameInit, FrameInv, Job
  <1>2. FrameInv /\ [FrameNext]_frameVars => FrameInv'
    BY FrameStep
  <1>3. FrameInv => FramesReadBack
    BY FrameInvIsRight
  <1> QED
    BY <1>1, <1>2, <1>3, PTL DEF FrameSpec
=============================================================================
