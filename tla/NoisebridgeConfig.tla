------------------------- MODULE NoisebridgeConfig -------------------------
(***************************************************************************)
(* The configuration file of noisebridge (config.c) and the start of the   *)
(* program that reads it (main.c).                                         *)
(*                                                                         *)
(* A line is what is left of it after trimming: blank (or a comment), the  *)
(* opening of a section, a closing brace, or a key with its value.  A      *)
(* value is a number: what atoi makes of it; a copy of it as a text is     *)
(* never NULL.  A field that was not set is 0, the NULL of a text.         *)
(***************************************************************************)
EXTENDS Integers, Sequences, FiniteSets

CONSTANTS
    MAX_PROTOS,     \* NOISEBRIDGE_MAX_PROTOS
    Values,         \* the values of keys
    KeyChoice,      \* the keys that lines hold, for each section
    SectionChoice,  \* the sections that lines open
    MaxLines        \* a file is no longer

ASSUME ConfigConstants == MAX_PROTOS \in Nat \ {0} /\ Values \subseteq Nat /\ MaxLines \in Nat

VARIABLES
    program,        \* args, config, script, repeater, loop, exited, crashed
    status,         \* the exit status
    conf,           \* [section, number, timeout, script, httpd, protos]; number is a
                    \* history: of the line outside the sections that was read last
    ids,            \* the identifiers named by dmr_id_add
    lines,          \* how many lines were read
    given           \* history: the keys given so far, <<number of the section, key, value>>

configVars == <<program, status, conf, ids, lines, given>>

SectionKinds == {"repeater", "dmrid", "httpd", "homebrew", "mbe", "mmdvm"}
ProtoKinds == {"homebrew", "mbe", "mmdvm"}

ASSUME SectionsKnown == SectionChoice \subseteq SectionKinds

TextKeys(kind) ==
    CASE kind = "homebrew" -> {"name", "auth", "call"} [] kind \in {"mbe", "mmdvm"} -> {"name"}
      [] OTHER -> {}
NumberKeys(kind) ==
    CASE kind = "homebrew" -> {"repeater_id", "color_code", "rx_freq", "tx_freq", "tx_power", "height",
                               "latitude", "longitude", "port", "bind_port"}
      [] kind = "mbe" -> {"quality"}
      [] kind = "mmdvm" -> {"color_code", "rx_freq", "tx_freq"}
      [] OTHER -> {}
AddressKeys(kind) == IF kind = "homebrew" THEN {"host", "bind_host"} ELSE {}
FieldsOf(kind) == TextKeys(kind) \cup NumberKeys(kind) \cup AddressKeys(kind) \cup {"device", "model"}

Text(v) == v + 1
\* The fields narrower than the int of atoi.
Narrow(key, v) == CASE key \in {"port", "bind_port", "timeout"} -> v % 65536
                    [] key \in {"tx_power", "color_code"} -> v % 256
                    [] OTHER -> v

\* What a new section of a kind holds (read_config); a zeroed proto_t but for these.
FieldDefaults(kind) ==
    [k \in FieldsOf(kind) |->
        CASE kind = "homebrew" /\ k = "port" -> 62030 [] kind = "mbe" /\ k = "quality" -> 3
          [] kind = "mmdvm" /\ k = "color_code" -> 1 [] OTHER -> 0]

Section == conf.section
Current == Len(conf.protos)
-----------------------------------------------------------------------------
ConfigInit ==
    /\ program = "args" /\ status = 0 /\ ids = {} /\ lines = 0 /\ given = {}
    /\ conf = [section |-> "top", number |-> 0, timeout |-> 0, script |-> 0,
               httpd |-> [enabled |-> FALSE, port |-> 8042, bind |-> 1, root |-> 1], protos |-> <<>>]

\* main: without a file the program shows its usage.
main_args ==
    /\ program = "args"
    /\ \/ program' = "config" /\ UNCHANGED status
       \/ program' = "exited" /\ status' \in {0, 1}
    /\ UNCHANGED <<conf, ids, lines, given>>

\* A line that fails, or a file that does: init_config frees the configuration
\* and main exits.
Fail == program' = "exited" /\ status' = 1 /\ UNCHANGED <<conf, ids, given>>

Line == program = "config" /\ lines < MaxLines /\ lines' = lines + 1

Keep(c) == conf' = c /\ UNCHANGED <<program, status>>

BlankLine == Line /\ UNCHANGED <<program, status, conf, ids, given>>

\* A line without a value, or with an unknown key, is a syntax error everywhere;
\* so is a line that opens a section inside another.
BadLine == Line /\ Fail

\* "{" alone: strtok_r finds no token, and trim is given NULL.
NamelessSection ==
    Line /\ Section = "top" /\ program' = "crashed" /\ UNCHANGED <<status, conf, ids, given>>

Given(k, v) == given' = given \cup {<<conf.number, k, v>>}

\* A key that may be given again: what it held before is overwritten.
GivenAgain(k, v) ==
    given' = {g \in given : ~ (g[1] = conf.number /\ g[2] = k)} \cup {<<conf.number, k, v>>}

\* Every line outside the sections sets the default time limit.
Defaults(c) == [c EXCEPT !.timeout = 180, !.number = @ + 1]

\* The place behind the table is the count of protocols itself: a section too
\* many puts a pointer there, and the next use of it as an index ends the program.
TableRoom(kind) == IF kind \in ProtoKinds /\ Current = MAX_PROTOS THEN program' = "crashed" ELSE program' = program

OpenSection(kind) ==
    LET c == [Defaults(conf) EXCEPT !.section = kind]
    IN  /\ Line /\ Section = "top" /\ UNCHANGED ids
        /\ IF kind = "httpd" /\ conf.httpd.enabled THEN Fail
           ELSE /\ TableRoom(kind)
                /\ conf' = CASE kind = "httpd" -> [c EXCEPT !.httpd.enabled = TRUE]
                             [] kind \in ProtoKinds ->
                                  [c EXCEPT !.protos = Append(@, [type |-> kind, number |-> c.number,
                                                                  fields |-> FieldDefaults(kind)])]
                             [] OTHER -> c
                /\ UNCHANGED <<status, given>>

\* "dmrids" outside the sections; the file may be missing.
read_dmrids ==
    /\ Line /\ Section = "top"
    /\ \/ Fail
       \/ \E new \in {{}, {1}} : ids' = ids \cup new /\ Keep(Defaults(conf)) /\ UNCHANGED given

\* Mutant: a homebrew section may do without a peer.
CloseAny ==
    LET c == [conf EXCEPT !.section = "top"]
    IN  /\ Line /\ Section # "top" /\ UNCHANGED <<ids, given>>
        /\ Keep(IF Section = "httpd" /\ conf.httpd.port = 0 THEN [c EXCEPT !.httpd.port = 8042] ELSE c)

CloseSection ==
    LET c == [conf EXCEPT !.section = "top"]
    IN  /\ Line /\ Section # "top"
        /\ IF Section = "homebrew" /\ conf.protos[Current].fields["host"] = 0 THEN Fail
           ELSE /\ Keep(IF Section = "httpd" /\ conf.httpd.port = 0 THEN [c EXCEPT !.httpd.port = 8042] ELSE c)
                /\ UNCHANGED <<ids, given>>

read_config_repeater(k, v) ==
    /\ Line /\ Section = "repeater"
    /\ CASE k = "script" /\ conf.script # 0 -> Fail
         [] k = "script" -> Keep([conf EXCEPT !.script = Text(v)]) /\ Given(k, v) /\ UNCHANGED ids
         [] k = "timeout" -> Keep([conf EXCEPT !.timeout = Narrow(k, v)]) /\ GivenAgain(k, v) /\ UNCHANGED ids
         [] OTHER -> Fail

\* The key is the identifier.
read_config_dmrid(k) ==
    /\ Line /\ Section = "dmrid"
    /\ IF k = 0 THEN Fail ELSE ids' = ids \cup {k} /\ Keep(conf) /\ UNCHANGED given

read_config_httpd(k, v) ==
    /\ Line /\ Section = "httpd"
    /\ CASE k = "port" -> Keep([conf EXCEPT !.httpd.port = Narrow(k, v)]) /\ Given(k, v) /\ UNCHANGED ids
         [] k \in {"bind", "root"} -> \/ Fail      \* not an address, or no such path
                                      \/ Keep([conf EXCEPT !.httpd[k] = Text(v)]) /\ Given(k, v) /\ UNCHANGED ids
         [] OTHER -> Fail

\* CONFIG_STR, CONFIG_INT and CONFIG_FLOAT.
SetOnce(k, stored, v) ==
    IF conf.protos[Current].fields[k] # 0 THEN Fail
    ELSE Keep([conf EXCEPT !.protos[Current].fields[k] = stored]) /\ Given(k, v) /\ UNCHANGED ids

Store(k, stored, v) ==
    Keep([conf EXCEPT !.protos[Current].fields[k] = stored]) /\ Given(k, v) /\ UNCHANGED ids

\* read_config_homebrew, read_config_mbe and read_config_mmdvm.  A host name may
\* not resolve, a serial port not be found, a model not be known.
read_config_proto(k, v) ==
    /\ Line /\ Section \in ProtoKinds
    /\ CASE k \in TextKeys(Section) -> SetOnce(k, Text(v), v)
         [] k \in NumberKeys(Section) -> SetOnce(k, Narrow(k, v), v)
         [] k \in AddressKeys(Section) -> Fail \/ Store(k, v, v)
         [] Section = "mmdvm" /\ k = "port" -> Fail \/ Store("device", Text(v), v)
         [] Section = "mmdvm" /\ k = "model" -> Fail \/ Store("model", v % 2, v)
         [] OTHER -> Fail

\* The end of the file, or a file that cannot be opened.
EndOfFile ==
    /\ program = "config"
    /\ IF conf.script = 0 \/ conf.protos = <<>> THEN Fail
       ELSE program' = "script" /\ UNCHANGED <<status, conf, ids, given>>
    /\ UNCHANGED lines

\* init_script, init_repeater and loop_repeater, with what they return; the end
\* of main frees the identifiers.
Started(now, then) ==
    /\ program = now /\ UNCHANGED <<conf, lines, given>>
    /\ \/ program' = then /\ ids' = (IF then = "exited" THEN {} ELSE ids) /\ UNCHANGED status
       \/ program' = "exited" /\ status' = 1 /\ ids' = {}

main_end == Started("script", "repeater") \/ Started("repeater", "loop") \/ Started("loop", "exited")

ConfigNext ==
    \/ main_args \/ BlankLine \/ BadLine \/ NamelessSection
    \/ \E kind \in SectionChoice : OpenSection(kind)
    \/ CloseSection \/ read_dmrids
    \/ \E k \in KeyChoice["repeater"], v \in Values : read_config_repeater(k, v)
    \/ \E k \in Values : read_config_dmrid(k)
    \/ \E k \in KeyChoice["httpd"], v \in Values : read_config_httpd(k, v)
    \/ \E k \in KeyChoice[Section], v \in Values : read_config_proto(k, v)
    \/ EndOfFile \/ main_end
-----------------------------------------------------------------------------
GivenTo(number, k) == {g \in given : g[1] = number /\ g[2] = k}

Running == program \in {"script", "repeater", "loop"}

\* A protocol section whose brace was read is complete, so that the repeater is
\* never started with a homebrew link that has no peer; only a file that ends
\* within the section goes unchecked.
PeersConfigured ==
    Running => \A i \in DOMAIN conf.protos :
        conf.protos[i].type = "homebrew" /\ (Section = "top" \/ i < Current) =>
            conf.protos[i].fields["host"] # 0

\* A number or a text of a protocol's section is given at most once (a number
\* that is zero does not count), and what was given is what the protocol is set up
\* with, cut to the width of its field; otherwise it is the section's default.  The
\* numbers with a default of their own, the port of a homebrew section, the quality
\* of an mbe one and the color code of an mmdvm one, can therefore not be given at
\* all: they always are a "duplicate key" (CONFIG_INT in config.c).
GivenOnceAndKept ==
    Running => \A i \in DOMAIN conf.protos :
        LET p == conf.protos[i]
            Is(k, values) == \/ values = {} /\ p.fields[k] = FieldDefaults(p.type)[k]
                             \/ values = {p.fields[k]}
        IN  /\ \A k \in TextKeys(p.type) : Is(k, {Text(g[3]) : g \in GivenTo(p.number, k)})
            /\ \A k \in NumberKeys(p.type) :
                 Is(k, {Narrow(k, g[3]) : g \in GivenTo(p.number, k)} \ {0})

\* The program is in its loop only with a script and with protocols, no more
\* than the table has places for.
LoopConfigured ==
    Running => conf.script # 0 /\ Len(conf.protos) \in 1 .. MAX_PROTOS

\* The time limit is the last that the file gives, but only where no section and no
\* other line outside the sections follows: each of those sets it back to 180
\* (config.c:366-367, "Defaults"), though noisebridge.cfg.example:15-18 gives it in
\* the first of several sections.
TimeLimitOfLastSection ==
    Running => LET asked == GivenTo(conf.number, "timeout") IN
        \/ asked = {} /\ conf.timeout = 180
        \/ asked # {} /\ \A g \in asked : conf.timeout = Narrow("timeout", g[3])

\* A program that gets as far as its loop has a script, protocols and their peers;
\* each protocol is set up with what its own section gives, wherever the sections
\* begin and end; and the time limit of calls is the default unless the section it
\* is given in is the last of the file.
ConfigAsGiven ==
    PeersConfigured /\ GivenOnceAndKept /\ LoopConfigured /\ TimeLimitOfLastSection
=============================================================================
