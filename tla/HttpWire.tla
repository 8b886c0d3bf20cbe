------------------------------ MODULE HttpWire ------------------------------
(***************************************************************************)
(* What HTTP promises, independent of the parser: messages as structures,  *)
(* the characters a peer writes for them, and the callbacks a reader of    *)
(* those characters owes its user.                                         *)
(*                                                                         *)
(* A message is [type, method, url, status, reason, version, fields, body, *)
(* chunks, trailers, eol]: version is <<>> for a request of HTTP/0.9 form, *)
(* fields and trailers are sequences of <<name, gap, value>>, and body is  *)
(* none, length, chunked or eof, with its data in chunks.                  *)
(***************************************************************************)
EXTENDS HttpParser

DigitOf(n) == CHOOSE c \in DOMAIN unhex : unhex[c] = n

Decimal(n) == IF n < 10 THEN <<DigitOf(n)>> ELSE <<DigitOf(n \div 10), DigitOf(n % 10)>>

Hex(n) == IF n < 16 THEN <<DigitOf(n)>> ELSE <<DigitOf(n \div 16), DigitOf(n % 16)>>

\* The sequence of what op makes of each element.
Each(op(_), s) == Through(LAMBDA done, x : Append(done, op(x)), <<>>, s)

Joined(ss) == Through(LAMBDA a, b : a \o b, <<>>, ss)

HTTP == <<"H", "T", "T", "P", "/">>

Field(f, eol) == f[1] \o <<":">> \o f[2] \o f[3] \o eol

Fields(fs, eol) == Joined([k \in DOMAIN fs |-> Field(fs[k], eol)])

FirstLine(m) ==
    IF m.type = "HTTP_REQUEST"
    THEN method_strings[m.method] \o <<SP>> \o m.url \o
         (IF m.version = <<>> THEN <<>>
          ELSE <<SP>> \o HTTP \o <<DigitOf(m.version[1]), ".", DigitOf(m.version[2])>>) \o m.eol
    ELSE HTTP \o <<DigitOf(m.version[1]), ".", DigitOf(m.version[2]), SP>> \o
         <<DigitOf(m.status \div 100)>> \o <<DigitOf((m.status \div 10) % 10), DigitOf(m.status % 10)>> \o
         (IF m.reason = <<>> THEN <<>> ELSE <<SP>> \o m.reason) \o m.eol

MessageHead(m) == FirstLine(m) \o Fields(m.fields, m.eol) \o m.eol

MessageBody(m) ==
    IF m.body # "chunked" THEN Joined(m.chunks)
    ELSE Joined([k \in DOMAIN m.chunks |->
                    Hex(Len(m.chunks[k])) \o <<CR, LF>> \o m.chunks[k] \o <<CR, LF>>])
         \o <<"0", CR, LF>> \o Fields(m.trailers, m.eol) \o m.eol

Written(m) == MessageHead(m) \o MessageBody(m)
-----------------------------------------------------------------------------
\* Some field of that name has this word for its value.
Says(m, name, value) == \E k \in DOMAIN m.fields : m.fields[k][1] = name /\ m.fields[k][3] = value

Upgrades(m) ==
    \/ m.method = "CONNECT"
    \/ Says(m, UPGRADE, <<"w">>) /\ Says(m, CONNECTION, UPGRADE)

\* The next message may follow on the same connection.
KeepsAlive(m) ==
    /\ IF m.version # <<>> /\ m.version[1] > 0 /\ m.version[2] > 0
       THEN ~Says(m, CONNECTION, CLOSE) ELSE Says(m, CONNECTION, KEEP_ALIVE)
    /\ m.body # "eof"

Event(on, data, info) == [on |-> on, data |-> data, info |-> info]

FieldEvents(fs) ==
    Joined([k \in DOMAIN fs |-> << Event("header_field", fs[k][1], <<>>),
                                   Event("header_value", fs[k][3], <<>>) >>])

BodyEvents(m) ==
    CASE m.body = "chunked" ->
            Joined([k \in DOMAIN m.chunks |->
                        << Event("chunk_header", <<>>, <<>>), Event("body", m.chunks[k], <<>>),
                           Event("chunk_complete", <<>>, <<>>) >>])
            \o <<Event("chunk_header", <<>>, <<>>)>> \o FieldEvents(m.trailers)
            \o <<Event("chunk_complete", <<>>, <<>>)>>
      [] m.body = "none" -> <<>>
      [] OTHER -> <<Event("body", Joined(m.chunks), <<>>)>>

Owed(m) ==
    << Event("message_begin", <<>>, <<>>) >>
    \o (IF m.type = "HTTP_REQUEST" THEN <<Event("url", m.url, <<>>)>>
        ELSE IF m.reason = <<>> THEN <<>> ELSE <<Event("status", m.reason, <<>>)>>)
    \o FieldEvents(m.fields)
    \o << Event("headers_complete", <<m.method>>,
            <<IF m.version = <<>> THEN 0 ELSE m.version[1],
              IF m.version = <<>> THEN 9 ELSE m.version[2], m.status,
              IF KeepsAlive(m) THEN 1 ELSE 0, IF Upgrades(m) THEN 1 ELSE 0>>) >>
    \o BodyEvents(m) \o << Event("message_complete", <<>>, <<>>) >>

\* The messages of a wire that can be read: up to the first that ends the connection.
Readable(msgs) ==
    LET last == {k \in DOMAIN msgs : ~KeepsAlive(msgs[k]) \/ Upgrades(msgs[k])}
    IN  IF last = {} THEN msgs ELSE SubSeq(msgs, 1, Min(last))

OwedAll(msgs) == LET ms == Readable(msgs) IN Joined([k \in DOMAIN ms |-> Owed(ms[k])])

WrittenAll(msgs) == Joined([k \in DOMAIN msgs |-> Written(msgs[k])])

Finished == phase \in {"failed", "upgraded", "ended"}

\* What the parser reports of the wire when it comes in one piece.
Whole == http_parser_execute(http_parser_init(wire.type), wire.chars, wire.skip, FALSE, <<>>)

\* The events that are no pieces of data.
Settled(ev) == SelectSeq(ev, LAMBDA e : e.on \notin Marked)

EndedAs(r) == parser.http_errno = r.p.http_errno /\ Settled(events) = Settled(r.ev)

\* Heads that stay under the size limit even if every character of them is
\* counted twice, as the inner loops of s_header_field and s_header_value
\* count the first character of every read.
Roomy == \A k \in DOMAIN wire.msgs : 2 * Len(MessageHead(wire.msgs[k])) <= HTTP_MAX_HEADER_SIZE
-----------------------------------------------------------------------------
(***************************************************************************)
(* Properties.                                                             *)
(***************************************************************************)
\* The parser keeps to its types, and what it reports is in its data.
ParserTypeOK ==
    /\ pos \in 0 .. Len(wire.chars)
    /\ parser.content_length \in 0 .. ULLONG_MAX
    /\ parser.nread \in 0 .. HTTP_MAX_HEADER_SIZE + Len(wire.chars)
    /\ phase \in {"open", "paused", "failed", "upgraded", "ended"}

\* None of the assertions of http_parser.c fails: a chunk's size begins a
\* fresh count of the head, a body being read has a length, no two marks are
\* left at the end of a read.
AssertionsHold == parser.http_errno # "assert"

\* Whatever pieces the reads cut a stream of messages into, and whichever
\* callbacks pause the parser, the user is told exactly what was written: the
\* same method, address, fields, body bytes and ends of messages, up to the
\* message after which the connection is not kept, and nothing of what
\* follows it.
MessagesReadBack ==
    Finished /\ Roomy /\ wire.msgs # <<>> => events = OwedAll(wire.msgs)

\* Nor do the reads make a difference to input that is malformed or of unusual
\* form: the same error or none, and the same events but for the data an error
\* cut short, as when all of it comes at once.
CutsMakeNoDifference ==
    Finished /\ wire.msgs = <<>> /\ parser.http_errno # "HPE_INVALID_EOF_STATE" => EndedAs(Whole)

\* A head longer than the limit is never accepted, in whatever pieces it comes.
\* (If a callback pauses the parser at the end of a value, the value's
\* characters are not counted: CALLBACK_DATA returns before COUNT_HEADER_SIZE.)
HeadsBounded ==
    Finished /\ ~wire.pauses => \A k \in DOMAIN wire.msgs :
        Len(MessageHead(wire.msgs[k])) > HTTP_MAX_HEADER_SIZE =>
            Cardinality({e \in DOMAIN events : events[e].on = "headers_complete"}) < k

\* The bytes after a message that hands the connection to another protocol
\* are left to it, all of them.
UpgradeLeavesTheRest ==
    phase = "upgraded" => pos = Len(WrittenAll(Readable(wire.msgs)))

\* A stream of well formed messages reaches the user of http_parser_execute as
\* it was written, up to the limits of the parser: no head over its limit is
\* taken, and what belongs to another protocol is left alone.
StreamReadBack == MessagesReadBack /\ UpgradeLeavesTheRest /\ HeadsBounded

\* Any input at all, in any pieces: the parser keeps its counters in range,
\* runs into none of its assertions and ends as if all had come at once.
AnyInputHandled == ParserTypeOK /\ AssertionsHold /\ CutsMakeNoDifference
=============================================================================
