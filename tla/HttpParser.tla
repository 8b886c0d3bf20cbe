----------------------------- MODULE HttpParser -----------------------------
(***************************************************************************)
(* The HTTP parser of noisebridge (http_parser.c), one call of             *)
(* http_parser_execute at a time: a state machine fed with whatever part   *)
(* of the input a read returned, and calling back as it recognises things. *)
(*                                                                         *)
(* A call is a record r: the parser p, the data, the index i of the        *)
(* current character, the marks, the events reported, whether the next     *)
(* callback pauses the parser, and how the call ends.                      *)
(***************************************************************************)
EXTENDS HttpSyntax

CONSTANTS
    ULLONG_MAX,             \* "no length given", and what lengths stay below
    HTTP_MAX_HEADER_SIZE,
    Wires,                  \* the inputs: [type, chars, msgs, skip, pauses]
    ReadSizes               \* how many characters a read may return

ASSUME HttpLimits ==
    ULLONG_MAX \in Nat /\ ULLONG_MAX > 16 /\ HTTP_MAX_HEADER_SIZE \in Nat

VARIABLES
    wire,       \* what the peer sends; whether callbacks skip bodies, and may pause
    pos,        \* how much of it the parser has consumed
    parser,     \* struct http_parser
    events,     \* the callbacks made so far, pieces of data joined
    phase       \* open, paused, failed, upgraded or ended

parserVars == <<wire, pos, parser, events, phase>>

Marked == {"header_field", "header_value", "url", "body", "status"}
-----------------------------------------------------------------------------
\* http_parser_init: everything zero but the type and the state.
http_parser_init(t) ==
    [ type |-> t, header_state |-> "h_general", flags |-> {}, content_length |-> 0,
      state |-> CASE t = "HTTP_REQUEST" -> "s_start_req"
                  [] t = "HTTP_RESPONSE" -> "s_start_res"
                  [] OTHER -> "s_start_req_or_res",
      method |-> "DELETE", index |-> 0, http_major |-> 0, http_minor |-> 0,
      status_code |-> 0, nread |-> 0, upgrade |-> FALSE, http_errno |-> "HPE_OK" ]

http_message_needs_eof(p) ==
    /\ p.type # "HTTP_REQUEST"
    /\ p.status_code \div 100 # 1 /\ p.status_code \notin {204, 304}
    /\ p.flags \cap {"F_SKIPBODY", "F_CHUNKED"} = {}
    /\ p.content_length = ULLONG_MAX

http_should_keep_alive(p) ==
    /\ IF p.http_major > 0 /\ p.http_minor > 0
       THEN "F_CONNECTION_CLOSE" \notin p.flags
       ELSE "F_CONNECTION_KEEP_ALIVE" \in p.flags
    /\ ~http_message_needs_eof(p)

NEW_MESSAGE(p) ==
    IF ~http_should_keep_alive(p) THEN "s_dead"
    ELSE IF p.type = "HTTP_REQUEST" THEN "s_start_req" ELSE "s_start_res"

BodyStates == {"s_chunk_data", "s_chunk_data_almost_done", "s_chunk_data_done",
               "s_body_identity", "s_body_identity_eof", "s_message_done"}

PARSING_HEADER(s) == s \notin BodyStates
-----------------------------------------------------------------------------
(***************************************************************************)
(* The macros: where a call goes, fails, marks and calls back.             *)
(***************************************************************************)
Char(r) == r.data[r.i]

UPDATE_STATE(r, s) == [r EXCEPT !.p.state = s]

REEXECUTE(r) == [r EXCEPT !.again = TRUE]

SET_ERRNO(r, e) == [r EXCEPT !.p.http_errno = e, !.stop = TRUE, !.ret = r.i - 1]

STRICT_CHECK(r, bad, then) == IF bad THEN SET_ERRNO(r, "HPE_STRICT") ELSE then

\* An assertion of the code; one that fails ends the program.
Assert_(r, holds, then) == IF holds THEN then ELSE SET_ERRNO(r, "assert")

COUNT_HEADER_SIZE(r, n) ==
    LET counted == [r EXCEPT !.p.nread = r.p.nread + n]
    IN  IF counted.p.nread > HTTP_MAX_HEADER_SIZE
        THEN SET_ERRNO(counted, "HPE_HEADER_OVERFLOW") ELSE counted

MARK(r, for) == IF r.mark[for] = 0 THEN [r EXCEPT !.mark[for] = r.i] ELSE r

\* One more event; a piece of data joins the piece before it.
Report(evs, on, data, info) ==
    IF on \in Marked /\ evs # <<>> /\ evs[Len(evs)].on = on
    THEN [evs EXCEPT ![Len(evs)].data = evs[Len(evs)].data \o data]
    ELSE Append(evs, [on |-> on, data |-> data, info |-> info])

\* A callback that pauses the parser makes the call return, with or without
\* the current character.
Called(r, consumed) ==
    IF r.pausing
    THEN [r EXCEPT !.p.http_errno = "HPE_PAUSED", !.pausing = FALSE, !.stop = TRUE,
                   !.again = FALSE, !.ret = r.i - 1 + consumed]
    ELSE r

Notify(r, on, consumed) ==
    Called([r EXCEPT !.ev = Report(r.ev, on, <<>>, <<>>)], consumed)

CALLBACK_NOTIFY(r, on) == Notify(r, on, 1)

CALLBACK_NOTIFY_NOADVANCE(r, on) == Notify(r, on, 0)

\* The data from the mark to before index `to'.
CALLBACK_DATA_(r, on, to, consumed) ==
    IF r.mark[on] = 0 THEN r
    ELSE Called([r EXCEPT !.ev = Report(r.ev, on, SubSeq(r.data, r.mark[on], to - 1), <<>>),
                          !.mark[on] = 0], consumed)

CALLBACK_DATA(r, on) == CALLBACK_DATA_(r, on, r.i, 1)
-----------------------------------------------------------------------------
(***************************************************************************)
(* The first line.                                                         *)
(***************************************************************************)
Fresh(r) == [r EXCEPT !.p.flags = {}, !.p.content_length = ULLONG_MAX]

s_dead(r) ==
    IF Char(r) \in {CR, LF} THEN r ELSE SET_ERRNO(r, "HPE_CLOSED_CONNECTION")

s_start_req_or_res(r) ==
    CASE Char(r) \in {CR, LF} -> r
      [] Char(r) = "H" ->
            CALLBACK_NOTIFY(UPDATE_STATE(Fresh(r), "s_res_or_resp_H"), "message_begin")
      [] OTHER ->
            REEXECUTE(UPDATE_STATE([Fresh(r) EXCEPT !.p.type = "HTTP_REQUEST"], "s_start_req"))

s_res_or_resp_H(r) ==
    CASE Char(r) = "T" -> UPDATE_STATE([r EXCEPT !.p.type = "HTTP_RESPONSE"], "s_res_HT")
      [] Char(r) = "E" -> UPDATE_STATE([r EXCEPT !.p.type = "HTTP_REQUEST",
                                !.p.method = "HEAD", !.p.index = 2], "s_req_method")
      [] OTHER -> SET_ERRNO(r, "HPE_INVALID_CONSTANT")

s_start_res(r) ==
    IF Char(r) \notin {"H", CR, LF} THEN SET_ERRNO(Fresh(r), "HPE_INVALID_CONSTANT")
    ELSE CALLBACK_NOTIFY(
            UPDATE_STATE(Fresh(r), IF Char(r) = "H" THEN "s_res_H" ELSE r.p.state),
            "message_begin")

\* The letters of HTTP/ and the line ends, one state each: what is expected
\* and where it leads.
Fixed ==
    [ s_res_H |-> <<"T", "s_res_HT">>, s_res_HT |-> <<"T", "s_res_HTT">>,
      s_res_HTT |-> <<"P", "s_res_HTTP">>, s_res_HTTP |-> <<"/", "s_res_first_http_major">>,
      s_req_http_H |-> <<"T", "s_req_http_HT">>, s_req_http_HT |-> <<"T", "s_req_http_HTT">>,
      s_req_http_HTT |-> <<"P", "s_req_http_HTTP">>,
      s_req_http_HTTP |-> <<"/", "s_req_first_http_major">>,
      s_res_line_almost_done |-> <<LF, "s_header_field_start">>,
      s_header_almost_done |-> <<LF, "s_header_value_lws">>,
      s_header_value_discard_ws_almost_done |-> <<LF, "s_header_value_discard_lws">> ]

FixedStep(r) ==
    STRICT_CHECK(r, Char(r) # Fixed[r.p.state][1], UPDATE_STATE(r, Fixed[r.p.state][2]))

\* A further digit of a number of at most three.
OneMore(r, n, error, set(_)) ==
    LET value == 10 * n + Numbers[Char(r)]
    IN  IF value > 999 THEN SET_ERRNO(set(value), error) ELSE set(value)

\* The version of either kind of message: `first' are the states before a digit.
Version(r, kind) ==
    LET s == r.p.state
        setMajor(v) == [r EXCEPT !.p.http_major = v]
        setMinor(v) == [r EXCEPT !.p.http_minor = v]
        bad == SET_ERRNO(r, "HPE_INVALID_VERSION")
        first(digits, set(_), next) ==
            IF Char(r) \in digits THEN UPDATE_STATE(set(Numbers[Char(r)]), next) ELSE bad
    IN  CASE s = "s_res_first_http_major" -> first(DOMAIN Numbers, setMajor, "s_res_http_major")
          [] s = "s_req_first_http_major" ->
                first(DOMAIN Numbers \ {"0"}, setMajor, "s_req_http_major")
          [] s \in {"s_res_http_major", "s_req_http_major"} ->
                IF Char(r) = "." THEN UPDATE_STATE(r, IF kind = "res" THEN "s_res_first_http_minor"
                                                      ELSE "s_req_first_http_minor")
                ELSE IF IS_NUM(Char(r))
                     THEN OneMore(r, r.p.http_major, "HPE_INVALID_VERSION", setMajor) ELSE bad
          [] s = "s_res_first_http_minor" -> first(DOMAIN Numbers, setMinor, "s_res_http_minor")
          [] s = "s_req_first_http_minor" -> first(DOMAIN Numbers, setMinor, "s_req_http_minor")
          [] s = "s_res_http_minor" /\ Char(r) = SP -> UPDATE_STATE(r, "s_res_first_status_code")
          [] s = "s_req_http_minor" /\ Char(r) = CR -> UPDATE_STATE(r, "s_req_line_almost_done")
          [] s = "s_req_http_minor" /\ Char(r) = LF -> UPDATE_STATE(r, "s_header_field_start")
          [] IS_NUM(Char(r)) -> OneMore(r, r.p.http_minor, "HPE_INVALID_VERSION", setMinor)
          [] OTHER -> bad

EndOfStatus(r) ==
    UPDATE_STATE(r, IF Char(r) = CR THEN "s_res_line_almost_done" ELSE "s_header_field_start")

Status(r) ==
    LET s == r.p.state
        set(v) == [r EXCEPT !.p.status_code = v]
    IN  CASE s = "s_res_first_status_code" ->
                CASE IS_NUM(Char(r)) -> UPDATE_STATE(set(Numbers[Char(r)]), "s_res_status_code")
                  [] Char(r) = SP -> r
                  [] OTHER -> SET_ERRNO(r, "HPE_INVALID_STATUS")
          [] s = "s_res_status_code" ->
                CASE IS_NUM(Char(r)) ->
                        OneMore(r, r.p.status_code, "HPE_INVALID_STATUS", set)
                  [] Char(r) = SP -> UPDATE_STATE(r, "s_res_status_start")
                  [] Char(r) \in {CR, LF} -> EndOfStatus(r)
                  [] OTHER -> SET_ERRNO(r, "HPE_INVALID_STATUS")
          [] s = "s_res_status_start" ->
                IF Char(r) \in {CR, LF} THEN EndOfStatus(r)
                ELSE UPDATE_STATE([MARK(r, "status") EXCEPT !.p.index = 0], "s_res_status")
          [] s = "s_res_status" ->
                IF Char(r) \in {CR, LF} THEN CALLBACK_DATA(EndOfStatus(r), "status") ELSE r

s_start_req(r) ==
    CASE Char(r) \in {CR, LF} -> r
      [] Char(r) \notin DOMAIN FirstGuess ->
            SET_ERRNO(Fresh(r), "HPE_INVALID_METHOD")
      [] OTHER ->
            CALLBACK_NOTIFY(
                UPDATE_STATE([Fresh(r) EXCEPT !.p.method = FirstGuess[Char(r)], !.p.index = 1],
                             "s_req_method"), "message_begin")

\* A wrong second letter of these methods is an error; of the others it is not.
Branching == {"CONNECT", "MKCOL", "SUBSCRIBE", "REPORT", "POST", "LOCK"}

s_req_method(r) ==
    LET word == method_strings[r.p.method]
        next == [r EXCEPT !.p.index = r.p.index + 1]
        key == <<r.p.method, r.p.index, Char(r)>>
    IN  CASE Char(r) = SP /\ r.p.index = Len(word) -> UPDATE_STATE(next, "s_req_spaces_before_url")
          [] r.p.index < Len(word) /\ Char(r) = word[r.p.index + 1] -> next
          [] key \in DOMAIN SecondGuess -> [next EXCEPT !.p.method = SecondGuess[key]]
          [] r.p.index = 1 /\ r.p.method \notin Branching -> next
          [] OTHER -> SET_ERRNO(r, "HPE_INVALID_METHOD")

UrlChar(r) ==
    LET next == UPDATE_STATE(r, parse_url_char(r.p.state, Char(r)))
    IN  IF next.p.state = "s_dead" THEN SET_ERRNO(next, "HPE_INVALID_URL") ELSE next

UrlOpen == {"s_req_schema", "s_req_schema_slash", "s_req_schema_slash_slash", "s_req_server_start"}

UrlStates == UrlOpen \cup {"s_req_server", "s_req_server_with_at", "s_req_path",
    "s_req_query_string_start", "s_req_query_string", "s_req_fragment_start", "s_req_fragment"}

Url(r) ==
    CASE r.p.state = "s_req_spaces_before_url" ->
            IF Char(r) = SP THEN r
            ELSE LET m == MARK(r, "url")
                 IN  UrlChar(IF r.p.method = "CONNECT" THEN UPDATE_STATE(m, "s_req_server_start")
                             ELSE m)
      [] r.p.state \in UrlOpen \/ Char(r) \notin {SP, CR, LF} -> UrlChar(r)
      [] Char(r) = SP -> CALLBACK_DATA(UPDATE_STATE(r, "s_req_http_start"), "url")
      [] OTHER ->
            CALLBACK_DATA(UPDATE_STATE([r EXCEPT !.p.http_major = 0, !.p.http_minor = 9],
                IF Char(r) = CR THEN "s_req_line_almost_done" ELSE "s_header_field_start"), "url")

s_req_http_start(r) ==
    CASE Char(r) = "H" -> UPDATE_STATE(r, "s_req_http_H")
      [] Char(r) = SP -> r
      [] OTHER -> SET_ERRNO(r, "HPE_INVALID_CONSTANT")

s_req_line_almost_done(r) ==
    IF Char(r) # LF THEN SET_ERRNO(r, "HPE_LF_EXPECTED")
    ELSE UPDATE_STATE(r, "s_header_field_start")
-----------------------------------------------------------------------------
(***************************************************************************)
(* The header fields.                                                      *)
(***************************************************************************)
\* A further letter of a word: on to the next one, to `found', or `lost'.
Matching(h, c, word, found, lost) ==
    LET index == h.index + 1
    IN  [h EXCEPT !.index = index,
                  !.state = IF index >= Len(word) \/ c # word[index + 1] THEN lost
                            ELSE IF index = Len(word) - 1 THEN found ELSE h.state]

s_header_field_start(r) ==
    CASE Char(r) = CR -> UPDATE_STATE(r, "s_headers_almost_done")
      [] Char(r) = LF -> REEXECUTE(UPDATE_STATE(r, "s_headers_almost_done"))
      [] ~TOKEN(Char(r)) -> SET_ERRNO(r, "HPE_INVALID_HEADER_TOKEN")
      [] OTHER ->
            LET c == LOWER(Char(r))
            IN  UPDATE_STATE([MARK(r, "header_field") EXCEPT !.p.index = 0,
                    !.p.header_state = CASE c = "c" -> "h_C"
                                         [] c = "p" -> "h_matching_proxy_connection"
                                         [] c = "t" -> "h_matching_transfer_encoding"
                                         [] c = "u" -> "h_matching_upgrade"
                                         [] OTHER -> "h_general"], "s_header_field")

\* One letter of a field's name.
FieldLetter(h, ch) ==
    LET c == LOWER(ch)
        on(s) == [h EXCEPT !.index = h.index + 1, !.state = s]
    IN  CASE h.state = "h_C" -> on(IF c = "o" THEN "h_CO" ELSE "h_general")
          [] h.state = "h_CO" -> on(IF c = "n" THEN "h_CON" ELSE "h_general")
          [] h.state = "h_CON" -> on(CASE c = "n" -> "h_matching_connection"
                                       [] c = "t" -> "h_matching_content_length"
                                       [] OTHER -> "h_general")
          [] h.state = "h_matching_connection" ->
                Matching(h, c, CONNECTION, "h_connection", "h_general")
          [] h.state = "h_matching_proxy_connection" ->
                Matching(h, c, PROXY_CONNECTION, "h_connection", "h_general")
          [] h.state = "h_matching_content_length" ->
                Matching(h, c, CONTENT_LENGTH, "h_content_length", "h_general")
          [] h.state = "h_matching_transfer_encoding" ->
                Matching(h, c, TRANSFER_ENCODING, "h_transfer_encoding", "h_general")
          [] h.state = "h_matching_upgrade" -> Matching(h, c, UPGRADE, "h_upgrade", "h_general")
          [] OTHER -> [h EXCEPT !.state = "h_general"]

\* The index of the first character from r.i on that ends a run, or one past the data.
RunEnd(r, ends(_)) ==
    LET at == {k \in r.i .. Len(r.data) : ends(r.data[k])}
    IN  IF at = {} THEN Len(r.data) + 1 ELSE Min(at)

\* The run went on to the end of the data.
Exhausted(r) == IF r.stop THEN r ELSE [r EXCEPT !.i = r.i - 1]

FieldRead(r) ==
    CASE r.stop -> r
      [] r.i > Len(r.data) -> Exhausted(r)
      [] Char(r) = ":" ->
            CALLBACK_DATA(UPDATE_STATE(r, "s_header_value_discard_ws"), "header_field")
      [] OTHER -> SET_ERRNO(r, "HPE_INVALID_HEADER_TOKEN")

\* The whole run of name letters the data holds, then the colon if it is there.
s_header_field(r) ==
    LET end == RunEnd(r, LAMBDA c : ~TOKEN(c))
        h == Through(FieldLetter, [state |-> r.p.header_state, index |-> r.p.index],
                      SubSeq(r.data, r.i, end - 1))
    IN  FieldRead(COUNT_HEADER_SIZE([r EXCEPT !.p.header_state = h.state, !.p.index = h.index,
                                              !.i = end], end - r.i))

s_header_value_start(r) ==
    LET m == UPDATE_STATE([MARK(r, "header_value") EXCEPT !.p.index = 0], "s_header_value")
        c == LOWER(Char(r))
        to(s) == [m EXCEPT !.p.header_state = s]
        h == r.p.header_state
    IN  CASE h = "h_upgrade" -> [to("h_general") EXCEPT !.p.flags = @ \cup {"F_UPGRADE"}]
          [] h = "h_transfer_encoding" ->
                to(IF c = "c" THEN "h_matching_transfer_encoding_chunked" ELSE "h_general")
          [] h = "h_content_length" ->
                IF IS_NUM(c) THEN [m EXCEPT !.p.content_length = Numbers[c]]
                ELSE SET_ERRNO(m, "HPE_INVALID_CONTENT_LENGTH")
          [] h = "h_connection" ->
                to(CASE c = "k" -> "h_matching_connection_keep_alive"
                     [] c = "c" -> "h_matching_connection_close"
                     [] c = "u" -> "h_matching_connection_upgrade"
                     [] OTHER -> "h_matching_connection_token")
          [] h = "h_matching_connection_token_start" -> m
          [] OTHER -> to("h_general")

s_header_value_discard_ws(r) ==
    CASE Char(r) \in {SP, "\t"} -> r
      [] Char(r) = CR -> UPDATE_STATE(r, "s_header_value_discard_ws_almost_done")
      [] Char(r) = LF -> UPDATE_STATE(r, "s_header_value_discard_lws")
      [] OTHER -> s_header_value_start(r)

\* The flags that a field's value, recognised to its end, stands for.
ValueFlag == [ h_connection_keep_alive |-> "F_CONNECTION_KEEP_ALIVE",
               h_connection_close |-> "F_CONNECTION_CLOSE",
               h_connection_upgrade |-> "F_CONNECTION_UPGRADE",
               h_transfer_encoding_chunked |-> "F_CHUNKED" ]

FlagsOf(h) == IF h \in DOMAIN ValueFlag THEN {ValueFlag[h]} ELSE {}

LengthDigit(h, ch) ==
    IF ch = SP THEN h
    ELSE IF ~IS_NUM(ch) \/ (ULLONG_MAX - 10) \div 10 < h.length THEN [h EXCEPT !.bad = TRUE]
    ELSE [h EXCEPT !.length = 10 * h.length + Numbers[ch]]

\* One character of a field's value; h.at stays at the first that is refused.
ValueChar(h, ch) ==
    LET c == LOWER(ch)
        to(s) == [h EXCEPT !.state = s]
        s == h.state
        after ==
          CASE s \in {"h_connection", "h_transfer_encoding"} -> [h EXCEPT !.asserted = TRUE]
            [] s = "h_content_length" -> LengthDigit(h, ch)
            [] s = "h_matching_transfer_encoding_chunked" ->
                  Matching(h, c, CHUNKED, "h_transfer_encoding_chunked", "h_general")
            [] s = "h_matching_connection_token_start" ->
                  to(CASE c = "k" -> "h_matching_connection_keep_alive"
                       [] c = "c" -> "h_matching_connection_close"
                       [] c = "u" -> "h_matching_connection_upgrade"
                       [] TOKEN(c) -> "h_matching_connection_token"
                       [] c \in {SP, "\t"} -> s
                       [] OTHER -> "h_general")
            [] s = "h_matching_connection_keep_alive" -> Matching(h, c, KEEP_ALIVE,
                  "h_connection_keep_alive", "h_matching_connection_token")
            [] s = "h_matching_connection_close" -> Matching(h, c, CLOSE,
                  "h_connection_close", "h_matching_connection_token")
            [] s = "h_matching_connection_upgrade" -> Matching(h, c, UPGRADE,
                  "h_connection_upgrade", "h_matching_connection_token")
            [] s = "h_matching_connection_token" ->
                  IF ch = "," THEN [to("h_matching_connection_token_start") EXCEPT !.index = 0]
                  ELSE h
            [] s = "h_transfer_encoding_chunked" -> IF ch = SP THEN h ELSE to("h_general")
            [] s \in DOMAIN ValueFlag ->
                  CASE ch = "," -> [to("h_matching_connection_token_start")
                                    EXCEPT !.index = 0, !.flags = @ \cup FlagsOf(s)]
                    [] ch = SP -> h
                    [] OTHER -> to("h_matching_connection_token")
            [] OTHER -> to("h_general")
    IN  IF h.bad \/ h.asserted THEN h ELSE [after EXCEPT !.at = h.at + 1]

LineFeed(r) ==
    IF r.stop THEN r ELSE CALLBACK_DATA_(REEXECUTE(r), "header_value", r.i, 0)

CountRun(r, n) == IF r.stop THEN r ELSE COUNT_HEADER_SIZE(r, n)

\* A value read to before r.i: refused, cut off by the end of the data in the
\* state `cut', or ended by a line end.
ValueEnd(r, h, n, cut) ==
    CASE h.asserted -> SET_ERRNO([r EXCEPT !.i = h.at], "assert")
      [] h.bad -> SET_ERRNO([r EXCEPT !.i = h.at], "HPE_INVALID_CONTENT_LENGTH")
      [] r.i > Len(r.data) ->
            Exhausted(COUNT_HEADER_SIZE([r EXCEPT !.p.header_state = cut], n))
      [] Char(r) = LF -> LineFeed(COUNT_HEADER_SIZE(UPDATE_STATE(r, "s_header_almost_done"), n))
      [] OTHER ->
            CountRun(CALLBACK_DATA(UPDATE_STATE(r, "s_header_almost_done"), "header_value"), n)

ValueRead(r, h, end, cut) ==
    ValueEnd([r EXCEPT !.p.header_state = h.state, !.p.index = h.index, !.p.flags = h.flags,
                       !.p.content_length = h.length, !.i = end], h, end - r.i, cut)

\* The characters of a value the data holds, looked at in turn.
ValueLooked(r, end) ==
    Through(ValueChar,
        [state |-> r.p.header_state, index |-> r.p.index, flags |-> r.p.flags,
         length |-> r.p.content_length, at |-> r.i - 1, bad |-> FALSE, asserted |-> FALSE],
        SubSeq(r.data, r.i, end - 1))

EndOfValue(r) == RunEnd(r, LAMBDA c : c \in {CR, LF})

\* Mutant: the state of a value the data ends in is not saved.
ValueStateLost(r) ==
    LET end == EndOfValue(r)
        h == ValueLooked(r, end)
    IN  ValueRead(r, h, end, r.p.header_state)

\* The whole run of the value the data holds, and the line end if it is there.
\* (The limit of the code's memchr only spares the report of a value that is
\* too long for the head as it is.)
s_header_value(r) ==
    LET end == EndOfValue(r)
        h == ValueLooked(r, end)
    IN  ValueRead(r, h, end, h.state)

s_header_value_lws(r) ==
    IF Char(r) \in {SP, "\t"} THEN REEXECUTE(UPDATE_STATE(r, "s_header_value_start"))
    ELSE REEXECUTE(UPDATE_STATE([r EXCEPT !.p.flags = @ \cup FlagsOf(r.p.header_state)],
                                "s_header_field_start"))

s_header_value_discard_lws(r) ==
    IF Char(r) \in {SP, "\t"} THEN UPDATE_STATE(r, "s_header_value_discard_ws")
    ELSE LET m == MARK([r EXCEPT !.p.flags = @ \cup FlagsOf(r.p.header_state)], "header_value")
         IN  CALLBACK_DATA_(REEXECUTE(UPDATE_STATE(m, "s_header_field_start")),
                            "header_value", r.i, 0)
-----------------------------------------------------------------------------
(***************************************************************************)
(* The end of the head, and the body.                                      *)
(***************************************************************************)
\* What on_headers_complete is shown.
HeadInfo(p) ==
    <<p.http_major, p.http_minor, p.status_code, IF http_should_keep_alive(p) THEN 1 ELSE 0,
      IF p.upgrade THEN 1 ELSE 0>>

\* on_headers_complete answers 1 when the wire's message has no body to skip to.
s_headers_almost_done(r) ==
    LET up == {"F_UPGRADE", "F_CONNECTION_UPGRADE"} \subseteq r.p.flags \/ r.p.method = "CONNECT"
        head == UPDATE_STATE([r EXCEPT !.p.upgrade = up], "s_headers_done")
        told == [head EXCEPT !.ev = Report(r.ev, "headers_complete", <<r.p.method>>, HeadInfo(head.p)),
                             !.p.flags = @ \cup (IF r.skip THEN {"F_SKIPBODY"} ELSE {})]
    IN  STRICT_CHECK(r, Char(r) # LF,
            IF "F_TRAILING" \in r.p.flags
            THEN CALLBACK_NOTIFY_NOADVANCE(REEXECUTE(UPDATE_STATE(r, "s_message_done")),
                                           "chunk_complete")
            ELSE Called(REEXECUTE(told), 0))

Complete(r) == CALLBACK_NOTIFY(UPDATE_STATE(r, NEW_MESSAGE(r.p)), "message_complete")

\* The rest of the data is in another protocol: the call returns.
Leave(r) == IF r.stop THEN r ELSE [r EXCEPT !.stop = TRUE, !.ret = r.i]

s_headers_done(r) ==
    LET p == r.p
        n == [r EXCEPT !.p.nread = 0]
        hasBody == "F_CHUNKED" \in p.flags \/ p.content_length \notin {0, ULLONG_MAX}
    IN  STRICT_CHECK(r, Char(r) # LF,
          CASE p.upgrade /\ (p.method = "CONNECT" \/ "F_SKIPBODY" \in p.flags \/ ~hasBody) ->
                  Leave(Complete(n))
            [] "F_SKIPBODY" \in p.flags -> Complete(n)
            [] "F_CHUNKED" \in p.flags -> UPDATE_STATE(n, "s_chunk_size_start")
            [] p.content_length = 0 -> Complete(n)
            [] p.content_length # ULLONG_MAX -> UPDATE_STATE(n, "s_body_identity")
            [] ~http_message_needs_eof(p) -> Complete(n)
            [] OTHER -> UPDATE_STATE(n, "s_body_identity_eof"))

\* As much of the announced length as the data holds.
TakeBody(r) ==
    LET to_read == Min({r.p.content_length, Len(r.data) + 1 - r.i})
    IN  [MARK(r, "body") EXCEPT !.p.content_length = @ - to_read, !.i = r.i + to_read - 1]

s_body_identity(r) ==
    LET t == TakeBody(r)
    IN  Assert_(r, r.p.content_length \notin {0, ULLONG_MAX},
            IF t.p.content_length # 0 THEN t
            ELSE CALLBACK_DATA_(REEXECUTE(UPDATE_STATE(t, "s_message_done")), "body", t.i + 1, 0))

s_body_identity_eof(r) == [MARK(r, "body") EXCEPT !.i = Len(r.data)]

s_message_done(r) == IF r.p.upgrade THEN Leave(Complete(r)) ELSE Complete(r)

s_chunk_size_start(r) ==
    Assert_(r, r.p.nread = 1 /\ "F_CHUNKED" \in r.p.flags,
        IF Char(r) \notin DOMAIN unhex THEN SET_ERRNO(r, "HPE_INVALID_CHUNK_SIZE")
        ELSE UPDATE_STATE([r EXCEPT !.p.content_length = unhex[Char(r)]], "s_chunk_size"))

s_chunk_size(r) ==
    CASE Char(r) = CR -> UPDATE_STATE(r, "s_chunk_size_almost_done")
      [] Char(r) \in {";", SP} -> UPDATE_STATE(r, "s_chunk_parameters")
      [] Char(r) \notin DOMAIN unhex -> SET_ERRNO(r, "HPE_INVALID_CHUNK_SIZE")
      [] (ULLONG_MAX - 16) \div 16 < r.p.content_length ->
            SET_ERRNO(r, "HPE_INVALID_CONTENT_LENGTH")
      [] OTHER -> [r EXCEPT !.p.content_length = 16 * @ + unhex[Char(r)]]

s_chunk_parameters(r) ==
    IF Char(r) = CR THEN UPDATE_STATE(r, "s_chunk_size_almost_done") ELSE r

s_chunk_size_almost_done(r) ==
    LET n == [r EXCEPT !.p.nread = 0]
    IN  STRICT_CHECK(r, Char(r) # LF,
            CALLBACK_NOTIFY(IF r.p.content_length = 0
                            THEN UPDATE_STATE([n EXCEPT !.p.flags = @ \cup {"F_TRAILING"}],
                                              "s_header_field_start")
                            ELSE UPDATE_STATE(n, "s_chunk_data"), "chunk_header"))

s_chunk_data(r) ==
    LET t == TakeBody(r)
    IN  Assert_(r, "F_CHUNKED" \in r.p.flags /\ r.p.content_length \notin {0, ULLONG_MAX},
            IF t.p.content_length = 0 THEN UPDATE_STATE(t, "s_chunk_data_almost_done") ELSE t)

s_chunk_data_almost_done(r) ==
    Assert_(r, r.p.content_length = 0,
        STRICT_CHECK(r, Char(r) # CR,
            CALLBACK_DATA(UPDATE_STATE(r, "s_chunk_data_done"), "body")))

s_chunk_data_done(r) ==
    STRICT_CHECK(r, Char(r) # LF,
        CALLBACK_NOTIFY(UPDATE_STATE([r EXCEPT !.p.nread = 0], "s_chunk_size_start"),
                        "chunk_complete"))
-----------------------------------------------------------------------------
(***************************************************************************)
(* http_parser_execute.                                                    *)
(***************************************************************************)
\* The switch on the state.
Switch(r) ==
    LET s == r.p.state
    IN  CASE s = "s_dead" -> s_dead(r)
          [] s = "s_start_req_or_res" -> s_start_req_or_res(r)
          [] s = "s_res_or_resp_H" -> s_res_or_resp_H(r)
          [] s = "s_start_res" -> s_start_res(r)
          [] s \in DOMAIN Fixed -> FixedStep(r)
          [] s \in {"s_res_first_http_major", "s_res_http_major", "s_res_first_http_minor",
                    "s_res_http_minor"} -> Version(r, "res")
          [] s \in {"s_req_first_http_major", "s_req_http_major", "s_req_first_http_minor",
                    "s_req_http_minor"} -> Version(r, "req")
          [] s \in {"s_res_first_status_code", "s_res_status_code", "s_res_status_start",
                    "s_res_status"} -> Status(r)
          [] s = "s_start_req" -> s_start_req(r)
          [] s = "s_req_method" -> s_req_method(r)
          [] s = "s_req_spaces_before_url" \/ s \in UrlStates -> Url(r)
          [] s = "s_req_http_start" -> s_req_http_start(r)
          [] s = "s_req_line_almost_done" -> s_req_line_almost_done(r)
          [] s = "s_header_field_start" -> s_header_field_start(r)
          [] s = "s_header_field" -> s_header_field(r)
          [] s = "s_header_value_discard_ws" -> s_header_value_discard_ws(r)
          [] s = "s_header_value_start" -> s_header_value_start(r)
          [] s = "s_header_value" -> s_header_value(r)
          [] s = "s_header_value_lws" -> s_header_value_lws(r)
          [] s = "s_header_value_discard_lws" -> s_header_value_discard_lws(r)
          [] s = "s_headers_almost_done" -> s_headers_almost_done(r)
          [] s = "s_headers_done" -> s_headers_done(r)
          [] s = "s_body_identity" -> s_body_identity(r)
          [] s = "s_body_identity_eof" -> s_body_identity_eof(r)
          [] s = "s_message_done" -> s_message_done(r)
          [] s = "s_chunk_size_start" -> s_chunk_size_start(r)
          [] s = "s_chunk_size" -> s_chunk_size(r)
          [] s = "s_chunk_parameters" -> s_chunk_parameters(r)
          [] s = "s_chunk_size_almost_done" -> s_chunk_size_almost_done(r)
          [] s = "s_chunk_data" -> s_chunk_data(r)
          [] s = "s_chunk_data_almost_done" -> s_chunk_data_almost_done(r)
          [] s = "s_chunk_data_done" -> s_chunk_data_done(r)

\* A character is seen by at most this many states in turn (a line feed that
\* ends a value, the head and the message).
Reexecutions == [j \in 1 .. 5 |-> j]

Counted(r) == IF PARSING_HEADER(r.p.state) THEN COUNT_HEADER_SIZE(r, 1) ELSE r

Again(r, j) == IF r.again /\ ~r.stop THEN Switch([r EXCEPT !.again = FALSE]) ELSE r

Advance(r) == IF r.stop THEN r ELSE [r EXCEPT !.i = @ + 1]

\* One turn of the loop; turns that an inner loop has consumed are passed over.
Turn(r, k) ==
    IF r.stop \/ k # r.i THEN r
    ELSE Advance(Through(Again, REEXECUTE(Counted(r)), Reexecutions))

\* Mutant: a call that begins inside a value does not mark where the data goes on.
FirstMarksNoValue(s) ==
    [on \in Marked |-> IF \/ on = "header_field" /\ s = "s_header_field"
                          \/ on = "url" /\ s \in UrlStates
                          \/ on = "status" /\ s = "s_res_status" THEN 1 ELSE 0]

\* What the last call left unfinished begins with this call's first character.
FirstMarks(s) ==
    [on \in Marked |-> IF \/ on = "header_field" /\ s = "s_header_field"
                          \/ on = "header_value" /\ s = "s_header_value"
                          \/ on = "url" /\ s \in UrlStates
                          \/ on = "status" /\ s = "s_res_status" THEN 1 ELSE 0]

\* The marks left at the end of the data, each reported up to there.
Leftover(r) ==
    LET one == Cardinality({on \in Marked : r.mark[on] # 0}) <= 1
        flush(x, on) == IF x.stop THEN x ELSE CALLBACK_DATA_(x, on, x.i, 0)
    IN  IF r.stop THEN r ELSE Assert_(r, one,
            Through(flush, r, <<"header_field", "header_value", "url", "body", "status">>))

AtEnd(p) ==
    CASE p.state = "s_body_identity_eof" -> {"message_complete"}
      [] p.state \in {"s_dead", "s_start_req_or_res", "s_start_res", "s_start_req"} -> {}
      [] OTHER -> {"HPE_INVALID_EOF_STATE"}

http_parser_execute(p, data, skip, pausing, ev) ==
    LET start == [p |-> p, data |-> data, i |-> 1, mark |-> FirstMarks(p.state), ev |-> ev,
                  skip |-> skip, pausing |-> pausing, again |-> FALSE, stop |-> FALSE,
                  ret |-> Len(data)]
    IN  IF p.http_errno # "HPE_OK" THEN [start EXCEPT !.ret = 0]
        ELSE IF data = <<>>
        THEN CASE AtEnd(p) = {"message_complete"} -> CALLBACK_NOTIFY_NOADVANCE(start, "message_complete")
               [] AtEnd(p) = {} -> start
               [] OTHER -> [start EXCEPT !.p.http_errno = "HPE_INVALID_EOF_STATE", !.ret = 1]
        ELSE Leftover(Through(Turn, start, [k \in 1 .. Len(data) |-> k]))
-----------------------------------------------------------------------------
(***************************************************************************)
(* The parser's user: reads the wire in pieces, lets a callback pause the  *)
(* parser and resumes it, and passes on the end of the stream.             *)
(***************************************************************************)
ParserInit ==
    /\ wire \in Wires
    /\ pos = 0
    /\ parser = http_parser_init(wire.type)
    /\ events = <<>>
    /\ phase = "open"

After(r) ==
    /\ parser' = r.p
    /\ events' = r.ev
    /\ pos' = pos + r.ret
    /\ phase' = CASE r.p.http_errno = "HPE_PAUSED" -> "paused"
                  [] r.p.http_errno # "HPE_OK" -> "failed"
                  [] r.p.upgrade /\ r.stop -> "upgraded"
                  [] OTHER -> "open"

Read(n, pausing) ==
    /\ phase = "open" /\ pos < Len(wire.chars)
    /\ LET data == SubSeq(wire.chars, pos + 1, Min({pos + n, Len(wire.chars)}))
       IN  After(http_parser_execute(parser, data, wire.skip, pausing, events))
    /\ UNCHANGED wire

\* http_parser_pause(parser, 0).  A user whose last callback completed an
\* upgraded message does not read on.
Resume ==
    /\ phase = "paused"
    /\ phase' = IF parser.upgrade /\ Last(events).on = "message_complete" THEN "upgraded" ELSE "open"
    /\ parser' = [parser EXCEPT !.http_errno = "HPE_OK"]
    /\ UNCHANGED <<wire, pos, events>>

AfterEof(r) ==
    /\ parser' = r.p /\ events' = r.ev
    /\ phase' = IF r.p.http_errno = "HPE_OK" THEN "ended" ELSE "failed"

ReadEof ==
    /\ phase = "open" /\ pos = Len(wire.chars)
    /\ AfterEof(http_parser_execute(parser, <<>>, wire.skip, FALSE, events))
    /\ UNCHANGED <<wire, pos>>

ParserNext ==
    \/ \E n \in ReadSizes, pausing \in {FALSE, wire.pauses} : Read(n, pausing)
    \/ Resume
    \/ ReadEof
=============================================================================
