----------------------------- MODULE HttpServer -----------------------------
(***************************************************************************)
(* One client of noisebridge's HTTP server (http.c): its request arrives   *)
(* in pieces, one read is made of it, the parser runs over what was read,  *)
(* and the answer is written and the connection closed.  The client reads  *)
(* the answer with the same parser.                                        *)
(*                                                                         *)
(* The read entry is one-shot and nothing registers another, so there is   *)
(* one read for each client, and a client sends one request (a second one  *)
(* behind it would share client->request.url, whose fields http_parser.c   *)
(* does not clear, and is left out).  Headers are <<name, value>> of short words;  *)
(* the text of pages and of the configuration is one word per resource.    *)
(***************************************************************************)
EXTENDS HttpUrl, HttpWire

CONSTANTS
    Requests,           \* what clients send: [path, chars]
    Files,              \* the files under the root: path -> content
    Directories,        \* the directories, the root among them: path -> st_size
    HTTPD_MAX_RESPONS,
    REQUEST_PATH,       \* the size of request_path, 1024
    PATH_MAX            \* 4096

ASSUME ServerBound ==
    /\ HTTPD_MAX_RESPONS \in Nat \ {0}
    /\ REQUEST_PATH \in Nat \ {0} /\ PATH_MAX \in Nat /\ REQUEST_PATH <= PATH_MAX
    /\ <<>> \in DOMAIN Directories /\ DOMAIN Directories \cap DOMAIN Files = {}

VARIABLES
    request,        \* what this client sends
    client,         \* client_t: the parser, the path and the file requested
    conn,           \* new, open, live (a stream), closed, undefined
    out,            \* the characters written to the client
    said            \* [status, content, length] of the answer, for the properties

serverVars == <<request, client, conn, out, said>>

ConfigPath == <<"/", "r", "c">>         \* /repeater/config.js
StreamPath == <<"/", "r", "s">>         \* /repeater/ts.stream
IndexPath == <<"/", "i">>               \* /index.html
ConfigText == <<"{", "}">>
-----------------------------------------------------------------------------
(***************************************************************************)
(* The answer.                                                             *)
(***************************************************************************)
http_status ==
    (200 :> <<"O", "K">>) @@ (400 :> <<"B", "R">>) @@ (404 :> <<"N", "F">>) @@ (500 :> <<"I", "E">>)

ContentType == <<"c", "t">>

headers_contain(hs, key) == \E k \in DOMAIN hs : hs[k][1] = key

headers_add(hs, key, value) == Append(hs, <<key, value>>)

Truncated(text, size) == SubSeq(text, 1, Min({Len(text), size - 1}))

headers_str(hs) ==
    Truncated(Joined([k \in DOMAIN hs |-> hs[k][1] \o <<":", SP>> \o hs[k][2] \o <<CR, LF>>]),
              HTTPD_MAX_RESPONS)

\* Server and Date always, Content-Length and Content-Type if they are missing.
AllHeaders(headers, length) ==
    LET a == headers_add(headers_add(headers, <<"s">>, <<"n">>), <<"d">>, <<"d">>)
        b == IF ~headers_contain(a, CONTENT_LENGTH) /\ length # 0
             THEN headers_add(a, CONTENT_LENGTH, Decimal(length)) ELSE a
    IN  IF headers_contain(b, ContentType) THEN b ELSE headers_add(b, ContentType, <<"h">>)

StatusLine(p, status) ==
    HTTP \o Decimal(p.http_major) \o <<".">> \o Decimal(p.http_minor)
         \o <<SP, DigitOf(status \div 100), DigitOf((status \div 10) % 10), DigitOf(status % 10), SP>>
         \o http_status[status] \o <<CR, LF>>

\* The head ends in "\n\r" (http_response).
respond_header(p, status, headers, length) ==
    Truncated(StatusLine(p, status) \o headers_str(AllHeaders(headers, length)) \o <<LF, CR>>,
              HTTPD_MAX_RESPONS)

\* Write a head and its content; `next' is what becomes of the connection.
Answer(c, status, headers, content, length, next) ==
    /\ out' = respond_header(c.parser, status, headers, length) \o content
    /\ said' = [status |-> status, content |-> content, length |-> length]
    /\ conn' = next

ErrorPage(status) == <<"<">> \o http_status[status] \o <<">">>

respond_error(c, status) ==
    Answer(c, status, << <<ContentType, <<"h", "u">>>> >>, ErrorPage(status),
           Len(ErrorPage(status)), "closed")

\* The connection is left open: respond_content_write returned 0.
respond_repeater_config(c) ==
    Answer(c, 200, << <<<<"x">>, <<"n">>>>, <<ContentType, <<"j">>>> >>, ConfigText,
           Len(ConfigText), "live")

respond_repeater_live_ts(c) ==
    Answer(c, 200, << <<<<"x">>, <<"n">>>>, <<ContentType, <<"o">>>>, <<<<"b">>, <<"n">>>>,
                      <<<<"o">>, <<"*">>>> >>, <<>>, 0, "live")

respond_content(c) ==
    CASE c.path = ConfigPath -> respond_repeater_config(c)
      [] c.path = StreamPath -> respond_repeater_live_ts(c)
      [] OTHER -> respond_error(c, 404)

\* What sendfile sends: a directory can be opened but not be read.
Content(file) == IF file \in DOMAIN Directories THEN <<>> ELSE Files[file]

Size(file) == IF file \in DOMAIN Directories THEN Directories[file] ELSE Len(Files[file])

\* A file that is gone or cannot be opened by now is a 500.
respond_write(c) ==
    \/ respond_error(c, 500)
    \/ Answer(c, 200, << <<ContentType, <<"m">>>>, <<<<"l">>, <<"d">>>> >>, Content(c.file),
              Size(c.file), "closed")
-----------------------------------------------------------------------------
(***************************************************************************)
(* The request.                                                            *)
(***************************************************************************)
NoPath == <<"NULL">>

\* handle_client_url and handle_client_headers_complete, on the events of a
\* read: an address that cannot be taken apart stops the parser, before it
\* reads the version (0.9 when a line break ended the address); the path is
\* that of the last address whose head is complete.
Urls(ev) == {k \in DOMAIN ev : ev[k].on = "url"}

UrlFails(ev) == \E k \in Urls(ev) : http_parser_parse_url(ev[k].data, FALSE).bad

handle_client_url(p) ==
    [p EXCEPT !.http_errno = "HPE_CB_url", !.http_major = 0,
              !.http_minor = IF p.http_major = 0 THEN @ ELSE 0]

RequestUrl(ev) ==
    LET head == Max({0} \cup {k \in DOMAIN ev : ev[k].on = "headers_complete"})
    IN  ev[Max({k \in Urls(ev) : head # 0 => k < head})].data

\* Mutant: the path is taken when the address is reported.
HeadDoneEarly(ev) == Urls(ev) # {}

HeadDone(ev) == \E k \in DOMAIN ev : ev[k].on = "headers_complete"

\* url.field_data[UF_PATH], whether or not field_set says there is a path: the
\* empty one that http_url_init left when the address has none.
PathField(ev) ==
    LET text == RequestUrl(ev)
    IN  FieldText(text, http_parser_parse_url(text, FALSE), "PATH")

IndexFor(path) == IF path = <<"/">> THEN IndexPath ELSE path

\* format_path_canonical gives the empty string for what does not exist.
handle_client_headers_complete(c, ev) ==
    LET path == IndexFor(PathField(ev))
        found == path \in DOMAIN Files \cup DOMAIN Directories
    IN  IF Len(PathField(ev)) >= PATH_MAX
        THEN [c EXCEPT !.parser.http_errno = "HPE_CB_headers_complete"]
        ELSE [c EXCEPT !.path = path, !.file = IF found THEN path ELSE NoPath]

\* The path is copied into request_path without looking at that array's size;
\* one that fills it leaves no end of the string.
PathOverruns(ev) == Len(PathField(ev)) \in REQUEST_PATH .. PATH_MAX - 1

ServerInit ==
    /\ request \in Requests
    /\ client = [parser |-> http_parser_init("HTTP_REQUEST"), path |-> NoPath, file |-> NoPath]
    /\ conn = "new"
    /\ out = <<>>
    /\ said = [status |-> 0, content |-> <<>>, length |-> 0]

handle_server_accept ==
    /\ conn = "new" /\ conn' = "open"
    /\ UNCHANGED <<request, client, out, said>>

Respond(c, allRead) ==
    /\ client' = c
    /\ CASE c.parser.http_errno # "HPE_OK" \/ c.parser.upgrade -> respond_error(c, 400)
         [] ~allRead -> conn' = "closed" /\ UNCHANGED <<out, said>>
         [] c.file = NoPath -> respond_content(c)
         [] OTHER -> respond_write(c)

\* The callbacks of one http_parser_execute, then the answer.
handle_parsed(r, n) ==
    LET bad == UrlFails(r.ev)
        done == HeadDone(r.ev) /\ ~bad
        parsed == [client EXCEPT !.parser = IF bad THEN handle_client_url(r.p) ELSE r.p]
    IN  \/ /\ done /\ PathOverruns(r.ev)
           /\ conn' = "undefined"
           /\ UNCHANGED <<client, out, said>>
        \/ /\ done => ~PathOverruns(r.ev)
           /\ Respond(IF done THEN handle_client_headers_complete(parsed, r.ev) ELSE parsed, r.ret = n)

\* The one read returns the first n characters of the request; 0 when the
\* client has closed without sending.
handle_readable(n) ==
    /\ conn = "open"
    /\ handle_parsed(http_parser_execute(client.parser, SubSeq(request.chars, 1, n),
                                         FALSE, FALSE, <<>>), n)
    /\ UNCHANGED request

\* The read fails: the entry is gone, the client stays with its error entry.
ReadFails ==
    /\ conn = "open" /\ conn' = "live"
    /\ UNCHANGED <<request, client, out, said>>

handle_error ==
    /\ conn \in {"open", "live"} /\ conn' = "closed"
    /\ UNCHANGED <<request, client, out, said>>

ServerNext ==
    \/ handle_server_accept
    \/ \E n \in 0 .. Len(request.chars) : handle_readable(n)
    \/ ReadFails
    \/ handle_error
-----------------------------------------------------------------------------
\* What a client's parser makes of the answer.
ClientSees == http_parser_execute(http_parser_init("HTTP_RESPONSE"), out, FALSE, FALSE, <<>>)

ValuesOf(ev, name) == {k \in DOMAIN ev : ev[k].on = "header_value" /\ ev[k - 1].data = name}

HeadSays(ev, status, length) ==
    /\ Cardinality(ValuesOf(ev, ContentType)) = 1
    /\ {ev[k].data : k \in ValuesOf(ev, CONTENT_LENGTH)} =
            IF length = 0 THEN {} ELSE {Decimal(length)}
    /\ \E k \in DOMAIN ev : ev[k].on = "headers_complete" /\ ev[k].info[3] = status

\* A client is never served another resource than the one its whole request
\* names, however little of the request the one read returned: an address cut
\* short is not taken for a shorter one.  A directory, such as the root for an
\* address without a path, is served as a head with nothing behind it.
NothingElseServed ==
    said.status = 200 =>
        \/ request.path \in DOMAIN Files /\ said.content = Files[request.path]
        \/ request.path \in DOMAIN Directories /\ said.content = <<>>
        \/ request.path = ConfigPath /\ said.content = ConfigText
        \/ request.path = StreamPath /\ said.content = <<>>

\* A client that reads the answer with the parser of the same code finds a
\* head: the status that was meant, one type, and the length once, if there is
\* one.
AnswerHeadReadable ==
    out # <<>> => HeadSays(ClientSees.ev, said.status, said.length)

BodyRead == Joined([k \in DOMAIN ClientSees.ev |->
                        IF ClientSees.ev[k].on = "body" THEN ClientSees.ev[k].data ELSE <<>>])

\* What it takes for the content is not what was sent: the head ends in "\n\r"
\* (http.c:71; the line before it, commented out, has "\r\n\r\n"), so a CR is
\* read in front of the content and its last byte is cut off by the length.
BodyShifted ==
    out # <<>> =>
        BodyRead = SubSeq(<<CR>> \o said.content, 1,
                          IF said.length = 0 THEN 1 + Len(said.content)
                          ELSE Min({said.length, 1 + Len(said.content)}))

\* A client of http.c is sent what it asked for or is refused, in an answer
\* whose head it can read and whose content it reads one byte late.
ClientsAnswered == NothingElseServed /\ AnswerHeadReadable /\ BodyShifted
=============================================================================
