------------------------------ MODULE HttpUrl ------------------------------
(***************************************************************************)
(* http_parser_parse_url: the fields of a URL, by one pass of the parser's *)
(* URL states and a second one over the authority.  A user types a URL     *)
(* one character at a time; every prefix is a URL to be parsed.            *)
(***************************************************************************)
EXTENDS HttpSyntax

CONSTANTS
    UrlSeeds,       \* where the typing starts
    UrlAlphabet,
    MaxTyped

ASSUME UrlConstants ==
    UrlSeeds \subseteq Seq(STRING) /\ UrlAlphabet \subseteq STRING /\ MaxTyped \in Nat

VARIABLES
    url,            \* the characters so far
    typed,          \* how many were typed
    isConnect       \* the URL is that of a CONNECT request

urlVars == <<url, typed, isConnect>>

UrlFields == {"SCHEMA", "HOST", "PORT", "PATH", "QUERY", "FRAGMENT", "USERINFO"}
-----------------------------------------------------------------------------
NoField == [off |-> 0, len |-> 0]

\* Delimiters belong to no field.
FieldOf == [ s_req_schema |-> "SCHEMA", s_req_server_with_at |-> "HOST", s_req_server |-> "HOST",
             s_req_path |-> "PATH", s_req_query_string |-> "QUERY", s_req_fragment |-> "FRAGMENT" ]

\* u.field[f] grows by character k, or begins with it.
Grow(u, f, k, begins) ==
    IF begins THEN [u EXCEPT !.field[f] = [off |-> k, len |-> 1], !.set = @ \cup {f}]
    ELSE [u EXCEPT !.field[f].len = @ + 1]

\* The first pass, at index k.
UrlPass(text, u, k) ==
    LET s == parse_url_char(u.s, text[k])
        v == [u EXCEPT !.s = s, !.found_at = @ \/ s = "s_req_server_with_at"]
    IN  IF u.bad \/ s = "s_dead" THEN [u EXCEPT !.bad = TRUE]
        ELSE IF s \notin DOMAIN FieldOf THEN v
        ELSE [Grow(v, FieldOf[s], k, FieldOf[s] # u.last) EXCEPT !.last = FieldOf[s]]

IS_HOST_CHAR(c) == IS_ALPHA(c) \/ IS_NUM(c) \/ c \in {".", "-"}
IS_HEX(c) == LOWER(c) \in DOMAIN unhex
IS_ZONE_CHAR(c) == IS_HOST_CHAR(c) \/ c \in {"%", "_"}

http_parse_host_char(s, ch) ==
    CASE s \in {"userinfo_start", "userinfo"} ->
            CASE ch = "@" -> "host_start" [] IS_USERINFO_CHAR(ch) -> "userinfo" [] OTHER -> "dead"
      [] s = "host_start" ->
            CASE ch = "[" -> "v6_start" [] IS_HOST_CHAR(ch) -> "host" [] OTHER -> "dead"
      [] s = "host" /\ IS_HOST_CHAR(ch) -> "host"
      [] s \in {"host", "v6_end"} /\ ch = ":" -> "port_start"
      [] s \in {"v6", "v6_zone"} /\ ch = "]" -> "v6_end"
      [] s \in {"v6", "v6_start"} /\ (IS_HEX(ch) \/ ch \in {":", "."}) -> "v6"
      [] s = "v6" /\ ch = "%" -> "v6_zone_start"
      [] s \in {"v6_zone", "v6_zone_start"} /\ IS_ZONE_CHAR(ch) -> "v6_zone"
      [] s \in {"port", "port_start"} /\ IS_NUM(ch) -> "port"
      [] OTHER -> "dead"

\* A zone counts into the host without moving its start.
HostFieldOf == [ host |-> "HOST", v6 |-> "HOST", v6_zone_start |-> "HOST", v6_zone |-> "HOST",
                 port |-> "PORT", userinfo |-> "USERINFO" ]

\* Mutant: a zone is left out of the host.
HostPassZone(text, u, k) ==
    LET s == http_parse_host_char(u.s, text[k])
    IN  IF u.bad \/ s = "dead" THEN [u EXCEPT !.bad = TRUE]
        ELSE IF s \notin DOMAIN HostFieldOf \/ s = "v6_zone" THEN [u EXCEPT !.s = s]
        ELSE [Grow(u, HostFieldOf[s], k, s # u.s /\ s # "v6_zone_start") EXCEPT !.s = s]

\* The second pass, at index k.
HostPass(text, u, k) ==
    LET s == http_parse_host_char(u.s, text[k])
    IN  IF u.bad \/ s = "dead" THEN [u EXCEPT !.bad = TRUE]
        ELSE IF s \notin DOMAIN HostFieldOf THEN [u EXCEPT !.s = s]
        ELSE [Grow(u, HostFieldOf[s], k, s # u.s /\ s \notin {"v6_zone_start", "v6_zone"})
              EXCEPT !.s = s]

Unfinished == {"host_start", "v6_start", "v6", "v6_zone_start", "v6_zone", "port_start",
               "userinfo", "userinfo_start"}

HostEnd(u) == [u EXCEPT !.bad = @ \/ u.s \in Unfinished]

http_parse_host(text, u) ==
    LET h == u.field["HOST"]
        begin == [u EXCEPT !.s = IF u.found_at THEN "userinfo_start" ELSE "host_start",
                           !.field["HOST"].len = 0]
    IN  HostEnd(Through(LAMBDA v, k : HostPass(text, v, k), begin,
                        [j \in 1 .. h.len |-> h.off + j - 1]))

FieldText(text, u, f) == SubSeq(text, u.field[f].off, u.field[f].off + u.field[f].len - 1)

\* strtoul; a value that is too large for a port stays as it is.
strtoul(digits) == Through(LAMBDA v, c : IF v > 65535 THEN v ELSE 10 * v + Numbers[c], 0, digits)
PortOf(text, u) == strtoul(FieldText(text, u, "PORT"))

Authority(text, u) ==
    IF "HOST" \in u.set /\ ~u.bad THEN http_parse_host(text, u) ELSE u

UrlEnd(text, u, connect) ==
    [u EXCEPT !.bad = \/ u.bad
                      \/ "SCHEMA" \in u.set /\ "HOST" \notin u.set
                      \/ connect /\ u.set # {"HOST", "PORT"}
                      \/ "PORT" \in u.set /\ PortOf(text, u) > 65535]

http_parser_parse_url(text, connect) ==
    LET begin == [field |-> [f \in UrlFields |-> NoField], set |-> {}, last |-> "none",
                  s |-> IF connect THEN "s_req_server_start" ELSE "s_req_spaces_before_url",
                  found_at |-> FALSE, bad |-> FALSE]
    IN  UrlEnd(text, Authority(text, Through(LAMBDA u, k : UrlPass(text, u, k), begin,
                                             [k \in 1 .. Len(text) |-> k])), connect)
-----------------------------------------------------------------------------
UrlInit == url \in UrlSeeds /\ typed = 0 /\ isConnect \in BOOLEAN

Type(c) == typed < MaxTyped /\ url' = Append(url, c) /\ typed' = typed + 1 /\ UNCHANGED isConnect

UrlNext == \E c \in UrlAlphabet : Type(c)
-----------------------------------------------------------------------------
\* The order in which the fields of a URL stand.
Position == [SCHEMA |-> 1, USERINFO |-> 2, HOST |-> 3, PORT |-> 4, PATH |-> 5, QUERY |-> 6,
             FRAGMENT |-> 7]

\* The characters of a URL's fields, as sets of indices.
Extent(u, f) == u.field[f].off .. u.field[f].off + u.field[f].len - 1

\* A URL that http_parser_parse_url accepts is cut into fields that stand in
\* order and share no character, each within the URL; all that lies between
\* them is delimiters.  A user that copies a field by its offset and length,
\* as http.c does with the path, copies that field and nothing else.
FieldsPartitionUrl(u) ==
    ~u.bad =>
        /\ \A f \in u.set : u.field[f].len > 0 /\ Extent(u, f) \subseteq 1 .. Len(url)
        /\ \A f, g \in u.set : Position[f] < Position[g] =>
                \A i \in Extent(u, f), j \in Extent(u, g) : i < j
        /\ \A i \in (1 .. Len(url)) \ UNION {Extent(u, f) : f \in u.set} :
                url[i] \in {":", "/", "@", "[", "]", "?", "#"}

\* The number that digits write.
NumberOf(digits) == Through(LAMBDA v, c : 10 * v + Numbers[c], 0, digits)

\* What an accepted URL names can be used: a host if there is a schema, only
\* host and port for CONNECT, a port that fits sixteen bits.
FieldsUsable(u) ==
    ~u.bad =>
        /\ "SCHEMA" \in u.set \/ isConnect => "HOST" \in u.set
        /\ isConnect => u.set = {"HOST", "PORT"}
        /\ "PORT" \in u.set => NumberOf(FieldText(url, u, "PORT")) < 65536

\* The fields of an address that http_parser_parse_url accepts are the parts
\* of the address, and can be used as what they are called.
UrlFieldsRight ==
    LET right(u) == FieldsPartitionUrl(u) /\ FieldsUsable(u)
    IN  right(http_parser_parse_url(url, isConnect))
=============================================================================
