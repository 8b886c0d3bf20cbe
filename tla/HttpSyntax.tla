----------------------------- MODULE HttpSyntax -----------------------------
(***************************************************************************)
(* What the HTTP parser of noisebridge (http_parser.c) knows of            *)
(* characters, words and URLs.  A character is a one-letter string, one    *)
(* representative for each class the code tells apart; the header words    *)
(* it matches letter by letter are cut down to prefixes that still pass    *)
(* through every matching state.                                           *)
(***************************************************************************)
EXTENDS Integers, Sequences, FiniteSets, SequencesExt, TLC

\* A left fold, as a recursive function (SequencesExt's looks for the greatest
\* index at every step).
Through(op(_, _), base, s) ==
    LET upto[k \in 0 .. Len(s)] == IF k = 0 THEN base ELSE op(upto[k - 1], s[k])
    IN  upto[Len(s)]

CR == "\r"
LF == "\n"
SP == " "
Digits == <<"0", "1", "2", "3", "4", "5", "6", "7", "8", "9">>
Numbers == [c \in Range(Digits) |-> CHOOSE n \in 0 .. 9 : Digits[n + 1] = c]
unhex == Numbers @@ [a |-> 10, b |-> 11, c |-> 12, d |-> 13, e |-> 14, f |-> 15]
IS_NUM(c) == c \in DOMAIN Numbers

LowerOf == [A |-> "a", B |-> "b", C |-> "c", D |-> "d", E |-> "e", F |-> "f", G |-> "g",
            H |-> "h", I |-> "i", J |-> "j", K |-> "k", L |-> "l", M |-> "m", N |-> "n",
            O |-> "o", P |-> "p", Q |-> "q", R |-> "r", S |-> "s", T |-> "t", U |-> "u",
            V |-> "v", W |-> "w", X |-> "x", Y |-> "y", Z |-> "z"]
LOWER(c) == IF c \in DOMAIN LowerOf THEN LowerOf[c] ELSE c
IS_ALPHA(c) == LOWER(c) \in Range(LowerOf)
TOKEN(c) == IS_ALPHA(c) \/ IS_NUM(c) \/ c \in {"-", "_", ".", "%", "*"}
IS_URL_CHAR(c) == c \notin {SP, CR, LF, "\t", "#", "?"}
IS_USERINFO_CHAR(c) == TOKEN(c) \/ c \in {";", ":", "=", ","}

\* The words matched letter by letter.
CONNECTION == <<"c", "o", "n", "n", "e">>
CONTENT_LENGTH == <<"c", "o", "n", "t", "e">>
PROXY_CONNECTION == <<"p", "r", "o">>
TRANSFER_ENCODING == <<"t", "r", "a">>
UPGRADE == <<"u", "p", "g">>
CHUNKED == <<"c", "h", "u">>
KEEP_ALIVE == <<"k", "e", "e">>
CLOSE == <<"c", "l", "o">>

method_strings ==
    [ DELETE |-> <<"D","E","L","E","T","E">>, GET |-> <<"G","E","T">>,
      HEAD |-> <<"H","E","A","D">>, POST |-> <<"P","O","S","T">>, PUT |-> <<"P","U","T">>,
      CONNECT |-> <<"C","O","N","N","E","C","T">>, OPTIONS |-> <<"O","P","T","I","O","N","S">>,
      TRACE |-> <<"T","R","A","C","E">>, COPY |-> <<"C","O","P","Y">>,
      LOCK |-> <<"L","O","C","K">>, MKCOL |-> <<"M","K","C","O","L">>,
      MOVE |-> <<"M","O","V","E">>, PROPFIND |-> <<"P","R","O","P","F","I","N","D">>,
      PROPPATCH |-> <<"P","R","O","P","P","A","T","C","H">>,
      SEARCH |-> <<"S","E","A","R","C","H">>, UNLOCK |-> <<"U","N","L","O","C","K">>,
      BIND |-> <<"B","I","N","D">>, REBIND |-> <<"R","E","B","I","N","D">>,
      UNBIND |-> <<"U","N","B","I","N","D">>, ACL |-> <<"A","C","L">>,
      REPORT |-> <<"R","E","P","O","R","T">>,
      MKACTIVITY |-> <<"M","K","A","C","T","I","V","I","T","Y">>,
      CHECKOUT |-> <<"C","H","E","C","K","O","U","T">>, MERGE |-> <<"M","E","R","G","E">>,
      MSEARCH |-> <<"M","-","S","E","A","R","C","H">>,
      NOTIFY |-> <<"N","O","T","I","F","Y">>,
      SUBSCRIBE |-> <<"S","U","B","S","C","R","I","B","E">>,
      UNSUBSCRIBE |-> <<"U","N","S","U","B","S","C","R","I","B","E">>,
      PATCH |-> <<"P","A","T","C","H">>, PURGE |-> <<"P","U","R","G","E">>,
      MKCALENDAR |-> <<"M","K","C","A","L","E","N","D","A","R">>,
      LINK |-> <<"L","I","N","K">>, UNLINK |-> <<"U","N","L","I","N","K">> ]

\* The first guess from the first letter ...
FirstGuess == [A |-> "ACL", B |-> "BIND", C |-> "CONNECT", D |-> "DELETE", G |-> "GET",
               H |-> "HEAD", L |-> "LOCK", M |-> "MKCOL", N |-> "NOTIFY", O |-> "OPTIONS",
               P |-> "POST", R |-> "REPORT", S |-> "SUBSCRIBE", T |-> "TRACE", U |-> "UNLOCK"]

\* ... and where a later letter changes it: <<guess, index, letter>> to the next guess.
SecondGuess ==
    (<<"CONNECT", 1, "H">> :> "CHECKOUT") @@ (<<"CONNECT", 2, "P">> :> "COPY") @@
    (<<"MKCOL", 1, "O">> :> "MOVE") @@ (<<"MKCOL", 1, "E">> :> "MERGE") @@
    (<<"MKCOL", 1, "-">> :> "MSEARCH") @@ (<<"MKCOL", 2, "A">> :> "MKACTIVITY") @@
    (<<"MKCOL", 3, "A">> :> "MKCALENDAR") @@ (<<"SUBSCRIBE", 1, "E">> :> "SEARCH") @@
    (<<"REPORT", 2, "B">> :> "REBIND") @@ (<<"POST", 1, "R">> :> "PROPFIND") @@
    (<<"POST", 1, "U">> :> "PUT") @@ (<<"POST", 1, "A">> :> "PATCH") @@
    (<<"LOCK", 1, "I">> :> "LINK") @@ (<<"PUT", 2, "R">> :> "PURGE") @@
    (<<"UNLOCK", 2, "S">> :> "UNSUBSCRIBE") @@ (<<"UNLOCK", 2, "B">> :> "UNBIND") @@
    (<<"PROPFIND", 4, "P">> :> "PROPPATCH") @@ (<<"UNLOCK", 3, "I">> :> "UNLINK")
-----------------------------------------------------------------------------

\* The state after one more character of a URL; s_dead when it cannot be there.
parse_url_char(s, ch) ==
    IF ch \in {SP, CR, LF, "\t"} \/ (s = "s_req_server_with_at" /\ ch = "@") THEN "s_dead"
    ELSE CASE s = "s_req_spaces_before_url" /\ ch \in {"/", "*"} -> "s_req_path"
           [] s = "s_req_spaces_before_url" /\ IS_ALPHA(ch) -> "s_req_schema"
           [] s = "s_req_schema" /\ IS_ALPHA(ch) -> s
           [] s = "s_req_schema" /\ ch = ":" -> "s_req_schema_slash"
           [] s = "s_req_schema_slash" /\ ch = "/" -> "s_req_schema_slash_slash"
           [] s = "s_req_schema_slash_slash" /\ ch = "/" -> "s_req_server_start"
           [] s \in {"s_req_server_start", "s_req_server", "s_req_server_with_at"} ->
                 CASE ch = "/" -> "s_req_path"
                   [] ch = "?" -> "s_req_query_string_start"
                   [] ch = "@" -> "s_req_server_with_at"
                   [] IS_USERINFO_CHAR(ch) \/ ch \in {"[", "]"} -> "s_req_server"
                   [] OTHER -> "s_dead"
           [] s = "s_req_path" /\ IS_URL_CHAR(ch) -> s
           [] s = "s_req_path" /\ ch = "?" -> "s_req_query_string_start"
           [] s \in {"s_req_query_string_start", "s_req_query_string"} /\ ch # "#" ->
                 "s_req_query_string"
           [] s \in {"s_req_path", "s_req_query_string_start", "s_req_query_string"} /\ ch = "#" ->
                 "s_req_fragment_start"
           [] s = "s_req_fragment_start" /\ ch = "#" -> s
           [] s = "s_req_fragment" \/ (s = "s_req_fragment_start" /\ ch # "#") -> "s_req_fragment"
           [] OTHER -> "s_dead"
=============================================================================
