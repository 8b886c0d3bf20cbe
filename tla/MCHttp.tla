------------------------------- MODULE MCHttp -------------------------------
(***************************************************************************)
(* What TLC lets the HTTP parser, its URL parser and the server read.      *)
(***************************************************************************)
EXTENDS HttpServer

Message(method, target, version, fields, body, chunks, eol) ==
    [type |-> "HTTP_REQUEST", method |-> method, url |-> target, status |-> 0, reason |-> <<>>,
     version |-> version, fields |-> fields, body |-> body, chunks |-> chunks,
     trailers |-> <<>>, eol |-> eol]

CRLF == <<CR, LF>>
Slash == <<"/">>

Response(status, reason, version, fields, body, chunks) ==
    [Message("DELETE", <<>>, version, fields, body, chunks, CRLF)
     EXCEPT !.type = "HTTP_RESPONSE", !.status = status, !.reason = reason]

Gap == <<SP>>
LengthOf(data) == <<CONTENT_LENGTH, Gap, Decimal(Len(data))>>
Chunked == <<TRANSFER_ENCODING, Gap, CHUNKED>>
Connection(value) == <<CONNECTION, Gap, value>>
Ten == [k \in 1 .. 10 |-> "x"]

Plain(method) == Message(method, IF method = "CONNECT" THEN <<"h", ":", "8">> ELSE Slash,
                         <<1, 1>>, <<>>, "none", <<>>, CRLF)

Req(msgs) == [type |-> "HTTP_REQUEST", chars |-> WrittenAll(msgs), msgs |-> msgs, skip |-> FALSE,
              pauses |-> TRUE]
Res(msgs) == [Req(msgs) EXCEPT !.type = "HTTP_RESPONSE"]
Raw(chars) == [Req(<<>>) EXCEPT !.chars = chars]
Steady(w) == [w EXCEPT !.pauses = FALSE]

Get == Message("GET", <<"/", "a", "?", "b", "#", "c">>, <<1, 1>>,
               << <<<<"h">>, <<>>, <<"v">>>>, <<<<"x">>, Gap, <<>>>> >>, "none", <<>>, CRLF)
Post == Message("POST", <<"h", ":", "/", "/", "u", "@", "h", "/">>, <<1, 1>>,
                <<LengthOf(Ten)>>, "length", <<Ten>>, <<LF>>)
PostChunks == [Message("PUT", Slash, <<1, 1>>, <<Chunked>>, "chunked", <<Ten, <<"y">>>>, CRLF)
               EXCEPT !.trailers = << <<<<"t">>, Gap, <<"z">>>> >>]
Closing == Message("GET", Slash, <<1, 1>>, <<Connection(CLOSE)>>, "none", <<>>, CRLF)
Old == Message("GET", Slash, <<>>, <<>>, "none", <<>>, CRLF)
KeepOld == Message("GET", Slash, <<1, 0>>, <<Connection(KEEP_ALIVE)>>, "none", <<>>, CRLF)
Switching == Message("GET", Slash, <<1, 1>>, << <<UPGRADE, Gap, <<"w">>>>, Connection(UPGRADE) >>,
                     "none", <<>>, CRLF)
Folded == Message("GET", Slash, <<1, 1>>,
             << <<<<"f">>, Gap, <<"a">>>>, <<CONNECTION \o <<"s">>, Gap, CLOSE>>,
                <<CONTENT_LENGTH, Gap, <<"0">>>> >>, "none", <<>>, CRLF)
Proxy == Message("GET", Slash, <<1, 0>>, << <<PROXY_CONNECTION, Gap, <<"k">>>>,
                 Connection(KEEP_ALIVE) >>, "none", <<>>, CRLF)
Long == Message("GET", Slash, <<1, 1>>, << <<<<"l">>, Gap, [k \in 1 .. 110 |-> "v"]>> >>,
                "none", <<>>, CRLF)

Ok == Response(200, <<"O", "K">>, <<1, 1>>, <<LengthOf(<<"a">>)>>, "length", <<<<"a">>>>)
NoContent == Response(204, <<>>, <<1, 1>>, <<>>, "none", <<>>)
ToTheEnd == Response(200, <<"O">>, <<1, 1>>, <<>>, "eof", <<Ten>>)

HeadOfGet == method_strings["GET"] \o <<SP, "/">> \o CRLF

TheWires ==
    { Req(<<Get, Post, Get>>), Req(<<PostChunks, Get>>), Req(<<Closing, Old>>), Req(<<Old>>),
       Req(<<KeepOld, Folded>>), Req(<<Switching, Old>>), Req(<<Proxy, Closing>>),
       Req(<<Plain("CONNECT"), Old>>), Steady(Req(<<Long, Old>>)), Steady(Req(<<Get, Long>>)), Req(<<Long>>),
       Res(<<Ok, NoContent>>), Res(<<ToTheEnd>>),
       [Req(<<Plain("HEAD")>>) EXCEPT !.type = "HTTP_BOTH"],
       [Res(<<ToTheEnd>>) EXCEPT !.type = "HTTP_BOTH"],
       Raw(HeadOfGet \o Field(<<CONTENT_LENGTH, Gap, <<"2", "5", "6", "1">>>>, CRLF) \o CRLF \o Ten),
       Raw(HeadOfGet \o Field(<<CONTENT_LENGTH, Gap, <<"2", "5", "5">>>>, CRLF) \o CRLF \o Ten),
       Raw(HeadOfGet \o Field(Chunked, CRLF) \o CRLF \o <<"f", "f">> \o CRLF \o Ten),
       Raw(HeadOfGet \o Field(<<CONNECTION, Gap, <<"x", ",", SP>> \o CLOSE \o <<",", "y">>>>, CRLF)
           \o <<SP, "z">> \o CRLF \o CRLF \o HeadOfGet \o CRLF),
       Raw(HeadOfGet \o <<"b", SP, ":">> \o CRLF), Raw(<<"G", "E", "T", SP, "h", ":", "/", SP>>) }
    \cup {Req(<<Plain(m)>>) : m \in DOMAIN method_strings}

TheUrlSeeds == {<<>>, <<"a", ":", "/", "/">>, <<"a", ":", "/", "/", "[">>,
                <<"h", ":", "6", "5", "5", "3">>, <<"a", ":", "/", "/", "h", ":", "6", "5", "5">>}

TheFiles == (IndexPath :> <<"w">>) @@ (<<"/", "a">> :> <<"a", "a">>)
            @@ (<<"/", "a", "b">> :> <<"b", "b", "b">>)

TheDirectories == (<<>> :> 7) @@ (<<"/", "d">> :> 1)

GetOf(target) == [Get EXCEPT !.url = target, !.fields = <<>>]

Requested(path, target) == [path |-> path, chars |-> Written(GetOf(target))]

AbsoluteAddress == <<"h", ":", "/", "/", "h">>
NoSuchPort == <<":", "7", "0", "0", "0", "0">>

\* Paths of three characters fit request_path, four overrun it, six are refused.
TheRequests ==
    {Requested(p, p) : p \in {<<"/", "a">>, <<"/", "a", "b">>, <<"/", "n">>, <<"/", "d">>,
                              ConfigPath, StreamPath, <<"/", "a", "b", "c">>,
                              <<"/", "a", "b", "c", "d", "e">>}}
    \cup {Requested(IndexPath, Slash), Requested(<<"/", "a">>, AbsoluteAddress \o <<"/", "a">>),
          Requested(<<"/", "a">>, <<"/", "a", "?", "b">>), Requested(<<>>, AbsoluteAddress),
          Requested(<<"/", "a">>, AbsoluteAddress \o NoSuchPort \o <<"/", "a">>),
          [path |-> <<"/", "a">>, chars |->
              Written([GetOf(AbsoluteAddress \o NoSuchPort \o <<"/", "a">>) EXCEPT !.version = <<>>])]}
=============================================================================
