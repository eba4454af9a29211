---------------------------- MODULE MCRespParser -----------------------------
(***************************************************************************)
(* The parser on the messages of small clients.                            *)
(***************************************************************************)
EXTENDS RespParser

Arr(args) == [form |-> "array", args |-> args]
Line(line, args) == [form |-> "line", line |-> line, args |-> args]
Reply(sign, text) == [form |-> "reply", sign |-> sign, text |-> text]
Other(bytes, means) == [form |-> "other", bytes |-> bytes, means |-> means]

Quote == "'"

Ping == Arr(<<PING>>)
\* Ten bytes, a length of two digits, with what ends or begins a message.
Echo10 == Arr(<<ECHO, <<"a", CR, LF, "*", "1", CR, LF, "$", Space, Quote>>>>)
EchoNothing == Arr(<<ECHO, <<>>>>)
GetDir == Arr(<<CONFIG, GETPARAM, DIR>>)
GetAck == Arr(<<REPLCONF, GETPARAM, <<"*">>>>)

PingLine == Line(<<Space, "P">>, <<PING>>)
EchoLine == Line(<<"E", Space, Quote, "a", Space, "b", Quote>>, <<ECHO, <<"a", Space, "b">>>>)
PingWords == Line(<<"P", Space, "a", Space, Space, "b">>, <<PING, <<"a">>, <<"b">>>>)
\* More than the input buffer holds.
LongLine == Line([i \in 1 .. 14 |-> "x"], <<[i \in 1 .. 14 |-> "x"]>>)

\* Quotes of both kinds, one inside a word, and a line without a word.
OtherQuotes == Line(<<"P", Space, "\"", "a", Quote, Space, "\"">>, <<PING, <<"a", Quote, Space>>>>)
Apostrophe == Line(<<"E", Space, "d", Quote, "t", Space, "a">>,
                   <<ECHO, <<"d", Quote, "t">>, <<"a">>>>)
EmptyLine == Line(<<>>, <<>>)

\* A string of length -1, an array of that length, a string outside of an
\* array, and an array in an array.
EchoNull == Other(<<"*", "2">> \o crlf \o <<"$", "1">> \o crlf \o ECHO \o crlf
                      \o <<"$", "-", "1">> \o crlf,
                  <<Command(<<ECHO, <<>>>>)>>)
NullArray == Other(<<"*", "-", "1">> \o crlf, <<>>)
Loose == Other(<<"$", "1">> \o crlf \o <<"a">> \o crlf, <<>>)
Nested == Other(<<"*", "1">> \o crlf \o Encode(Arr(<<PING>>)), <<Command(<<PING>>)>>)

Pong == Reply("+", <<"p", "o">>)
Failed == Reply("-", <<"e">>)
Resync == Reply("+", FULLRESYNC)

MCScripts ==
    {<<m, n>> : m, n \in {Ping, EchoNothing, EchoLine}}
        \cup {<<Echo10, PingLine>>, <<PingWords, Arr(<<INFO>>)>>, <<GetDir>>, <<GetAck, Ping>>,
              <<Ping, LongLine>>, <<Arr(<<CONFIG, DIR, DIR>>), Arr(<<<<"x">>>>)>>,
              <<Pong, Failed, Pong, Ping>>, <<Pong, Resync, Echo10>>,
              <<OtherQuotes, Ping>>, <<Apostrophe, Ping>>, <<PingWords, Apostrophe>>,
              <<EmptyLine, Ping>>, <<EchoNull, Ping>>, <<NullArray>>, <<Loose, Ping>>,
              <<Loose, Loose>>, <<Nested>>}
==============================================================================
