---------------------------- MODULE MC_HttpConn ----------------------------
(***************************************************************************)
(* Small instances of HttpConn.                                            *)
(***************************************************************************)
EXTENDS HttpConn

Crlf == <<"cr", "lf">>
Head1 == <<"get">> \o Crlf          \* the request line
KeepIt == Head1 \o <<"keep">> \o Crlf \o Crlf

\* A request and one that follows it, bodies with and without line breaks,
\* wrong request lines, stray line ends in the head and in the body, headers
\* given twice, a negative length, and a client that fills the buffer.
MCStreams == {
    KeepIt,
    Head1 \o <<"len2">> \o Crlf \o Crlf \o <<"b", "b">>,
    Head1 \o <<"len2">> \o Crlf \o Crlf \o Crlf,
    Head1 \o <<"len4">> \o Crlf \o Crlf \o <<"b", "cr", "lf", "b">>,
    Head1 \o <<"len2">> \o Crlf \o Crlf \o <<"b", "lf">>,
    Head1 \o Crlf \o Head1 \o Crlf,
    <<"badline">> \o Crlf,
    Head1 \o <<"keep">> \o Crlf \o <<"close">> \o Crlf \o Crlf,
    Head1 \o <<"len2">> \o Crlf \o <<"len0">> \o Crlf \o Crlf,
    Head1 \o <<"minus1">> \o Crlf \o Crlf \o <<"b">>,
    Head1 \o <<"other", "cr", "b">>,
    KeepIt \o <<"b", "lf">>,
    KeepIt \o Head1 \o <<"other", "b", "b", "b", "b", "b", "b">> }

Path(exists, othersRead, content) ==
    [exists |-> exists, othersRead |-> othersRead, directory |-> FALSE,
     opens |-> TRUE, content |-> content]

MCReplies == {
    [isAlive |-> TRUE,  body |-> <<>>, path |-> None],
    [isAlive |-> TRUE,  body |-> <<>>, path |-> Path(TRUE, FALSE, <<"f1">>)],
    [isAlive |-> TRUE,  body |-> <<"t">>, path |-> Path(TRUE, TRUE, <<"f1", "f2", "f3">>)],
    [isAlive |-> FALSE, body |-> <<"t", "u">>, path |-> None] }
=============================================================================
