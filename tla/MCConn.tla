------------------------------- MODULE MCConn -------------------------------
(***************************************************************************)
(* Conn for TLC, and the parser in front of it: Proto is compared with     *)
(* itself under another cut of its input, and with the wire format.        *)
(***************************************************************************)
EXTENDS Conn

\* Operations a client may send.  A payload may look like anything.
MCOps ==
    {[kind |-> "ping"], [kind |-> "connect", json |-> <<<<"{">>, <<"}">>>>]}
    \cup [kind : {"sub"}, subject : {<<"a", ".", "*">>}, sid : {<<"1">>}, queue : {<<>>, <<"q">>}]
    \cup [kind : {"unsub"}, sid : {<<"1">>}, hasMax : {TRUE}, max : {0, 12}]
    \cup [kind : {"unsub"}, sid : {<<"1">>}, hasMax : {FALSE}, max : {0}]
    \cup [kind : {"pub"}, subject : {<<"a">>, <<"a", ".", "b">>}, replyTo : {<<>>, <<"r">>},
          payload : {<<>>, <<"CR", "LF">>, <<"PING", "LF">>, <<"x">>}]

\* Pieces that are no operation: an empty and an overlong line, wrong arguments, numbers
\* that are too large or no number, a payload whose trailer is wrong, a cut operation.
Junk == {<<"LF">>, <<"CR", "LF">>, <<"x", "LF">>, <<"PING", "SP", "x", "LF">>,
         <<"SUB", "SP", "a", ".", ".", "LF">>, <<"SUB", "SP", ">", ".", "a", "SP", "1", "LF">>,
         <<"SUB", "SP", "a", "CR", "SP", "1", "LF">>, <<"UNSUB", "SP", "1", "SP", "x", "LF">>,
         <<"UNSUB", "SP", "1", "SP", "9", "9", "9", "LF">>, <<"PUB", "LF">>,
         <<"PUB", "SP", "*", "SP", "1", "CR", "LF", "x", "LF">>, <<"PUB", "SP", "a", "SP", "3", "LF">>,
         <<"PUB", "SP", "a", "SP", "1", "LF", "x", "CR", "x">>, <<"PUB", "SP", "a", "SP", "1", "LF", "x", "x">>,
         <<"PUB", "SP", "a", "SP", "2", "CR", "LF", "LF">>, <<"PUB", "SP", "a", "SP", "0", "LF", "CR">>,
         [i \in 1 .. MaxControlLine |-> "x"], [i \in 1 .. MaxControlLine + 1 |-> "x"],
         [i \in 1 .. MaxControlLine + 1 |-> IF i <= MaxControlLine THEN "x" ELSE "LF"],
         [i \in 1 .. MaxControlLine + 1 |-> IF i <= MaxControlLine THEN "x" ELSE "CR"]}

\* A PUB as long as rx must be able to hold, but for its last byte.
Longest == <<"PUB", "SP", "a">> \o [i \in 1 .. MaxControlLine - 4 |-> "SP"]
             \o Decimal(MaxPayload) \o <<"LF">> \o [i \in 1 .. MaxPayload |-> "x"] \o <<"CR">>

MCPieces == {Longest} \cup Junk \cup {Wire(op, "SP", eol) : op \in MCOps, eol \in Eols}
=============================================================================
