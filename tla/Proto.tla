------------------------------- MODULE Proto -------------------------------
(***************************************************************************)
(* The NATS wire protocol, src/proto.c, and the loop of conn.c that feeds  *)
(* it with whatever a read returned.  Bytes are symbols; a keyword is one  *)
(* symbol, since no code looks inside it.  Conn has what an operation      *)
(* does, this module which operations a stream of bytes holds.             *)
(***************************************************************************)
EXTENDS Integers, Sequences, SequencesExt, FiniteSetsExt

CONSTANTS MaxControlLine,   \* MB_MAX_CONTROL_LINE
          MaxPayload,       \* MB_MAX_PAYLOAD
          RxSlack,          \* what MB_MAX_RX has beyond the two
          SizeMax,          \* SIZE_MAX
          Pieces,           \* what a client may write, in order or not
          SomeOps           \* operations that a client may write

ASSUME ProtoAssumption == {MaxControlLine, MaxPayload, RxSlack, SizeMax} \subseteq Nat
ASSUME SlackAssumption == RxSlack >= 2

MaxRx == MaxControlLine + MaxPayload + RxSlack

Blank   == {"SP", "TAB"}
Control == {"CR", "LF", "DEL"} \cup Blank
Digit   == <<"0", "1", "2", "3", "4", "5", "6", "7", "8", "9">>
ValueOf(c) == (CHOOSE d \in 1 .. 10 : Digit[d] = c) - 1

-----------------------------------------------------------------------------
(* Tokens, subjects and numbers.                                           *)

\* The tokens of the first i bytes, given those of one less: a token begins at a byte that
\* is not blank, the first one or after a blank.
NextByte(tokens, s, i) ==
    IF s[i] \in Blank THEN tokens
    ELSE IF i = 1 \/ s[i - 1] \in Blank THEN Append(tokens, <<s[i]>>)
    ELSE [tokens EXCEPT ![Len(tokens)] = Append(@, s[i])]

\* All that next_token returns, called until it returns false.
Tokens(s) ==
    LET upTo[i \in 0 .. Len(s)] == IF i = 0 THEN <<>> ELSE NextByte(upTo[i - 1], s, i)
    IN  upTo[Len(s)]

\* The runs of s between dots, the empty ones included.
Parts(s) ==
    LET add(runs, c) == IF c = "." THEN Append(runs, <<>>)
                        ELSE [runs EXCEPT ![Len(runs)] = Append(@, c)]
    IN  FoldLeft(add, << <<>> >>, s)

\* mb_proto_token_valid
TokenValid(t) == t # <<>> /\ \A i \in DOMAIN t : t[i] \notin Control

\* mb_proto_subject_valid
SubjectValid(s, allowWildcards) ==
    LET parts == Parts(s)
        wild(k) == parts[k] \in {<<"*">>, <<">">>}
    IN  /\ TokenValid(s)
        /\ \A k \in DOMAIN parts :
              /\ parts[k] # <<>>
              /\ wild(k) => allowWildcards /\ (parts[k] = <<">">> => k = Len(parts))
              /\ ~wild(k) => \A i \in DOMAIN parts[k] : parts[k][i] \notin {"*", ">"}

\* A round of parse_usize: -1 for what is no number or does not fit.
AddDigit(v, c) ==
    IF v = -1 \/ c \notin ToSet(Digit) THEN -1
    ELSE IF v > (SizeMax - ValueOf(c)) \div 10 THEN -1
    ELSE v * 10 + ValueOf(c)

\* parse_usize
ParseUsize(s) ==
    LET v[i \in 0 .. Len(s)] == IF i = 0 THEN 0 ELSE AddDigit(v[i - 1], s[i])
    IN  IF s = <<>> THEN -1 ELSE v[Len(s)]

-----------------------------------------------------------------------------
(* mb_parse_client_op.                                                     *)

Status(s) == [status |-> s]
Ok(op, consumed) == [status |-> "ok", op |-> op, consumed |-> consumed]

\* parse_sub: subject [queue] sid
ParseSub(args, lineEnd) ==
    LET n == Len(args)
    IN  IF /\ n \in {2, 3}
           /\ SubjectValid(args[1], TRUE)
           /\ \A i \in 2 .. n : TokenValid(args[i])
        THEN Ok([kind |-> "sub", subject |-> args[1], sid |-> args[n],
                 queue |-> IF n = 3 THEN args[2] ELSE <<>>], lineEnd)
        ELSE Status("invalid_args")

\* parse_unsub: sid [max_msgs]
ParseUnsub(args, lineEnd) ==
    LET max == IF Len(args) = 2 THEN ParseUsize(args[2]) ELSE 0
    IN  IF Len(args) \in {1, 2} /\ TokenValid(args[1]) /\ max # -1
        THEN Ok([kind |-> "unsub", sid |-> args[1], hasMax |-> Len(args) = 2, max |-> max], lineEnd)
        ELSE Status("invalid_args")

\* Mutant: a trailer whose second byte has not come yet is taken for a wrong one.
Trailer_Eager(tail) ==
    IF tail[1] = "LF" THEN 1
    ELSE IF tail[1] = "CR" /\ Len(tail) > 1 /\ tail[2] = "LF" THEN 2 ELSE -1

\* The trailer after a payload: its length, 0 while it is incomplete, -1 if it is none.
Trailer(tail) ==
    IF tail[1] = "LF" THEN 1
    ELSE IF tail[1] # "CR" THEN -1
    ELSE IF Len(tail) < 2 THEN 0
    ELSE IF tail[2] = "LF" THEN 2 ELSE -1

\* parse_pub: subject [reply_to] bytes, and the payload after the line.
ParsePub(buf, args, lineEnd) ==
    LET n == Len(args)
        payloadLen == ParseUsize(args[n])
        available == Len(buf) - lineEnd
        tail == SubSeq(buf, lineEnd + payloadLen + 1, Len(buf))
    IN  IF ~(/\ n \in {2, 3}
             /\ payloadLen # -1
             /\ \A i \in 1 .. n - 1 : SubjectValid(args[i], FALSE))
        THEN Status("invalid_args")
        ELSE IF payloadLen > MaxPayload THEN Status("payload_too_large")
        ELSE IF available <= payloadLen \/ Trailer(tail) = 0 THEN Status("need_more")
        ELSE IF Trailer(tail) = -1 THEN Status("malformed")
        ELSE Ok([kind |-> "pub", subject |-> args[1], replyTo |-> IF n = 3 THEN args[2] ELSE <<>>,
                 payload |-> SubSeq(buf, lineEnd + 1, lineEnd + payloadLen)],
                lineEnd + payloadLen + Trailer(tail))

\* What precedes the first "\n" (the whole buffer if there is none).
LineLen(buf) == IF "LF" \in ToSet(buf) THEN SelectInSeq(buf, LAMBDA c : c = "LF") - 1 ELSE Len(buf)

\* The operations by their verbs.
ParseVerb(buf, verb, args, lineEnd) ==
    CASE verb = <<"PING">> -> IF args = <<>> THEN Ok([kind |-> "ping"], lineEnd)
                              ELSE Status("invalid_args")
      [] verb = <<"CONNECT">> -> Ok([kind |-> "connect", json |-> args], lineEnd)
      [] verb = <<"SUB">> -> ParseSub(args, lineEnd)
      [] verb = <<"UNSUB">> -> ParseUnsub(args, lineEnd)
      [] verb = <<"PUB">> -> IF args = <<>> THEN Status("invalid_args")
                             ELSE ParsePub(buf, args, lineEnd)
      [] OTHER -> Status("unknown")

\* What the line holds without its "\r".
LineTokens(buf, nl) == Tokens(SubSeq(buf, 1, IF nl > 0 /\ buf[nl] = "CR" THEN nl - 1 ELSE nl))

\* mb_parse_client_op
ParseClientOp(buf) ==
    LET nl     == LineLen(buf)
        tokens == LineTokens(buf, nl)
    IN  IF nl > MaxControlLine THEN Status("control_line_too_long")
        ELSE IF nl = Len(buf) THEN Status("need_more")
        ELSE IF tokens = <<>> THEN Status("malformed")
        ELSE ParseVerb(buf, Head(tokens), Tail(tokens), nl + 1)

-----------------------------------------------------------------------------
(* process_rx.                                                             *)

Violations == {"control_line_too_long", "malformed", "payload_too_large"}

\* A turn of process_rx at the cursor c, from which the turns after it lead on as from says.
RxTurn(rx, c, from) ==
    LET rest == SubSeq(rx, c + 1, Len(rx))
        r    == ParseClientOp(rest)
        on(event, n) == [from[c + n] EXCEPT !.ops = <<event>> \o @]
    IN  IF rest = <<>> THEN [ops |-> <<>>, rx |-> <<>>, closed |-> FALSE]
        ELSE CASE r.status = "need_more" -> [ops |-> <<>>, rx |-> rest, closed |-> Len(rest) > MaxRx]
               [] r.status \in Violations -> [ops |-> <<Status(r.status)>>, rx |-> <<>>, closed |-> TRUE]
               [] r.status = "ok" -> on(r.op, r.consumed)
               [] OTHER -> on(Status(r.status), LineLen(rest) + 1)

\* process_rx: the operations and refusals in order, what stays in rx, whether the
\* connection is closed.
RxLoop(rx) ==
    LET from[c \in 0 .. Len(rx)] == RxTurn(rx, c, from) IN from[0]

NewStream == [ops |-> <<>>, rx |-> <<>>, closed |-> FALSE]

\* A read: append to rx, process.
Feed(st, bytes) ==
    IF st.closed THEN st
    ELSE LET r == RxLoop(st.rx \o bytes) IN [r EXCEPT !.ops = st.ops \o @]

-----------------------------------------------------------------------------
(* What the server writes for a message.                                   *)

\* append_decimal: the digits are found from the last to the first.
Decimal(n) ==
    LET digits[k \in 0 .. n] ==
            IF k < 10 THEN <<Digit[k + 1]>> ELSE Append(digits[k \div 10], Digit[(k % 10) + 1])
    IN  digits[n]

\* Mutant: a number that is a power of ten is taken to be shorter.
DecimalLen_Short(n) ==
    LET len[k \in 0 .. n] == IF k <= 10 THEN 1 ELSE 1 + len[k \div 10] IN len[n]

\* decimal_len
DecimalLen(n) ==
    LET len[k \in 0 .. n] == IF k < 10 THEN 1 ELSE 1 + len[k \div 10] IN len[n]

\* mb_msg_frame_len_prefixed_with_reply
MsgFrameLen(prefix, subject, sid, replyTo, payload) ==
    4 + Len(prefix) + Len(subject) + 1 + Len(sid) + 1
      + (IF replyTo = <<>> THEN 0 ELSE Len(replyTo) + 1)
      + DecimalLen(Len(payload)) + 2 + Len(payload) + 2

\* mb_write_msg_prefixed_with_reply, once the frame's length has been reserved.
MsgFrame(prefix, subject, sid, replyTo, payload) ==
    <<"M", "S", "G", "SP">> \o prefix \o subject \o <<"SP">> \o sid \o <<"SP">>
      \o (IF replyTo = <<>> THEN <<>> ELSE Append(replyTo, "SP"))
      \o Decimal(Len(payload)) \o <<"CR", "LF">> \o payload \o <<"CR", "LF">>

-----------------------------------------------------------------------------
(* What a client writes: the operations in order, and their bytes.         *)

ClientOp ==
    [kind : {"ping"}] \cup [kind : {"connect"}, json : Seq(Seq(STRING))]
    \cup [kind : {"sub"}, subject : Seq(STRING), sid : Seq(STRING), queue : Seq(STRING)]
    \cup [kind : {"unsub"}, sid : Seq(STRING), hasMax : BOOLEAN, max : Nat]
    \cup [kind : {"pub"}, subject : Seq(STRING), replyTo : Seq(STRING), payload : Seq(STRING)]

Verb == [ping |-> <<"PING">>, connect |-> <<"CONNECT">>, sub |-> <<"SUB">>,
         unsub |-> <<"UNSUB">>, pub |-> <<"PUB">>]

\* The arguments of an operation; an empty one is not written.
Args(op) ==
    CASE op.kind = "ping" -> <<>>
      [] op.kind = "connect" -> op.json
      [] op.kind = "sub" -> IF op.queue = <<>> THEN <<op.subject, op.sid>>
                            ELSE <<op.subject, op.queue, op.sid>>
      [] op.kind = "unsub" -> IF op.hasMax THEN <<op.sid, Decimal(op.max)>> ELSE <<op.sid>>
      [] op.kind = "pub" -> IF op.replyTo = <<>> THEN <<op.subject, Decimal(Len(op.payload))>>
                            ELSE <<op.subject, op.replyTo, Decimal(Len(op.payload))>>

\* An operation as the protocol allows it: what is left out of an UNSUB is 0.
WellFormed(op) ==
    /\ op \in ClientOp
    /\ \A i \in 1 .. Len(Args(op)) : TokenValid(Args(op)[i])
    /\ op.kind = "sub" => SubjectValid(op.subject, TRUE)
    /\ op.kind = "unsub" => op.max <= SizeMax /\ (~op.hasMax => op.max = 0)
    /\ op.kind = "pub" => /\ SubjectValid(op.subject, FALSE)
                          /\ op.replyTo # <<>> => SubjectValid(op.replyTo, FALSE)
                          /\ Len(op.payload) <= MaxPayload /\ Len(op.payload) <= SizeMax

\* The words of a line with a blank between each two.
Line(verb, args, gap) ==
    LET upTo[n \in 0 .. Len(args)] == IF n = 0 THEN verb ELSE Append(upTo[n - 1], gap) \o args[n]
    IN  upTo[Len(args)]

Eols == {<<"LF">>, <<"CR", "LF">>}

\* The bytes of an operation, with a blank and a line end of the client's choice.
Wire(op, gap, eol) ==
    Line(Verb[op.kind], Args(op), gap) \o eol \o (IF op.kind = "pub" THEN op.payload \o eol ELSE <<>>)

\* Its line is not too long.
LineFits(op, gap, eol) == Len(Line(Verb[op.kind], Args(op), gap) \o eol) <= MaxControlLine + 1

ASSUME PiecesAssumption == Pieces \subseteq Seq(STRING)
ASSUME OpsAssumption ==
    \A op \in SomeOps : WellFormed(op) /\ \A gap \in Blank, eol \in Eols : LineFits(op, gap, eol)
=============================================================================
