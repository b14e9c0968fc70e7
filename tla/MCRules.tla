------------------------------ MODULE MCRules ------------------------------
(***************************************************************************)
(* Rules for TLC: small programs that use every modelled form.             *)
(***************************************************************************)
EXTENDS Rules

F(op, args) == [op |-> op, args |-> args]
Lit(text) == [op |-> "value", val |-> Str(Own(text))]
Number(n) == [op |-> "value", val |-> Num(n)]
Ms(op, ms, args) == [op |-> op, ms |-> ms, args |-> args]
Payload == F("payload", <<>>)
Subject == F("subject", <<>>)
Float == F("payload-float", <<>>)
PlusOne == F("+", <<Number(1), Float>>)
Below(token) == [op |-> "subject-append", args |-> <<>>, token |-> token]
To(subject, value) == F("publish!", <<subject, value>>)
Rule(filter, reentrant, body) == [filter |-> filter, reentrant |-> reentrant, body |-> body]

\* The example of docs/patchbay.md: a reentrant demultiplexer and what runs on its parts.
Demux == <<
    Rule(<<">">>, FALSE, F("count!", <<>>)),
    Rule(<<"a", "*">>, TRUE, [op |-> "json-demux!", args |-> <<Payload>>, tokens |-> <<"x", "y">>]),
    Rule(<<"*", "x", "x">>, FALSE, F("->", <<Float, F("+", <<Number(1)>>), F("squelch", <<>>), F("publish!", <<Below("b")>>)>>)),
    Rule(<<"a", "x", ">">>, FALSE, F("->", <<Payload, F("squelch", <<>>), F("publish!", <<Lit(<<"b">>)>>)>>))>>

\* A reentrant rule that matches its own emissions, a rule that fails before and after it
\* published, and one whose target the router refuses.
Loop == <<
    Rule(<<"a", ">">>, TRUE, F("do", <<To(Below("x"), Payload),
                                      F("when", <<F("changed?", <<Payload>>), To(Lit(<<"b">>), PlusOne)>>)>>)),
    Rule(<<">">>, FALSE, F("do", <<To(Lit(<<"y">>), Payload), To(Lit(<<"y">>), PlusOne)>>)),
    Rule(<<"b">>, TRUE, F("do", <<F("transition", <<F("or", <<F("squelch", <<Payload>>)>>),
                                                     To(Lit(<<"y">>), Lit(<<"x">>)), To(Lit(<<"y">>), Lit(<<>>))>>),
                                  To(Lit(<<"full">>), Payload), To(Lit(<<"y">>), Payload)>>)),
    Rule(<<"b">>, FALSE, F("count!", <<>>))>>

\* Every form with a deadline, whose emissions go to other subjects than the rule's own.
Clocked == <<
    Rule(<<"a", "*">>, TRUE, F("do", <<Ms("debounce!", 1, <<Lit(<<"b">>), PlusOne>>),
                                      Ms("on-silence", 2, <<To(Lit(<<"b">>), Payload), To(Below("y"), Subject)>>)>>)),
    Rule(<<"b">>, FALSE, Ms("dropout", 1, <<To(Lit(<<"y">>), Lit(<<"0">>)), To(Lit(<<"y">>), Lit(<<"1">>))>>)),
    Rule(<<"b">>, TRUE, F("and", <<F("if", <<F("changed?", <<Payload>>), Payload>>),
                                   Ms("sample!", 1, <<Lit(<<"y">>), Payload>>)>>)),
    Rule(<<"*">>, FALSE, F("count!", <<>>))>>

\* Rules that publish, from a tick, on the subject their slot belongs to: the reentrant
\* evaluation arms the slot again while its bytes are being read.
Silence == <<
    Rule(<<"a", "x">>, TRUE, Ms("on-silence", 1, <<To(Subject, Lit(<<"0", "0">>)), To(Lit(<<"b">>), Payload)>>))>>
Heartbeat == <<
    Rule(<<"a", "x">>, TRUE, Ms("debounce!", 1, <<Subject, PlusOne>>)),
    Rule(<<"a", "x">>, FALSE, To(Lit(<<"b">>), Payload))>>

\* An on-silence at the end of a pipeline, whose body is in the scratch arena.
Threaded == <<
    Rule(<<"a", "x">>, FALSE, F("->", <<Payload, F("squelch", <<>>), Ms("on-silence", 2, <<To(Lit(<<"b">>), Payload)>>)>>))>>

SomePrograms == {Demux, Loop, Clocked}
StalePrograms == {Silence, Heartbeat, Threaded}
SomeMessages == {[subject |-> <<"a", "x">>, payload |-> <<"1">>], [subject |-> <<"a", "x">>, payload |-> <<"9", "9">>],
                 [subject |-> <<"b">>, payload |-> <<"x">>], [subject |-> <<"a", "y">>, payload |-> <<"2">>]}
SomeExports == {<<"y">>, <<"a", "x", ">">>}
Full == {<<"full">>}
=============================================================================
