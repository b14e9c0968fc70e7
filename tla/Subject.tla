------------------------------ MODULE Subject ------------------------------
(***************************************************************************)
(* Subjects and filters, src/router.c: both are sequences of tokens.  A    *)
(* filter may use "*" for a token and end in ">" (mb_proto_subject_valid   *)
(* refuses any other place).  Besides the matching itself the module has   *)
(* the classification that decides in which of the router's three lists a  *)
(* subscription is kept and looked for.                                    *)
(***************************************************************************)
EXTENDS Integers, Sequences

CONSTANT Words    \* the literal tokens

Star == "*"
FullWild == ">"

ASSUME WordsAssumption == Star \notin Words /\ FullWild \notin Words

\* Mutant: a filter that is a prefix of the subject matches.
SubjectMatches_Prefix(filter, subject) ==
    LET rest[i \in 1 .. Len(filter) + 1] ==
            IF i > Len(filter) THEN TRUE
            ELSE IF filter[i] = FullWild THEN i = Len(filter)
            ELSE /\ i <= Len(subject)
                 /\ filter[i] \in {Star, subject[i]}
                 /\ rest[i + 1]
    IN  rest[1]

\* subject_matches: rest[i] is what the loop returns from the i-th token on.
SubjectMatches(filter, subject) ==
    LET rest[i \in 1 .. Len(filter) + 1] ==
            IF i > Len(filter) THEN i > Len(subject)
            ELSE IF filter[i] = FullWild THEN i = Len(filter)
            ELSE /\ i <= Len(subject)
                 /\ filter[i] \in {Star, subject[i]}
                 /\ rest[i + 1]
    IN  rest[1]

\* is_literal_filter
IsLiteralFilter(filter) == \A i \in 1 .. Len(filter) : filter[i] \notin {Star, FullWild}

\* The list a subscription to filter is appended to (mb_router_subscribe_queue).
ListOf(filter) ==
    IF IsLiteralFilter(filter) THEN <<"literal", filter>>
    ELSE IF filter[1] \in {Star, FullWild} THEN <<"global">>
    ELSE <<"wildcard", filter[1]>>

\* The lists a publish on subject looks at, in this order.
ListsFor(subject) == << <<"literal", subject>>, <<"wildcard", subject[1]>>, <<"global">> >>

\* sub_deliverable's filter test: the literal list is not checked again.
Selected(filter, subject) ==
    /\ \E i \in 1 .. 3 : ListOf(filter) = ListsFor(subject)[i]
    /\ ListOf(filter)[1] # "literal" => SubjectMatches(filter, subject)

\* mb_proto_subject_valid: what a client may publish to and subscribe to.
ValidSubjects == Seq(Words) \ {<<>>}
ValidFilters == {f \in Seq(Words \cup {Star, FullWild}) \ {<<>>} : \A i \in 1 .. Len(f) - 1 : f[i] # FullWild}

\* The reference: the tokens before ">" correspond one to one, ...
Fixed(f) == IF f[Len(f)] = FullWild THEN Len(f) - 1 ELSE Len(f)
TokensFit(f, s) == \A i \in 1 .. Fixed(f) : f[i] = Star \/ (i <= Len(s) /\ f[i] = s[i])

\* ... and ">" stands for one or more tokens, as docs/patchbay.md and docs/AGENTS_PATCHBAY.md
\* have it, ...
FitsAsDocumented(f, s) ==
    /\ IF f[Len(f)] = FullWild THEN Len(s) > Fixed(f) ELSE Len(s) = Fixed(f)
    /\ TokensFit(f, s)

\* ... or, as the code has it and no document says, for none.
FitsWithEmptyRest(f, s) == f[Len(f)] = FullWild /\ Len(s) = Fixed(f) /\ TokensFit(f, s)

Fits(f, s) == FitsAsDocumented(f, s) \/ FitsWithEmptyRest(f, s)

\* The matching and the choice of the lists both decide it.
MatchesAsItFits(f, s) == (SubjectMatches(f, s) <=> Fits(f, s)) /\ (Selected(f, s) <=> Fits(f, s))
=============================================================================
