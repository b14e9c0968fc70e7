------------------------------- MODULE Rules -------------------------------
(***************************************************************************)
(* How patchbay rules are run for a message or a clock tick:               *)
(* src/patchbay/pb_program.c, the evaluator of pb_eval.c, the forms that   *)
(* publish or keep state, and the forwarding of src/bridge.c.              *)
(*                                                                         *)
(* The server runs the rules inside one handler, so a handler is one       *)
(* action; the recursion of the code is the recursion of the operators     *)
(* below, which pass on the record st of everything a handler changes.     *)
(* What is kept exactly is memory: a subject or payload is a slice, and    *)
(* what a slice denotes depends on when it is read.                        *)
(*                                                                         *)
(* Texts are sequences: payloads of digits and letters, subjects of        *)
(* tokens.  Numbers are naturals.  A form is a record of its operator and  *)
(* its arguments; the forms that only compute on values (arithmetic, text, *)
(* comparisons, windows) are represented by "+".                           *)
(***************************************************************************)
EXTENDS Subject, OpenIndex

CONSTANTS Programs,     \* the rule sets a file may load
          Messages,     \* what clients publish
          Exports,      \* the bridge's export filters
          NoRoom,       \* subjects whose publish the router refuses: the cache is at its limit
          MaxReentry,   \* PB_PROGRAM_MAX_REENTRY_DEPTH, 8
          IndexFrom,    \* slots of a rule from which on they are indexed, 8
          MaxHandled,   \* bound: handlers run
          MaxNow        \* bound: time

ASSUME RulesAssumption == {MaxReentry, IndexFrom, MaxHandled, MaxNow} \subseteq Nat

VARIABLES program,   \* program->rules
          refs,      \* program->rule_buckets and rule_global
          state,     \* rules[i].state
          arena,     \* how often program->scratch was reset
          now,       \* mb_server_patchbay_now_ms
          handled,   \* handlers run
          did        \* what the last handler did: the evaluations it made and what they sent

rulesVars == <<program, refs, state, arena, now, handled, did>>

-----------------------------------------------------------------------------
(* Memory.  A slice is where it points and the text it had when it was     *)
(* taken; a buffer of a slot is its bytes up to the capacity, how many are *)
(* in use, and how often realloc may have moved it.                        *)

Garbage == <<"?">>
NoBuffer == [bytes |-> <<>>, len |-> 0, moved |-> 0]

Own(text) == [at |-> "own", text |-> text]     \* the message, or a constant of the program
InArena(st, text) == [at |-> "arena", gen |-> st.arena, text |-> text]
InSlot(st, r, i, field) ==
    LET b == st.state[r].items[i][field]
    IN  [at |-> "slot", rule |-> r, slot |-> i, field |-> field, gen |-> b.moved,
         text |-> SubSeq(b.bytes, 1, b.len)]

\* The bytes behind a slice now.
Read(st, slice) ==
    CASE slice.at = "own" -> slice.text
      [] slice.at = "arena" -> IF slice.gen = st.arena THEN slice.text ELSE Garbage
      [] slice.at = "slot" -> LET b == st.state[slice.rule].items[slice.slot][slice.field]
                              IN  IF b.moved = slice.gen THEN SubSeq(b.bytes, 1, Len(slice.text))
                                  ELSE Garbage

\* state_set_bytes, state_set_emit_subject
SetBuffer(b, text) ==
    IF Len(b.bytes) < Len(text) THEN [bytes |-> text, len |-> Len(text), moved |-> b.moved + 1]
    ELSE [b EXCEPT !.bytes = text \o SubSeq(@, Len(text) + 1, Len(@)), !.len = Len(text)]

-----------------------------------------------------------------------------
(* Values.                                                                 *)

Nil == [kind |-> "nil"]
Bool(b) == [kind |-> "bool", is |-> b]
Str(slice) == [kind |-> "string", slice |-> slice]
Num(n) == [kind |-> "number", n |-> n]

Truthy(v) == v.kind # "nil" /\ (v.kind = "bool" => v.is)

Digits == <<"0", "1", "2", "3", "4", "5", "6", "7", "8", "9">>

\* as_number on a text: its value (0 of the empty one, as strtod has it), -1 if it is no number.
TextNumber(text) ==
    LET add(n, c) == n * 10 + (CHOOSE d \in 1 .. 10 : Digits[d] = c) - 1
    IN  IF ToSet(text) \subseteq ToSet(Digits) THEN FoldLeft(add, 0, text) ELSE -1

AsNumber(st, v) ==
    CASE v.kind = "number" -> v.n
      [] v.kind = "string" -> TextNumber(Read(st, v.slice))
      [] OTHER -> -1

NumberText(n) ==
    LET text[k \in 0 .. n] == (IF k < 10 THEN <<>> ELSE text[k \div 10]) \o <<Digits[(k % 10) + 1]>>
    IN  text[n]

\* coerce_payload: a number is written to the scratch arena.
Coerce(st, v) ==
    CASE v.kind = "string" -> v.slice
      [] v.kind = "bool" -> Own(IF v.is THEN <<"true">> ELSE <<"false">>)
      [] v.kind = "nil" -> Own(<<>>)
      [] v.kind = "number" -> InArena(st, NumberText(v.n))

Give(st, v) == [st |-> st, val |-> v, failed |-> FALSE]
Fail(st) == [st |-> st, val |-> Nil, failed |-> TRUE]

-----------------------------------------------------------------------------
(* State slots.                                                            *)

NewSlot(op, subject) ==
    [op |-> op, subject |-> subject, kind |-> "empty", number |-> 0, armed |-> FALSE,
     deadline |-> 0, interval |-> 0, lost |-> FALSE, forms |-> <<>>, formsIn |-> 0,
     bytes |-> NoBuffer, emit |-> NoBuffer]

\* state_key_hash: few values, so that keys collide.
StateHash(op, subject) == Len(subject) + (IF op \in {"debounce", "count"} THEN 1 ELSE 0)

\* Mutant: the slots of a smaller index are not entered into the larger one.
StateIndexRebuild_NoRehash(s, needed) ==
    LET hashes == IF s.index # <<>> THEN <<>>
                  ELSE [i \in DOMAIN s.items |-> StateHash(s.items[i].op, s.items[i].subject)]
    IN  IF s.index # <<>> /\ needed < Cap(s.index) \div 2 THEN s
        ELSE [s EXCEPT !.index = NewIndex(hashes, NextIndexCap(4 * needed))]

\* state_index_rebuild
StateIndexRebuild(s, needed) ==
    IF s.index # <<>> /\ needed < Cap(s.index) \div 2 THEN s
    ELSE [s EXCEPT !.index = NewIndex([i \in DOMAIN s.items |-> StateHash(s.items[i].op, s.items[i].subject)],
                                      NextIndexCap(4 * needed))]

\* The place of the slot for op and the subject, 0 if there is none: the loop of state_slot
\* or, with an index, state_index_find.
StateFind(s, op, subject) ==
    LET same == {i \in DOMAIN s.items : s.items[i].op = op /\ s.items[i].subject = subject}
    IN  IF s.index # <<>> THEN IndexFind(s.index, StateHash(op, subject), same) ELSE Max({0} \cup same)

StateAdd(s, op, subject) ==
    [items |-> Append(s.items, NewSlot(op, subject)),
     index |-> IF s.index = <<>> THEN <<>> ELSE IndexInsert(s.index, StateHash(op, subject), Len(s.items) + 1)]

\* state_slot in its three parts: the index of a list that has become long, the search, and
\* the new slot with an index that has room for it.
StateIndexed(s) == IF s.index = <<>> /\ Len(s.items) >= IndexFrom THEN StateIndexRebuild(s, Len(s.items)) ELSE s

StateEnter(s, op, subject) ==
    IF StateFind(s, op, subject) > 0 THEN s
    ELSE StateAdd(IF s.index # <<>> \/ Len(s.items) >= IndexFrom THEN StateIndexRebuild(s, Len(s.items) + 1) ELSE s,
                  op, subject)

StateSlot(s, op, subject) == StateEnter(StateIndexed(s), op, subject)

\* The state after state_slot for the rule's own subject, and the slot's place.
WithSlot(st, ctx, op) == [st EXCEPT !.state[ctx.rule] = StateSlot(@, op, Read(st, ctx.subject))]
Place(st, ctx, op) == StateFind(st.state[ctx.rule], op, Read(st, ctx.subject))

\* Assign the fields of the record new to slot i.
SetSlot(st, ctx, i, new) ==
    [st EXCEPT !.state[ctx.rule].items[i] =
        [f \in DOMAIN @ |-> IF f \in DOMAIN new THEN new[f] ELSE @[f]]]

-----------------------------------------------------------------------------
(* Running a message through the rules, and publishing from a rule: the    *)
(* two call each other.                                                    *)

RECURSIVE Eval(_, _, _), EvalList(_, _, _, _), EvalPublishSlices(_, _, _, _)

\* build_rule_index: the rules of each first token, and those that start with a wildcard.
BuildRuleIndex(rules) ==
    LET places == [i \in DOMAIN rules |-> i]
        first(i) == rules[i].filter[1]
        wild(i) == first(i) \in {Star, FullWild}
    IN  [global |-> SelectSeq(places, wild),
         bucket |-> [t \in {first(i) : i \in DOMAIN rules} |-> SelectSeq(places, LAMBDA i : ~wild(i) /\ first(i) = t)]]

\* rule_refs_for_subject
RuleRefsForSubject(subject) == IF subject[1] \in DOMAIN refs.bucket THEN refs.bucket[subject[1]] ELSE <<>>

\* Mutant: the rules of the bucket run before the global ones.
MergeRefs_BucketFirst(b, g) == b \o g

\* The order in which eval_publish_slices takes rules from the two lists.
MergeRefs(b, g) ==
    LET step(m, k) == IF m.b # <<>> /\ (m.g = <<>> \/ Head(m.b) < Head(m.g))
                      THEN [b |-> Tail(m.b), g |-> m.g, out |-> Append(m.out, Head(m.b))]
                      ELSE [b |-> m.b, g |-> Tail(m.g), out |-> Append(m.out, Head(m.g))]
    IN  FoldLeftDomain(step, [b |-> b, g |-> g, out |-> <<>>], b \o g).out

Context(r, subject, payload, depth, call) ==
    [rule |-> r, subject |-> subject, payload |-> payload, depth |-> depth, call |-> call]

\* The record of an evaluation that starts, and of what its next step saw.
Began(st, kind, subject, payload, depth) ==
    [st EXCEPT !.calls = Append(@, [kind |-> kind, subject |-> Read(st, subject),
                                    payload |-> Read(st, payload), depth |-> depth, ran |-> <<>>])]
Ran(st, call, what, subject, payload) ==
    [st EXCEPT !.calls[call].ran = Append(@, [what |-> what, subject |-> Read(st, subject),
                                              payload |-> Read(st, payload)])]

\* What is left of the result of a rule.
Noted(res) == [res.st EXCEPT !.ok = @ /\ ~res.failed]

\* eval_rule_for_publish; an error ends the rule and is remembered.
EvalRuleForPublish(st, r, subject, payload, depth, call) ==
    IF ~SubjectMatches(program[r].filter, Read(st, subject)) THEN st
    ELSE Noted(Eval(Ran(st, call, r, subject, payload), Context(r, subject, payload, depth, call), program[r].body))

\* Mutant: the scratch arena is reset after every evaluation.
EvalPublishSlices_Resets(st, subject, payload, depth) ==
    LET text == Read(st, subject)
        call == Len(st.calls) + 1
        each(s, r) == EvalRuleForPublish(s, r, subject, payload, depth, call)
        end == FoldLeft(each, Began(st, "message", subject, payload, depth), MergeRefs(RuleRefsForSubject(text), refs.global))
    IN  [end EXCEPT !.arena = @ + 1]

\* eval_publish_slices
EvalPublishSlices(st, subject, payload, depth) ==
    LET text == Read(st, subject)
        call == Len(st.calls) + 1
        each(s, r) == EvalRuleForPublish(s, r, subject, payload, depth, call)
    IN  FoldLeft(each, Began(st, "message", subject, payload, depth),
                 MergeRefs(RuleRefsForSubject(text), refs.global))

\* mb_router_publish_with_options, as far as rules see it, and publish_cb's own tests.
RouterTakes(subject) == subject[1] \notin {"$LVC", "$STATS"} /\ subject \notin NoRoom

\* mb_bridge_publish_with_options, called by the router after it delivered.
Forwarded(st, subject) ==
    IF ~\E f \in Exports : SubjectMatches(f, subject) THEN "no"
    ELSE IF st.bridgeUp THEN "published" ELSE "dropped"

\* Mutant: the cap is reached one level later than it is tested.
Reenters_PastCap(r, depth) == program[r].reentrant /\ depth <= MaxReentry

\* publish_cb, from `if (!p->reentrant)' on
Reenters(r, depth) == program[r].reentrant /\ depth < MaxReentry

\* publish_cb: what happens in the evaluation of the emission does not concern the caller.
PublishCb(st, ctx, subject, payload) ==
    LET to == Read(st, subject)
        taken == RouterTakes(to)
        again == taken /\ Reenters(ctx.rule, ctx.depth)
        sent == [rule |-> ctx.rule, call |-> ctx.call, depth |-> ctx.depth, subject |-> to,
                 payload |-> Read(st, payload), taken |-> taken,
                 again |-> IF again THEN Len(st.calls) + 1 ELSE 0,
                 forwarded |-> IF taken THEN Forwarded(st, to) ELSE "no"]
        out == [st EXCEPT !.sent = Append(@, sent)]
    IN  IF ~taken THEN Fail(out)
        ELSE IF again
             THEN Give([EvalPublishSlices(out, subject, payload, ctx.depth + 1) EXCEPT !.ok = st.ok], Nil)
             ELSE Give(out, Nil)

-----------------------------------------------------------------------------
(* Forms.                                                                  *)

\* eval_do, eval_clock_body
EvalDo(st, ctx, forms) ==
    FoldLeft(LAMBDA r, f : IF r.failed THEN r ELSE Eval(r.st, ctx, f), Give(st, Nil), forms)

EvalIf(st, ctx, args) ==
    LET cond == Eval(st, ctx, args[1])
    IN  IF cond.failed THEN cond
        ELSE IF Truthy(cond.val) THEN Eval(cond.st, ctx, args[2])
        ELSE IF Len(args) = 3 THEN Eval(cond.st, ctx, args[3]) ELSE Give(cond.st, Nil)

EvalWhen(st, ctx, args) ==
    LET cond == Eval(st, ctx, args[1])
    IN  IF cond.failed THEN cond
        ELSE IF Truthy(cond.val) THEN EvalDo(cond.st, ctx, Tail(args)) ELSE Give(cond.st, Nil)

EvalAnd(st, ctx, args) ==
    FoldLeft(LAMBDA r, f : IF r.failed \/ ~Truthy(r.val) THEN r ELSE Eval(r.st, ctx, f),
             Give(st, Bool(TRUE)), args)

EvalOr(st, ctx, args) ==
    LET r == FoldLeft(LAMBDA p, f : IF p.failed \/ Truthy(p.val) THEN p ELSE Eval(p.st, ctx, f),
                      Give(st, Nil), args)
    IN  IF r.failed \/ Truthy(r.val) THEN r ELSE Give(r.st, Nil)

\* eval_args: the values of the arguments, in order.
EvalArgs(st, ctx, args) ==
    LET step(r, f) == IF r.failed THEN r
                      ELSE LET v == Eval(r.st, ctx, f)
                           IN  [st |-> v.st, failed |-> v.failed, vals |-> Append(r.vals, v.val)]
    IN  FoldLeft(step, [st |-> st, failed |-> FALSE, vals |-> <<>>], args)

\* eval_transition: the slot is updated before a branch is run.
Transit(st, ctx, args, cur, i) ==
    LET old == st.state[ctx.rule].items[i]
        new == SetSlot(st, ctx, i, [kind |-> "number", number |-> IF cur THEN 1 ELSE 0])
        branch == IF cur THEN 2 ELSE 3
    IN  IF old.kind # "empty" /\ (old.number = 0 <=> cur) THEN Eval(new, ctx, args[branch]) ELSE Give(new, Nil)

EvalTransition(st, ctx, args) ==
    LET cond == Eval(st, ctx, args[1])
        ready == WithSlot(cond.st, ctx, "transition")
    IN  IF cond.failed THEN cond
        ELSE Transit(ready, ctx, args, Truthy(cond.val), Place(ready, ctx, "transition"))

\* pb_eval_call_on_silence: the body is where the arguments of the call are, in the program
\* (0) or in the scratch arena.
EvalOnSilence(st, ctx, f, in, i) ==
    LET old == st.state[ctx.rule].items[i]
        body == IF old.kind = "empty" THEN [forms |-> f.args, formsIn |-> in]
                ELSE [forms |-> old.forms, formsIn |-> old.formsIn]
    IN  Give(SetSlot(st, ctx, i,
                     body @@ [kind |-> "clock", armed |-> TRUE, interval |-> f.ms, deadline |-> now + f.ms,
                              bytes |-> SetBuffer(old.bytes, Read(st, ctx.payload))]), Nil)

\* pb_eval_call_dropout: args are the lost and the found form, copied.
EvalDropout(st, ctx, f, i) ==
    LET old == st.state[ctx.rule].items[i]
        forms == IF old.kind = "empty" THEN f.args ELSE old.forms
        new == SetSlot(st, ctx, i, [kind |-> "clock", forms |-> forms, armed |-> TRUE,
                                    deadline |-> now + f.ms, lost |-> FALSE])
    IN  IF old.lost THEN Eval(new, ctx, forms[2]) ELSE Give(new, Nil)

\* call_debounce and call_sample with retain_publish
Retain(st, ctx, f, vals, reset, i) ==
    LET old == st.state[ctx.rule].items[i]
    IN  Give(SetSlot(st, ctx, i,
                     [kind |-> "clock", interval |-> f.ms, armed |-> TRUE,
                      deadline |-> IF reset \/ old.deadline = 0 THEN now + f.ms ELSE old.deadline,
                      emit |-> SetBuffer(old.emit, Read(st, Coerce(st, vals[1]))),
                      bytes |-> SetBuffer(old.bytes, Read(st, Coerce(st, vals[2])))]), Nil)

\* stateful_changed: nil or false if the value is what the slot holds.
Changed(st, ctx, op, v, i) ==
    LET old == st.state[ctx.rule].items[i]
        text == Read(st, Coerce(st, v))
        changed == IF v.kind = "number" THEN old.kind # "number" \/ old.number # v.n
                   ELSE old.kind # "bytes" \/ SubSeq(old.bytes.bytes, 1, old.bytes.len) # text
        held == IF v.kind = "number" THEN [kind |-> "number", number |-> v.n]
                ELSE [kind |-> "bytes", bytes |-> SetBuffer(old.bytes, text)]
    IN  Give(IF changed THEN SetSlot(st, ctx, i, held) ELSE st,
             IF op = "changed?" THEN Bool(changed) ELSE IF changed THEN v ELSE Nil)

\* call_count: the total is kept before it is published.
CountAt(st, ctx, total, i) ==
    PublishCb(SetSlot(st, ctx, i, [kind |-> "number", number |-> total]), ctx,
              InArena(st, Append(Read(st, ctx.subject), "count")), InArena(st, NumberText(total)))
Count(st, ctx, i) == CountAt(st, ctx, st.state[ctx.rule].items[i].number + 1, i)

\* call_json_demux: the i-th character of a payload is the value of the i-th path, if any; the
\* document is read once, the subject for every path.
JsonDemux(st, ctx, tokens, doc) ==
    LET one(r, i) == IF r.failed \/ i > Len(doc) THEN r
                     ELSE PublishCb(r.st, ctx, InArena(r.st, Append(Read(r.st, ctx.subject), tokens[i])),
                                    InArena(r.st, <<doc[i]>>))
    IN  FoldLeftDomain(one, Give(st, Nil), tokens)

\* call_publish, for a subject a rule file can name
PublishForm(st, ctx, vals) ==
    IF vals[2].kind = "nil" THEN Give(st, Nil)
    ELSE IF vals[1].kind = "number" THEN Fail(st)
    ELSE PublishCb(st, ctx, Coerce(st, vals[1]), Coerce(st, vals[2]))

\* The forms with a slot and the name they keep it under.
SlotName == "debounce!" :> "debounce" @@ "sample!" :> "sample" @@ "count!" :> "count"
              @@ [op \in {"squelch", "changed?", "on-silence", "dropout"} |-> op]

\* Such a form, with its slot at i.
CallWithSlot(st, ctx, f, vals, in, i) ==
    CASE f.op = "debounce!" -> Retain(st, ctx, f, vals, TRUE, i)
      [] f.op = "sample!" -> Retain(st, ctx, f, vals, FALSE, i)
      [] f.op \in {"squelch", "changed?"} -> Changed(st, ctx, f.op, vals[1], i)
      [] f.op = "count!" -> Count(st, ctx, i)
      [] f.op = "on-silence" -> EvalOnSilence(st, ctx, f, in, i)
      [] f.op = "dropout" -> EvalDropout(st, ctx, f, i)
FindSlot(st, ctx, f, vals, in) == CallWithSlot(st, ctx, f, vals, in, Place(st, ctx, SlotName[f.op]))
SlotForm(st, ctx, f, vals, in) == FindSlot(WithSlot(st, ctx, SlotName[f.op]), ctx, f, vals, in)

\* pb_eval_call_form on evaluated arguments; retain_publish wants a text as subject before it
\* looks for its slot.
CallForm(st, ctx, f, vals) ==
    CASE f.op = "publish!" -> PublishForm(st, ctx, vals)
      [] f.op = "json-demux!" -> JsonDemux(st, ctx, f.tokens, Read(st, Coerce(st, vals[1])))
      [] f.op = "subject-append" -> Give(st, Str(InArena(st, Append(Read(st, ctx.subject), f.token))))
      [] f.op = "+" -> IF \E i \in DOMAIN vals : AsNumber(st, vals[i]) = -1 THEN Fail(st)
                       ELSE Give(st, Num(AsNumber(st, vals[1]) + AsNumber(st, vals[2])))
      [] OTHER -> IF f.op \in {"debounce!", "sample!"} /\ vals[1].kind = "number" THEN Fail(st)
                  ELSE SlotForm(st, ctx, f, vals, 0)

\* eval_thread: nil ends the pipeline; otherwise the value becomes the next form's last
\* argument, in a copy of the form in the arena.
EvalThread(st, ctx, args) ==
    LET next(r, f) == IF r.failed \/ r.val.kind = "nil" THEN r
                      ELSE EvalList(r.st, ctx, [f EXCEPT !.args = Append(@, [op |-> "value", val |-> r.val])],
                                    r.st.arena)
    IN  FoldLeft(next, Eval(st, ctx, args[1]), Tail(args))

\* eval_list; in says where the call's arguments are.
EvalList(st, ctx, f, in) ==
    CASE f.op = "do" -> EvalDo(st, ctx, f.args)
      [] f.op = "if" -> EvalIf(st, ctx, f.args)
      [] f.op = "when" -> EvalWhen(st, ctx, f.args)
      [] f.op = "and" -> EvalAnd(st, ctx, f.args)
      [] f.op = "or" -> EvalOr(st, ctx, f.args)
      [] f.op = "->" -> EvalThread(st, ctx, f.args)
      [] f.op = "transition" -> EvalTransition(st, ctx, f.args)
      [] f.op \in {"on-silence", "dropout"} -> SlotForm(st, ctx, f, <<>>, in)
      [] OTHER -> LET a == EvalArgs(st, ctx, f.args)
                  IN  IF a.failed THEN Fail(a.st) ELSE CallForm(a.st, ctx, f, a.vals)

\* pb_eval
Eval(st, ctx, f) ==
    CASE f.op = "value" -> Give(st, f.val)
      [] f.op = "subject" -> Give(st, Str(ctx.subject))
      [] f.op = "payload" -> Give(st, Str(ctx.payload))
      [] f.op = "payload-float" -> LET n == TextNumber(Read(st, ctx.payload))
                                   IN  IF n = -1 THEN Fail(st) ELSE Give(st, Num(n))
      [] OTHER -> EvalList(st, ctx, f, 0)

-----------------------------------------------------------------------------
(* A tick.                                                                 *)

\* clock_publish
ClockPublish(st, ctx, i) == PublishCb(st, ctx, InSlot(st, ctx.rule, i, "emit"), InSlot(st, ctx.rule, i, "bytes"))

\* The on-silence case of tick_clock_state_entry, with eval_clock_body.
TickSilence(st, ctx, i) ==
    LET slot == st.state[ctx.rule].items[i]
        disarmed == SetSlot(st, ctx, i, [armed |-> FALSE])
        call == Len(st.calls) + 1
        in == [ctx EXCEPT !.payload = InSlot(st, ctx.rule, i, "bytes"), !.call = call]
        intact(s) == slot.formsIn \in {0, s.arena}
        each(r, j) == IF r.failed THEN r
                      ELSE IF ~intact(r.st) THEN Fail(Ran(r.st, call, 0, in.subject, in.payload))
                      ELSE Eval(Ran(r.st, call, j, in.subject, in.payload), in, slot.forms[j])
    IN  FoldLeftDomain(each, Give(Began(disarmed, "body", in.subject, in.payload, 0), Nil), slot.forms)

\* pb_eval_tick_state_entry, for the clock forms
TickStateEntry(st, ctx, i) ==
    LET slot == st.state[ctx.rule].items[i]
    IN  IF slot.kind # "clock" \/ ~slot.armed \/ now < slot.deadline THEN Give(st, Nil)
        ELSE CASE slot.op = "on-silence" -> TickSilence(st, ctx, i)
               [] slot.op = "dropout" -> Eval(SetSlot(st, ctx, i, [lost |-> TRUE, armed |-> FALSE]), ctx, slot.forms[1])
               [] slot.op = "debounce" -> ClockPublish(SetSlot(st, ctx, i, [armed |-> FALSE]), ctx, i)
               [] slot.op = "sample" -> ClockPublish(SetSlot(st, ctx, i, [deadline |-> slot.deadline + slot.interval]), ctx, i)

\* The loop over one rule's slots: those that an emission of this tick adds are visited too.
RECURSIVE TickSlots(_, _, _)
TickSlots(st, r, i) ==
    IF i > Len(st.state[r].items) THEN st
    ELSE LET subject == Own(st.state[r].items[i].subject)
         IN  TickSlots(Noted(TickStateEntry(st, Context(r, subject, Own(<<>>), 0, 0), i)), r, i + 1)

-----------------------------------------------------------------------------
(* Handlers.                                                               *)

\* program->eval_depth is 0 when a handler starts, since no rule can reach these functions:
\* every handler is an outer one and resets the scratch arena (reset_scratch) at its end.
Start(up) == [state |-> state, arena |-> arena, calls |-> <<>>, sent |-> <<>>, ok |-> TRUE, bridgeUp |-> up]

Finish(st) ==
    /\ handled < MaxHandled
    /\ state' = st.state
    /\ arena' = st.arena + 1
    /\ did' = [calls |-> st.calls, sent |-> st.sent]
    /\ handled' = handled + 1
    /\ UNCHANGED <<program, refs, now>>

\* mb_server_client_publish: the router's publish, then pb_program_eval_publish.
ClientPublish(m, up) ==
    LET st == Start(up)
        own == [rule |-> 0, call |-> 0, depth |-> 0, subject |-> m.subject, payload |-> m.payload,
                taken |-> TRUE, again |-> 1, forwarded |-> Forwarded(st, m.subject)]
    IN  /\ RouterTakes(m.subject)
        /\ Finish(EvalPublishSlices([st EXCEPT !.sent = <<own>>], Own(m.subject), Own(m.payload), 0))

\* The timer's callback: pb_program_tick.
Tick(up) ==
    /\ \E r \in DOMAIN program : \E i \in DOMAIN state[r].items :
          state[r].items[i].armed /\ state[r].items[i].deadline <= now
    /\ Finish(FoldLeftDomain(LAMBDA st, r : TickSlots(st, r, 1), Start(up), program))

Wait ==
    /\ now < MaxNow
    /\ now' = now + 1
    /\ UNCHANGED <<program, refs, state, arena, handled, did>>

\* load_source: any of the programs.
RulesInit ==
    /\ program \in Programs
    /\ refs = BuildRuleIndex(program)
    /\ state = [r \in DOMAIN program |-> [items |-> <<>>, index |-> <<>>]]
    /\ arena = 1 /\ now = 1 /\ handled = 0
    /\ did = [calls |-> <<>>, sent |-> <<>>]

RulesNext ==
    \/ \E m \in Messages, up \in BOOLEAN : ClientPublish(m, up)
    \/ \E up \in BOOLEAN : Tick(up)
    \/ Wait

RulesSpec == RulesInit /\ [][RulesNext]_rulesVars

-----------------------------------------------------------------------------
(* Properties.                                                             *)

MessageCalls == {c \in DOMAIN did.calls : did.calls[c].kind = "message"}

\* "Rule evaluation still follows source order for a given subject": whatever the index of
\* first tokens holds, and although a rule before it failed or its emission was evaluated in
\* between, every message runs exactly the rules whose filter it matches, in source order.
RulesExact ==
    \A c \in MessageCalls :
        LET call == did.calls[c]
            places == [r \in DOMAIN program |-> r]
        IN  [k \in DOMAIN call.ran |-> call.ran[k].what]
              = SelectSeq(places, LAMBDA r : SubjectMatches(program[r].filter, call.subject))

\* Every rule that runs for a message, and every form of an on-silence body, sees the subject
\* and the payload the evaluation began with, and the body is the one the rule holds: no
\* emission, no reset of the arena and no re-armed slot changes what is being looked at.
EvaluationStable ==
    \A c \in DOMAIN did.calls : LET call == did.calls[c]
                                 IN  \A k \in DOMAIN call.ran : /\ call.ran[k].subject = call.subject
                                                                /\ call.ran[k].payload = call.payload
                                                                /\ call.ran[k].what # 0

\* An emission is evaluated if and only if it was delivered, its rule is reentrant and the cap
\* of nested evaluations is not reached; it is evaluated as it was delivered, one level
\* deeper, before its rule goes on.  A refused one ends its rule and does not reach the bridge.
EmissionsExact ==
    \A e \in DOMAIN did.sent :
        LET s == did.sent[e]
        IN  /\ s.rule # 0 => (s.again # 0 <=> s.taken /\ program[s.rule].reentrant /\ s.depth < MaxReentry)
            /\ s.again # 0 => LET call == did.calls[s.again]
                              IN  /\ call.subject = s.subject /\ call.payload = s.payload
                                  /\ call.depth = (IF s.rule = 0 THEN 0 ELSE s.depth + 1)
                                  /\ call.depth <= MaxReentry
            /\ ~s.taken => /\ s.forwarded = "no"
                           /\ \A d \in e + 1 .. Len(did.sent) :
                                 ~(did.sent[d].rule = s.rule /\ did.sent[d].call = s.call /\ s.call # 0)

\* A rule has one slot for each operator and subject, and the index finds it: growing from a
\* plain list to an index and from one index to the next loses no slot and makes none twice.
OneSlotPerKey ==
    \A r \in DOMAIN program :
        LET s == state[r]
        IN  \A i \in DOMAIN s.items :
                LET same == {j \in DOMAIN s.items : /\ s.items[j].op = s.items[i].op
                                                    /\ s.items[j].subject = s.items[i].subject}
                IN  /\ same = {i}
                    /\ s.index # <<>> => IndexFind(s.index, StateHash(s.items[i].op, s.items[i].subject), same) = i
=============================================================================
