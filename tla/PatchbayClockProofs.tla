------------------------- MODULE PatchbayClockProofs -------------------------
(***************************************************************************)
(* Machine-checked proofs about module PatchbayClock, for all intervals,   *)
(* any length of time and any number of restarts.                          *)
(*                                                                         *)
(* Inv adds to the types and to TimerCovers what the action properties     *)
(* rest on: a form that waits for quiet is armed for one interval after    *)
(* the last message that reached it (QuietArmed), and a bar, in its slot   *)
(* or in the snapshot, starts at a multiple of its interval (BarAligned).  *)
(* EvalKeeps and TickKeeps say what an evaluation and a tick do to the     *)
(* slots, RescheduleCovers what the timer is set to.                       *)
(***************************************************************************)
EXTENDS PatchbayClock, SequenceTheorems, WellFoundedInduction, TLAPS

\* The start of the bar that time x falls into.
Aligned(x) == (x \div Interval["bar"]) * Interval["bar"]

\* Where the process is: what a stopped one has lost, and that a transition has a target.
Phase ==
    /\ mode = "down" => offset = 0 /\ Idle /\ \A f \in ClockForms : ~clock[f].armed
    /\ mode = "transition" => ~Idle
    /\ mode \in {"loading", "transition"} \/ ~Idle => source = "jetstream"

\* The forms that wait for quiet are armed for one interval after their last message.
QuietArmed == \A f \in Quiet : clock[f].armed => clock[f].deadline = lastPub[f] + Interval[f]

\* The open bar, and the one in the snapshot, start where an interval does.
BarAligned ==
    /\ bar.on => bar.start = Aligned(bar.start)
    /\ saved.bar.on => saved.bar.start = Aligned(saved.bar.start)

Inv == TypeOK /\ Phase /\ QuietArmed /\ BarAligned /\ TimerCovers

-----------------------------------------------------------------------------
(* Arithmetic.                                                             *)

\* A set of natural numbers has a least element, and Min is it.
LEMMA MinOfNats ==
    ASSUME NEW S \in SUBSET Nat, S # {}
    PROVE  Min(S) \in S /\ \A y \in S : Min(S) <= y
<1>1. PICK x \in S : \A y \in S : ~(<<y, x>> \in OpToRel(<, Nat))
  BY WFMin, NatLessThanWellFounded
<1>2. \A y \in S : ~(y < x)
  BY <1>1 DEF OpToRel
<1>3. \A y \in S : x <= y
  BY <1>2
<1>. QED
  BY <1>3 DEF Min

\* The larger of two numbers.
LEMMA MaxOfTwo ==
    ASSUME NEW a \in Int, NEW b \in Int
    PROVE  Max({a, b}) = IF a >= b THEN a ELSE b
  BY DEF Max

\* The intervals are positive.
LEMMA Intervals == \A f \in Forms : Interval[f] \in Nat /\ Interval[f] > 0
  BY ConfigAssumption

\* Rounding down to a multiple of d.
LEMMA RoundDown ==
    ASSUME NEW x \in Nat, NEW d \in Nat, d > 0
    PROVE  /\ (x \div d) * d \in Nat /\ (x \div d) * d <= x /\ x < (x \div d) * d + d
<1>. DEFINE q == x \div d
<1>1. q \in Nat
  BY SMT
<1>2. x = d * q + (x % d) /\ x % d \in 0 .. d - 1
  BY SMT
<1>3. d * q = q * d /\ q * d \in Nat
  BY <1>1, SMT
<1>. HIDE DEF q
<1>4. q * d <= x /\ x < q * d + d
  BY <1>1, <1>2, <1>3, SMT
<1>. QED
  BY <1>3, <1>4 DEF q

\* The only multiple of d among the d numbers up to x is what x is rounded down to.
LEMMA RoundUnique ==
    ASSUME NEW x \in Nat, NEW y \in Nat, NEW d \in Nat, d > 0,
           y = (y \div d) * d, y <= x, x < y + d
    PROVE  y = (x \div d) * d
<1>. DEFINE p == y \div d  q == x \div d
<1>1. p \in Nat /\ q \in Nat
  BY SMT
<1>2. q * d <= x /\ x < q * d + d
  BY RoundDown
<1>3. y = p * d
  OBVIOUS
<1>. HIDE DEF p, q
<1>4. CASE p < q
  <2>1. (p + 1) * d <= q * d
    BY <1>1, <1>4, SMT
  <2>2. (p + 1) * d = p * d + d
    BY <1>1, SMT
  <2>. QED
    BY <1>1, <1>2, <1>3, <2>1, <2>2, SMT
<1>5. CASE q < p
  <2>1. (q + 1) * d <= p * d
    BY <1>1, <1>5, SMT
  <2>2. (q + 1) * d = q * d + d
    BY <1>1, SMT
  <2>. QED
    BY <1>1, <1>2, <1>3, <2>1, <2>2, SMT
<1>. QED
  BY <1>1, <1>3, <1>4, <1>5 DEF q

\* Rounding down twice is rounding down once.
LEMMA RoundTwice ==
    ASSUME NEW x \in Nat, NEW d \in Nat, d > 0
    PROVE  (((x \div d) * d) \div d) * d = (x \div d) * d
<1>. DEFINE q == x \div d
<1>1. q \in Nat
  BY SMT
<1>. HIDE DEF q
<1>2. q * d \in Nat
  BY <1>1, SMT
<1>3. (q * d) \div d = q
  <2>. DEFINE p == (q * d) \div d
  <2>1. p \in Nat
    BY <1>2, SMT
  <2>2. p * d <= q * d /\ q * d < p * d + d
    BY <1>2, RoundDown
  <2>. HIDE DEF p
  <2>3. CASE p < q
    <3>1. (p + 1) * d <= q * d /\ (p + 1) * d = p * d + d
      BY <1>1, <2>1, <2>3, SMT
    <3>. QED
      BY <1>1, <1>2, <2>1, <2>2, <3>1, SMT
  <2>4. CASE q < p
    <3>1. (q + 1) * d <= p * d /\ (q + 1) * d = q * d + d
      BY <1>1, <2>1, <2>4, SMT
    <3>. QED
      BY <1>1, <1>2, <2>1, <2>2, <3>1, SMT
  <2>. QED
    BY <1>1, <2>1, <2>3, <2>4 DEF p
<1>. QED
  BY <1>3 DEF q

-----------------------------------------------------------------------------
(* The operators of the model.                                             *)

\* Patchbay's clock never runs ahead of real time.
LEMMA NowBehind ==
    ASSUME TypeOK
    PROVE  Now \in 0 .. t /\ UvNow \in Nat /\ Now = UvNow + offset /\ t \in Nat /\ offset \in Nat
  BY ConfigAssumption DEF TypeOK, TimeType, Now, UvNow

\* Evicting old samples leaves a window whose deadline has not come yet.
LEMMA EvictKeeps ==
    ASSUME NEW T \in Nat, NEW w \in Seq(0 .. T), NEW now \in Nat
    PROVE  /\ Evict(w, now) \in Seq(0 .. T)
           /\ Evict(w, now) # <<>> => Head(Evict(w, now)) + Interval["window"] + 1 > now
<1>. DEFINE cutoff == IF now > Interval["window"] THEN now - Interval["window"] ELSE 0
            stops == {k \in 0 .. Len(w) : k < Len(w) => w[k + 1] >= cutoff}
            m == Min(stops)
<1>1. Interval["window"] \in Nat
  BY Intervals DEF Forms
<1>2. stops \in SUBSET Nat /\ Len(w) \in stops
  OBVIOUS
<1>3. m \in stops
  BY <1>2, MinOfNats
<1>4. Evict(w, now) = SubSeq(w, m + 1, Len(w))
  BY DEF Evict
<1>5. m \in 0 .. Len(w) /\ (m < Len(w) => w[m + 1] >= cutoff)
  BY <1>3
<1>6. cutoff \in Nat /\ cutoff + Interval["window"] + 1 > now
  BY <1>1
<1>. HIDE DEF cutoff, stops, m
<1>7. SubSeq(w, m + 1, Len(w)) \in Seq(0 .. T)
  BY <1>5
<1>8. SubSeq(w, m + 1, Len(w)) # <<>> => m < Len(w) /\ Head(SubSeq(w, m + 1, Len(w))) = w[m + 1]
  BY <1>5
<1>9. m < Len(w) => w[m + 1] \in 0 .. T
  BY <1>5
<1>10. m < Len(w) => w[m + 1] + Interval["window"] + 1 > now
  BY <1>1, <1>5, <1>6, <1>9
<1>. QED
  BY <1>4, <1>7, <1>8, <1>10

\* A sample pushed is the newest of the window.
LEMMA PushKeeps ==
    ASSUME NEW T \in Nat, NEW w \in Seq(0 .. T), NEW now \in 0 .. T
    PROVE  PushTime(w, now) \in Seq(0 .. T)
<1>1. Append(w, now) \in Seq(0 .. T)
  OBVIOUS
<1>. QED
  BY <1>1 DEF PushTime

\* Deadlines are natural numbers.
LEMMA DeadlinesNat ==
    ASSUME NEW T \in Nat, NEW b, b.start \in 0 .. T, NEW w \in Seq(0 .. T),
           NEW c \in [ClockForms -> [armed : BOOLEAN, deadline : Nat]]
    PROVE  Deadlines(b, w, c) \in SUBSET Nat
<1>1. b.start + Interval["bar"] \in Nat
  BY Intervals DEF Forms
<1>2. w # <<>> => Head(w) + Interval["window"] + 1 \in Nat
  <2>1. Interval["window"] \in Nat
    BY Intervals DEF Forms
  <2>2. w # <<>> => Head(w) \in 0 .. T
    OBVIOUS
  <2>. QED
    BY <2>1, <2>2
<1>3. \A f \in ClockForms : c[f].deadline \in Nat
  OBVIOUS
<1>. QED
  BY <1>1, <1>2, <1>3 DEF Deadlines


\* The facts about the constants and the state that most steps need.
LEMMA Basics ==
    ASSUME TypeOK
    PROVE  /\ t \in Nat /\ window \in Seq(0 .. t) /\ bar.start \in 0 .. t
           /\ bar.on \in BOOLEAN
           /\ held \in {None} \cup (0 .. t)
           /\ Interval["bar"] \in Nat /\ Interval["bar"] > 0
           /\ \A f \in ClockForms : clock[f].deadline \in Nat /\ Interval[f] \in Nat /\ Interval[f] > 0
           /\ \A f \in ClockForms : clock[f].armed => clock[f].deadline > 0
           /\ clock \in [ClockForms -> [armed : BOOLEAN, deadline : Nat]]
<1>1. t \in Nat
  BY NowBehind
<1>2. \A f \in ClockForms : clock[f].deadline \in Nat /\ Interval[f] \in Nat /\ Interval[f] > 0
  <2>1. \A f \in ClockForms : clock[f].deadline \in Nat
    BY DEF TypeOK, ClockType
  <2>. QED
    BY <2>1, Intervals, Zenon DEF Forms
<1>3. Interval["bar"] \in Nat /\ Interval["bar"] > 0
  BY Intervals, Zenon DEF Forms
<1>4. clock \in [ClockForms -> [armed : BOOLEAN, deadline : Nat]]
  BY DEF TypeOK, ClockType
<1>. QED
  BY <1>1, <1>2, <1>3, <1>4, Zenon DEF TypeOK, ClockType, KeptType

\* What evaluating a message at time now leaves in the slots.
LEMMA EvalKeeps ==
    ASSUME TypeOK, NEW now \in 0 .. t, NEW done, Eval(now, done), t' = t
    PROVE  /\ KeptType(bar, window, held)' /\ ClockType'
           /\ aggregated' \in BOOLEAN
           /\ lost' \in BOOLEAN
           /\ lastPub' \in [Quiet -> {None} \cup (0 .. t)]
           /\ emitted' \subseteq {"bar", "holdoff", "found"}
           /\ "bar" \in emitted' => bar.on /\ bar.start # Aligned(now)
           /\ \A f \in Quiet :
                 \/ clock'[f] = clock[f] /\ lastPub'[f] = lastPub[f]
                 \/ clock'[f].deadline = now + Interval[f] /\ lastPub'[f] = now
           /\ bar' = bar \/ bar'.start = Aligned(now)
<1>0. now \in Nat /\ t \in Nat
  BY Basics
<1>1. Aligned(now) \in 0 .. t
  <2>1. Aligned(now) \in Nat /\ Aligned(now) <= now
    BY <1>0, Basics, RoundDown DEF Aligned
  <2>. QED
    BY <1>0, <2>1
<1>2. /\ bar'.on \in BOOLEAN
      /\ bar'.start \in 0 .. t
      /\ ~bar'.on => bar'.start = 0
      /\ bar' = bar \/ bar'.start = Aligned(now)
  <2>1. CASE "bar" \in done
    <3>1. bar' = [on |-> TRUE, start |-> IF bar.on /\ bar.start = Aligned(now) THEN bar.start ELSE Aligned(now)]
      BY <2>1 DEF Eval, BarUpdate, Aligned
    <3>2. bar'.on = TRUE /\ bar'.start = Aligned(now)
      BY <3>1
    <3>. QED
      BY <3>2, <1>1
  <2>2. CASE "bar" \notin done
    <3>1. bar' = bar
      BY <2>2 DEF Eval
    <3>. QED
      BY <3>1, Zenon DEF TypeOK, KeptType
  <2>. QED
    BY <2>1, <2>2
<1>3. window' \in Seq(0 .. t)
  <2>1. Evict(window, now) \in Seq(0 .. t)
    BY <1>0, Basics, EvictKeeps
  <2>2. PushTime(Evict(window, now), now) \in Seq(0 .. t)
    BY <1>0, <2>1, PushKeeps
  <2>. QED
    BY <2>2, Basics DEF Eval
<1>4. held' \in {None} \cup (0 .. t)
  BY Basics DEF Eval
<1>5. /\ ClockType'
      /\ \A f \in Quiet :
            \/ f \notin done /\ clock'[f] = clock[f]
            \/ f \in done /\ clock'[f].deadline = now + Interval[f]
  <2>0. clock' = ClockUpdate(now, done)
    BY DEF Eval
  <2>1. \A f \in ClockForms :
           \/ clock'[f] = clock[f] /\ f \notin done
           \/ clock'[f] = [armed |-> TRUE, deadline |-> now + Interval[f]] /\ f \in done
           \/ clock'[f] = [armed |-> TRUE, deadline |-> clock[f].deadline] /\ clock[f].deadline # 0
              /\ f \notin Quiet
    BY <2>0, Zenon DEF ClockUpdate
  <2>2. \A f \in ClockForms : /\ clock'[f] \in [armed : BOOLEAN, deadline : Nat]
                              /\ clock'[f].armed => clock'[f].deadline > 0
    <3>. TAKE f \in ClockForms
    <3>1. /\ clock[f] \in [armed : BOOLEAN, deadline : Nat]
          /\ clock[f].armed => clock[f].deadline > 0
          /\ Interval[f] \in Nat /\ Interval[f] > 0
      BY Basics
    <3>2. CASE clock'[f] = clock[f]
      BY <3>1, <3>2
    <3>3. CASE clock'[f] = [armed |-> TRUE, deadline |-> now + Interval[f]]
      BY <1>0, <3>1, <3>3
    <3>4. CASE clock'[f] = [armed |-> TRUE, deadline |-> clock[f].deadline] /\ clock[f].deadline # 0
      BY <3>1, <3>4
    <3>. QED
      BY <2>1, <3>2, <3>3, <3>4
  <2>3. clock' \in [ClockForms -> [armed : BOOLEAN, deadline : Nat]]
    BY <2>0, <2>2 DEF ClockUpdate
  <2>4. Quiet \subseteq ClockForms
    BY DEF Quiet, ClockForms
  <2>5. \A f \in Quiet :
           \/ f \notin done /\ clock'[f] = clock[f]
           \/ f \in done /\ clock'[f].deadline = now + Interval[f]
    <3>. TAKE f \in Quiet
    <3>1. f \in ClockForms
      BY <2>4
    <3>2. \/ clock'[f] = clock[f] /\ f \notin done
          \/ clock'[f] = [armed |-> TRUE, deadline |-> now + Interval[f]] /\ f \in done
      BY <2>1, <3>1
    <3>. QED
      BY <3>2
  <2>6. ClockType'
    BY <2>2, <2>3 DEF ClockType
  <2>. QED
    BY <2>5, <2>6
<1>6. /\ aggregated' \in BOOLEAN
      /\ lost' \in BOOLEAN
  BY DEF Eval
<1>7. /\ lastPub' \in [Quiet -> {None} \cup (0 .. t)]
      /\ \A f \in Quiet : lastPub'[f] = IF f \in done THEN now ELSE lastPub[f]
  BY DEF Eval, TypeOK, TimeType
<1>8. /\ emitted' \subseteq {"bar", "holdoff", "found"}
      /\ "bar" \in emitted' => bar.on /\ bar.start # Aligned(now)
  BY DEF Eval, BarClosesOn, Aligned
<1>9. KeptType(bar, window, held)'
  BY <1>2, <1>3, <1>4 DEF KeptType
<1>10. \A f \in Quiet :
         \/ clock'[f] = clock[f] /\ lastPub'[f] = lastPub[f]
         \/ clock'[f].deadline = now + Interval[f] /\ lastPub'[f] = now
  BY <1>5, <1>7
<1>. QED
  BY <1>2, <1>5, <1>6, <1>7, <1>8, <1>9, <1>10, Zenon

\* What a tick at time now leaves in the slots: nothing that is due by now, except a sample
\* or an aggregate that is due again one interval later.
LEMMA TickKeeps ==
    ASSUME TypeOK, NEW now \in Nat, Tick(now), t' = t
    PROVE  /\ KeptType(bar, window, held)' /\ ClockType'
           /\ aggregated' \in BOOLEAN
           /\ lost' \in BOOLEAN
           /\ lastPub' = lastPub
           /\ emitted' \subseteq ClockForms \cup {"bar"}
           /\ \A f \in ClockForms \cap emitted' : clock[f].armed /\ now >= clock[f].deadline
           /\ \A f \in Quiet : clock'[f].armed => clock'[f] = clock[f]
           /\ bar'.on => bar' = bar
           /\ \A d \in Deadlines(bar', window', clock') :
                 \/ d > now
                 \/ \E f \in ClockForms : clock[f].armed /\ d = clock[f].deadline + Interval[f]
<1>1. /\ bar'.on \in BOOLEAN
      /\ bar'.start \in 0 .. t
      /\ ~bar'.on => bar'.start = 0
      /\ bar'.on => bar' = bar
      /\ bar'.on => bar'.start + Interval["bar"] > now
  <2>1. CASE BarTickCloses(now)
    <3>1. bar' = NoBar
      BY <2>1 DEF Tick
    <3>. QED
      BY <3>1, Basics DEF NoBar
  <2>2. CASE ~BarTickCloses(now)
    <3>1. bar' = bar
      BY <2>2 DEF Tick
    <3>2. bar.on => bar.start + Interval["bar"] > now
      BY <2>2, Basics DEF BarTickCloses
    <3>. QED
      BY <3>1, <3>2, Zenon DEF TypeOK, KeptType
  <2>. QED
    BY <2>1, <2>2
<1>2. window' \in Seq(0 .. t) /\ (window' # <<>> => Head(window') + Interval["window"] + 1 > now)
  BY Basics, EvictKeeps DEF Tick
<1>3. held' \in {None} \cup (0 .. t)
  BY Basics DEF Tick
<1>4. /\ ClockType' /\ \A f \in Quiet : clock'[f].armed => clock'[f] = clock[f]
      /\ \A f \in ClockForms : clock'[f].armed =>
            \/ clock'[f].deadline > now
            \/ clock[f].armed /\ clock'[f].deadline = clock[f].deadline + Interval[f]
  <2>0. clock' = ClockTick(now)
    BY DEF Tick
  <2>1. \A f \in ClockForms :
           \/ ~Due(f, now) /\ clock'[f] = clock[f]
           \/ Due(f, now) /\ f \notin Quiet /\ clock'[f] = [clock[f] EXCEPT !.deadline = @ + Interval[f]]
           \/ Due(f, now) /\ clock'[f] = [clock[f] EXCEPT !.armed = FALSE]
    BY <2>0 DEF ClockTick, Quiet
  <2>2. \A f \in ClockForms : /\ clock'[f] \in [armed : BOOLEAN, deadline : Nat]
                              /\ clock'[f].armed => clock'[f].deadline > 0
                              /\ f \in Quiet /\ clock'[f].armed => clock'[f] = clock[f]
                              /\ clock'[f].armed =>
                                    \/ clock'[f].deadline > now
                                    \/ clock[f].armed /\ clock'[f].deadline = clock[f].deadline + Interval[f]
    <3>. TAKE f \in ClockForms
    <3>1. /\ clock[f] \in [armed : BOOLEAN, deadline : Nat]
          /\ clock[f].armed => clock[f].deadline > 0
          /\ Interval[f] \in Nat /\ Interval[f] > 0
      BY Basics
    <3>2. CASE ~Due(f, now) /\ clock'[f] = clock[f]
      BY <3>1, <3>2 DEF Due
    <3>3. CASE Due(f, now) /\ f \notin Quiet /\ clock'[f] = [clock[f] EXCEPT !.deadline = @ + Interval[f]]
      BY <3>1, <3>3 DEF Due
    <3>4. CASE Due(f, now) /\ clock'[f] = [clock[f] EXCEPT !.armed = FALSE]
      BY <3>1, <3>4
    <3>. QED
      BY <2>1, <3>2, <3>3, <3>4
  <2>3. clock' \in [ClockForms -> [armed : BOOLEAN, deadline : Nat]]
    BY <2>0, <2>2 DEF ClockTick
  <2>4. Quiet \subseteq ClockForms
    BY DEF Quiet, ClockForms
  <2>. QED
    BY <2>2, <2>3, <2>4 DEF ClockType
<1>5. /\ aggregated' \in BOOLEAN
      /\ lost' \in BOOLEAN
  BY DEF Tick
<1>6. lastPub' = lastPub
  BY DEF Tick
<1>7. /\ emitted' \subseteq ClockForms \cup {"bar"}
      /\ \A f \in ClockForms \cap emitted' : clock[f].armed /\ now >= clock[f].deadline
  <2>1. "bar" \notin ClockForms
    BY DEF ClockForms
  <2>2. emitted' = {f \in ClockForms : Due(f, now) /\ (f = "aggregate" => aggregated)}
                     \cup (IF BarTickCloses(now) THEN {"bar"} ELSE {})
    BY DEF Tick
  <2>. QED
    BY <2>1, <2>2 DEF Due
<1>8. \A d \in Deadlines(bar', window', clock') :
         \/ d > now
         \/ \E f \in ClockForms : clock[f].armed /\ d = clock[f].deadline + Interval[f]
  <2>. TAKE d \in Deadlines(bar', window', clock')
  <2>1. CASE bar'.on /\ d = bar'.start + Interval["bar"]
    BY <1>1, <2>1
  <2>2. CASE window' # <<>> /\ d = Head(window') + Interval["window"] + 1
    BY <1>2, <2>2
  <2>3. CASE \E f \in ClockForms : clock'[f].armed /\ d = clock'[f].deadline
    BY <1>4, <2>3
  <2>. QED
    BY <2>1, <2>2, <2>3 DEF Deadlines
<1>9. KeptType(bar, window, held)'
  BY <1>1, <1>2, <1>3 DEF KeptType
<1>. QED
  BY <1>1, <1>4, <1>5, <1>6, <1>7, <1>8, <1>9

-----------------------------------------------------------------------------
(* The steps.                                                              *)

\* The types of import, but for loadOk.
ImportType == /\ stream \in 1 .. Streams /\ floor \in [1 .. Streams -> 0 .. t]
              /\ arrived \in 0 .. MaxArrivals

\* A message evaluated at a time that may be before the last one.
LEMMA EvalStep ==
    ASSUME Inv, NEW now \in 0 .. t, NEW done, Eval(now, done), ServerFrame,
           mode \in {"loading", "live"}, target' = None,
           ImportType', loadOk' \in BOOLEAN, timer' \in {None} \cup Nat,
           gap' \in {"none", "failed_rule", "warm_start", "transition"}
    PROVE  TypeOK' /\ Phase' /\ QuietArmed' /\ BarAligned'
<1>0. TypeOK /\ t' = t /\ now \in Nat /\ t \in Nat
  <2>1. TypeOK /\ t' = t
    BY DEF Inv, ServerFrame
  <2>2. t \in Nat
    BY <2>1, NowBehind
  <2>. QED
    BY <2>1, <2>2
<1>1. KeptType(bar, window, held)' /\ ClockType' /\ lastPub' \in [Quiet -> {None} \cup (0 .. t)]
  BY <1>0, EvalKeeps
<1>2. KeptType(saved.bar, saved.window, saved.held)'
  BY <1>0 DEF TypeOK, ServerFrame, KeptType
<1>3. TimeType'
  BY <1>0, <1>1 DEF TypeOK, TimeType, ServerFrame, ImportType
<1>4. emitted' \subseteq Forms \cup {"found"}
  BY <1>0, EvalKeeps DEF Forms
<1>5. ModeType'
  <2>1. UNCHANGED <<mode, source, restarts>>
    BY DEF ServerFrame
  <2>2. aggregated' \in BOOLEAN /\ lost' \in BOOLEAN
    BY <1>0, EvalKeeps
  <2>. QED
    BY <1>0, <1>4, <2>1, <2>2 DEF TypeOK, ModeType
<1>6. Phase'
  BY DEF Inv, Phase, ServerFrame, Idle
<1>7. QuietArmed'
  <2>1. \A f \in Quiet :
           \/ clock'[f] = clock[f] /\ lastPub'[f] = lastPub[f]
           \/ clock'[f].deadline = now + Interval[f] /\ lastPub'[f] = now
    BY <1>0, EvalKeeps
  <2>. QED
    BY <2>1 DEF QuietArmed, Inv
<1>8. BarAligned'
  <2>0. saved' = saved
    BY DEF ServerFrame
  <2>1. CASE bar' = bar
    BY <2>0, <2>1 DEF Inv, BarAligned, Aligned
  <2>2. CASE bar'.start = Aligned(now)
    <3>1. Aligned(Aligned(now)) = Aligned(now)
      BY <1>0, Basics, RoundTwice DEF Aligned
    <3>. QED
      BY <2>0, <2>2, <3>1 DEF Inv, BarAligned, Aligned
  <2>. QED
    BY <1>0, <2>1, <2>2, EvalKeeps
<1>. QED
  BY <1>1, <1>2, <1>3, <1>5, <1>6, <1>7, <1>8 DEF TypeOK

\* A tick.
LEMMA TickStep ==
    ASSUME Inv, NEW now \in Nat, Tick(now), ServerFrame, mode # "down",
           UNCHANGED <<target, import>>, timer' \in {None} \cup Nat,
           gap' \in {"none", "failed_rule", "warm_start", "transition"}
    PROVE  TypeOK' /\ Phase' /\ QuietArmed' /\ BarAligned'
<1>0. TypeOK /\ t' = t
  BY DEF Inv, ServerFrame
<1>1. KeptType(bar, window, held)' /\ ClockType' /\ lastPub' = lastPub
  BY <1>0, TickKeeps
<1>2. KeptType(saved.bar, saved.window, saved.held)'
  BY <1>0 DEF TypeOK, ServerFrame, KeptType
<1>3. TimeType'
  BY <1>0, <1>1 DEF TypeOK, TimeType, ServerFrame, import
<1>4. emitted' \subseteq Forms \cup {"found"}
  BY <1>0, TickKeeps DEF Forms
<1>5. ModeType'
  <2>1. UNCHANGED <<mode, source, restarts>>
    BY DEF ServerFrame
  <2>2. aggregated' \in BOOLEAN /\ lost' \in BOOLEAN
    BY <1>0, TickKeeps
  <2>. QED
    BY <1>0, <1>4, <2>1, <2>2 DEF TypeOK, ModeType, import
<1>6. Phase'
  BY <1>1 DEF Inv, Phase, ServerFrame, Idle
<1>7. QuietArmed'
  BY <1>0, <1>1, TickKeeps DEF QuietArmed, Inv
<1>8. BarAligned'
  BY <1>0, <1>1, TickKeeps DEF BarAligned, Inv, ServerFrame, Aligned
<1>. QED
  BY <1>1, <1>2, <1>3, <1>5, <1>6, <1>7, <1>8 DEF TypeOK

\* Rescheduling points the timer at the earliest deadline, or at once when it has passed.
LEMMA RescheduleCovers ==
    ASSUME TypeOK, KeptType(bar, window, held)', ClockType', UNCHANGED <<t, boot, offset>>,
           Reschedule(bar', window', clock', Now)
    PROVE  timer' \in {None} \cup Nat /\ gap' = "none" /\ Covered'
<1>. DEFINE ds == Deadlines(bar', window', clock')
<1>1. ds \in SUBSET Nat
  <2>1. t' \in Nat
    BY NowBehind
  <2>2. bar'.start \in 0 .. t' /\ window' \in Seq(0 .. t')
    BY Zenon DEF KeptType
  <2>3. clock' \in [ClockForms -> [armed : BOOLEAN, deadline : Nat]]
    BY DEF ClockType
  <2>. QED
    BY <2>1, <2>2, <2>3, DeadlinesNat
<1>2. Now \in Nat /\ UvNow \in Nat /\ Now = UvNow + offset /\ offset \in Nat
  BY NowBehind
<1>3. Now' = Now
  BY DEF Now, UvNow
<1>4. CASE ds = {}
  <2>1. Deadlines(bar, window, clock)' = {}
    BY <1>4 DEF Deadlines
  <2>. QED
    BY <1>4, <2>1 DEF Reschedule, Covered
<1>5. CASE ds # {}
  <2>1. Min(ds) \in Nat
    BY <1>1, <1>5, MinOfNats
  <2>2. Max({0, Min(ds) - Now}) = IF 0 >= Min(ds) - Now THEN 0 ELSE Min(ds) - Now
    BY <1>2, <2>1, MaxOfTwo
  <2>3. Max({Min(ds), Now}) = IF Min(ds) >= Now THEN Min(ds) ELSE Now
    BY <1>2, <2>1, MaxOfTwo
  <2>4. timer' = UvNow + Max({0, Min(ds) - Now}) /\ gap' = "none"
    BY <1>5 DEF Reschedule
  <2>5. timer' \in Nat /\ timer' + offset <= Max({Min(ds), Now})
    BY <1>2, <2>1, <2>2, <2>3, <2>4
  <2>6. Deadlines(bar, window, clock)' = ds
    BY DEF Deadlines
  <2>7. Covered'
    BY <1>3, <2>5, <2>6 DEF Covered, None
  <2>. QED
    BY <2>4, <2>5, <2>7
<1>. QED
  BY <1>4, <1>5

\* Every step from a state of Inv leads to one.
LEMMA StepInv ==
    ASSUME Inv, [Next]_vars
    PROVE  Inv'
<1>0. /\ TypeOK /\ Now \in 0 .. t /\ UvNow \in Nat /\ Now = UvNow + offset /\ t \in Nat
      /\ offset \in Nat
  BY NowBehind DEF Inv
<1>1. /\ timer \in {None} \cup Nat
      /\ gap \in {"none", "failed_rule", "warm_start", "transition"}
      /\ ImportType /\ loadOk \in BOOLEAN
      /\ target \in {None} \cup (0 .. t)
  BY DEF Inv, TypeOK, TimeType, ModeType, ImportType
<1>2. ASSUME NEW now \in 0 .. t, NEW done, Message(now, done), ServerFrame,
             mode \in {"loading", "live"}, target' = None, ImportType', loadOk' \in BOOLEAN
      PROVE  Inv'
  <2>1. KeptType(bar, window, held)' /\ ClockType'
    BY <1>0, <1>2, EvalKeeps DEF Message, ServerFrame
  <2>2. timer' \in {None} \cup Nat /\ gap' = "none" /\ Covered'
    BY <1>0, <1>2, <2>1, RescheduleCovers DEF Message, ServerFrame
  <2>3. TypeOK' /\ Phase' /\ QuietArmed' /\ BarAligned'
    BY <1>0, <1>2, <2>2, EvalStep DEF Message
  <2>. QED
    BY <2>2, <2>3 DEF Inv, TimerCovers
<1>3. CASE ClientPublish
  <2>1. source = "client" /\ mode = "live" /\ Idle /\ ServerFrame /\ UNCHANGED <<target, import>>
    BY <1>3 DEF ClientPublish, Inv, Phase
  <2>2. ImportType' /\ loadOk' \in BOOLEAN /\ target' = None
    BY <1>1, <2>1 DEF ImportType, import, ServerFrame, Idle
  <2>3. PICK done \in Outcomes : \/ Message(Now, done)
                                 \/ Eval(Now, done) /\ TimerLeft("failed_rule")
    BY <1>3 DEF ClientPublish
  <2>4. CASE Message(Now, done)
    BY <1>0, <1>2, <2>1, <2>2, <2>4
  <2>5. CASE Eval(Now, done) /\ TimerLeft("failed_rule")
    <3>1. TypeOK' /\ Phase' /\ QuietArmed' /\ BarAligned'
      BY <1>0, <1>1, <2>1, <2>2, <2>5, EvalStep DEF TimerLeft
    <3>. QED
      BY <2>5, <3>1 DEF Inv, TimerCovers, TimerLeft
  <2>. QED
    BY <2>3, <2>4, <2>5
<1>4. CASE ImportIngress
  <2>1. source = "import" /\ mode = "live" /\ Idle /\ ServerFrame /\ UNCHANGED <<target, import>>
    BY <1>4 DEF ImportIngress, Inv, Phase
  <2>2. ImportType' /\ loadOk' \in BOOLEAN /\ target' = None
    BY <1>1, <2>1 DEF ImportType, import, ServerFrame, Idle
  <2>3. PICK done \in Outcomes : Message(Now, done)
    BY <1>4 DEF ImportIngress
  <2>. QED
    BY <1>0, <1>2, <2>1, <2>2, <2>3
<1>5. CASE JetStreamArrives
  <2>1. /\ UNCHANGED <<floor, loadOk, slots, timer, gap, lastPub, source, t, boot, offset, mode,
                       restarts, saved>>
        /\ mode \in {"loading", "live"} /\ source = "jetstream" /\ stream' \in 1 .. Streams
        /\ target' \in 0 .. t /\ arrived' \in 0 .. MaxArrivals /\ emitted' = {}
    <3>1. stream' \in 1 .. Streams
      BY <1>1, <1>5 DEF JetStreamArrives, ImportType
    <3>2. floor[stream'] \in 0 .. t /\ target' \in floor[stream'] .. t
      BY <1>1, <1>5, <3>1 DEF JetStreamArrives, ImportType
    <3>3. target' \in 0 .. t
      BY <1>0, <3>2
    <3>4. arrived' \in 0 .. MaxArrivals
      BY <1>1, <1>5, ConfigAssumption DEF JetStreamArrives, ImportType
    <3>. QED
      BY <1>5, <3>1, <3>3, <3>4 DEF JetStreamArrives, ServerFrame
  <2>2. TimeType'
    BY <1>0, <2>1 DEF TypeOK, TimeType
  <2>3. ModeType'
    BY <1>0, <2>1, Zenon DEF TypeOK, ModeType, slots
  <2>4. ClockType' /\ KeptType(bar, window, held)' /\ KeptType(saved.bar, saved.window, saved.held)'
    BY <1>0, <2>1, Zenon DEF TypeOK, ClockType, KeptType, slots
  <2>5. Phase'
    BY <2>1 DEF Inv, Phase, Idle, slots
  <2>6. QuietArmed' /\ BarAligned'
    BY <2>1 DEF Inv, QuietArmed, BarAligned, slots, Aligned
  <2>7. ~Idle'
    BY <1>0, <2>1 DEF Idle, None
  <2>8. TimerCovers'
    BY <2>7 DEF TimerCovers, Covered
  <2>. QED
    BY <2>2, <2>3, <2>4, <2>5, <2>6, <2>8 DEF Inv, TypeOK
<1>6. CASE TickUntil
  <2>1. PICK d \in Deadlines(bar, window, clock) : Tick(d)
    BY <1>6 DEF TickUntil
  <2>2. d \in Nat
    BY <1>0, <2>1, Basics, DeadlinesNat
  <2>3. ~Idle /\ UNCHANGED <<target, import, timer, gap>> /\ ServerFrame /\ mode # "down"
    BY <1>6 DEF TickUntil, Inv, Phase
  <2>4. TypeOK' /\ Phase' /\ QuietArmed' /\ BarAligned'
    BY <1>1, <2>1, <2>2, <2>3, TickStep
  <2>5. TimerCovers'
    BY <2>3 DEF TimerCovers, Covered, Idle
  <2>. QED
    BY <2>4, <2>5 DEF Inv
<1>7. CASE JetStreamEval
  <2>1. /\ target \in 0 .. t /\ ServerFrame /\ target' = None /\ mode \in {"loading", "live"}
    BY <1>7 DEF JetStreamEval, Inv, Phase, Idle, TypeOK, TimeType, ModeType
  <2>2. ImportType' /\ loadOk' \in BOOLEAN
    <3>1. PICK ok \in BOOLEAN : Processed(ok)
      BY <1>7 DEF JetStreamEval
    <3>2. 1 \in 1 .. Streams
      BY ConfigAssumption
    <3>3. stream' \in 1 .. Streams /\ arrived' = arrived /\ t' = t
      BY <1>1, <2>1, <3>1, <3>2 DEF Processed, ImportType, ServerFrame
    <3>4. [floor EXCEPT ![stream] = target] \in [1 .. Streams -> 0 .. t]
      BY <1>1, <2>1 DEF ImportType
    <3>5. floor' \in [1 .. Streams -> 0 .. t]
      BY <1>1, <3>1, <3>4 DEF Processed, ImportType
    <3>6. loadOk' \in BOOLEAN
      BY <3>1 DEF Processed
    <3>. QED
      BY <1>1, <3>3, <3>5, <3>6 DEF ImportType
  <2>3. PICK done \in Outcomes : IF mode = "live" THEN Message(target, done)
                                 ELSE Eval(target, done) /\ UNCHANGED <<timer, gap>>
    BY <1>7 DEF JetStreamEval
  <2>4. CASE mode = "live"
    BY <1>2, <2>1, <2>2, <2>3, <2>4
  <2>5. CASE mode # "live"
    <3>1. Eval(target, done) /\ UNCHANGED <<timer, gap>>
      BY <2>3, <2>5
    <3>2. TypeOK' /\ Phase' /\ QuietArmed' /\ BarAligned'
      BY <1>1, <2>1, <2>2, <3>1, EvalStep
    <3>3. TimerCovers'
      BY <2>1, <2>5 DEF TimerCovers, Covered, ServerFrame
    <3>. QED
      BY <3>2, <3>3 DEF Inv
  <2>. QED
    BY <2>4, <2>5
<1>8. CASE StreamCaughtUp \/ TransitionBegins \/ TransitionEnds
  <2>1. /\ UNCHANGED <<source, t, boot, restarts, floor, loadOk, arrived, slots, saved, timer, lastPub>>
        /\ emitted' = {} /\ source = "jetstream" /\ stream' \in 1 .. Streams
        /\ \/ UNCHANGED <<mode, offset, target, gap>> /\ mode = "loading"
           \/ mode' = "transition" /\ offset' = boot /\ target' = t /\ gap' = gap
           \/ mode' = "live" /\ offset' = offset /\ target' = None /\ gap' = "transition"
    <3>1. 1 \in 1 .. Streams /\ (stream < Streams => stream + 1 \in 1 .. Streams)
      BY <1>1, ConfigAssumption DEF ImportType
    <3>2. CASE StreamCaughtUp
      BY <3>1, <3>2 DEF StreamCaughtUp, ServerFrame, Inv, Phase
    <3>3. CASE TransitionBegins
      BY <3>1, <3>3 DEF TransitionBegins, Inv, Phase
    <3>4. CASE TransitionEnds
      BY <1>1, <3>4 DEF TransitionEnds, TimerLeft, Inv, Phase, import, ImportType
    <3>. QED
      BY <1>8, <3>2, <3>3, <3>4
  <2>2. TimeType'
    BY <1>0, <2>1 DEF TypeOK, TimeType
  <2>3. ModeType'
    <3>1. mode' \in {"loading", "transition", "live"} /\ gap' \in {"none", "failed_rule", "warm_start", "transition"}
      BY <1>1, <2>1
    <3>2. mode' # "down"
      BY <3>1
    <3>3. mode' \in {"loading", "transition", "live", "down"}
      BY <3>1
    <3>. QED
      BY <1>0, <2>1, <3>1, <3>2, <3>3, Zenon DEF TypeOK, ModeType, slots
  <2>4. ClockType' /\ KeptType(bar, window, held)' /\ KeptType(saved.bar, saved.window, saved.held)'
    BY <1>0, <2>1, Zenon DEF TypeOK, ClockType, KeptType, slots
  <2>5. Phase'
    BY <1>0, <2>1 DEF Inv, Phase, Idle, TypeOK, TimeType, None
  <2>6. QuietArmed' /\ BarAligned'
    BY <2>1 DEF Inv, QuietArmed, BarAligned, slots, Aligned
  <2>8. TimerCovers'
    BY <2>1 DEF TimerCovers, Covered
  <2>. QED
    BY <2>2, <2>3, <2>4, <2>5, <2>6, <2>8 DEF Inv, TypeOK
<1>9. CASE OnPatchbayTimer
  <2>1. mode = "live" /\ Tick(Now) /\ ServerFrame /\ UNCHANGED <<target, import>>
        /\ Reschedule(bar', window', clock', Now)
    BY <1>9 DEF OnPatchbayTimer
  <2>2. KeptType(bar, window, held)' /\ ClockType' /\ Now \in Nat
    BY <1>0, <2>1, TickKeeps DEF ServerFrame
  <2>3. timer' \in {None} \cup Nat /\ gap' = "none" /\ Covered'
    BY <1>0, <2>1, <2>2, RescheduleCovers DEF ServerFrame
  <2>4. TypeOK' /\ Phase' /\ QuietArmed' /\ BarAligned'
    BY <2>1, <2>2, <2>3, TickStep
  <2>. QED
    BY <2>3, <2>4 DEF Inv, TimerCovers
<1>10. CASE Advance
  <2>1. /\ UNCHANGED <<source, boot, offset, mode, restarts, stream, floor, loadOk, arrived, target,
                       slots, timer, gap, saved, lastPub>>
        /\ t' = t + 1 /\ t < MaxTime /\ emitted' = {}
    BY <1>10 DEF Advance, import
  <2>2. TimeType'
    <3>1. 0 .. t \subseteq 0 .. t' /\ t' \in 0 .. MaxTime /\ boot \in 0 .. t'
      BY <1>0, <2>1, ConfigAssumption DEF TypeOK, TimeType
    <3>2. floor \in [1 .. Streams -> 0 .. t'] /\ lastPub \in [Quiet -> {None} \cup (0 .. t')]
      BY <1>0, <3>1 DEF TypeOK, TimeType
    <3>. QED
      BY <1>0, <2>1, <3>1, <3>2 DEF TypeOK, TimeType
  <2>3. ModeType'
    BY <1>0, <2>1, Zenon DEF TypeOK, ModeType, slots
  <2>4. ClockType'
    BY <1>0, <2>1, Zenon DEF TypeOK, ClockType, slots
  <2>5. \A b, w, h : KeptType(b, w, h) =>
           /\ b.on \in BOOLEAN
           /\ b.start \in 0 .. t'
           /\ ~b.on => b.start = 0
           /\ w \in Seq(0 .. t')
           /\ h \in {None} \cup (0 .. t')
    <3>. SUFFICES ASSUME NEW b, NEW w, NEW h, KeptType(b, w, h)
                  PROVE  /\ b.on \in BOOLEAN
                         /\ b.start \in 0 .. t'
                         /\ ~b.on => b.start = 0
                         /\ w \in Seq(0 .. t')
                         /\ h \in {None} \cup (0 .. t')
      OBVIOUS
    <3>1. 0 .. t \subseteq 0 .. t'
      BY <1>0, <2>1
    <3>2. w \in Seq(0 .. t)
      BY DEF KeptType
    <3>3. w \in Seq(0 .. t')
      BY <3>1, <3>2, SeqMonotonic
    <3>. QED
      BY <3>1, <3>3, Zenon DEF KeptType
  <2>6. KeptType(bar, window, held)' /\ KeptType(saved.bar, saved.window, saved.held)'
    <3>1. UNCHANGED <<bar, window, held, saved>>
      BY <2>1 DEF slots
    <3>. QED
      BY <1>0, <2>5, <3>1, Zenon DEF TypeOK, KeptType
  <2>7. Phase'
    BY <2>1 DEF Inv, Phase, Idle, slots
  <2>8. QuietArmed' /\ BarAligned'
    BY <2>1 DEF Inv, QuietArmed, BarAligned, slots, Aligned
  <2>9. TimerCovers'
    <3>. DEFINE ds == Deadlines(bar, window, clock)
    <3>1. UNCHANGED <<bar, window, clock, mode, target, timer, gap, offset>>
      BY <2>1 DEF slots
    <3>2. ds' = ds
      BY <3>1 DEF Deadlines
    <3>3. Now' = Now + 1
      BY <1>0, <2>1 DEF Now, UvNow, TypeOK, TimeType
    <3>4. ds \in SUBSET Nat
      BY <1>0, Basics, DeadlinesNat
    <3>. SUFFICES ASSUME gap = "none", mode = "live", Idle, ds # {}
                  PROVE  timer # None /\ timer + offset <= Max({Min(ds), Now + 1})
      BY <3>1, <3>2, <3>3 DEF TimerCovers, Covered, Idle
    <3>5. timer # None /\ timer + offset <= Max({Min(ds), Now})
      BY DEF Inv, TimerCovers, Covered
    <3>6. Min(ds) \in Nat
      BY <3>4, MinOfNats
    <3>7. Max({Min(ds), Now}) = IF Min(ds) >= Now THEN Min(ds) ELSE Now
      BY <1>0, <3>6, MaxOfTwo
    <3>8. Max({Min(ds), Now + 1}) = IF Min(ds) >= Now + 1 THEN Min(ds) ELSE Now + 1
      BY <1>0, <3>6, MaxOfTwo
    <3>9. timer \in Nat
      BY <1>1, <3>5
    <3>. HIDE DEF ds
    <3>. QED
      BY <1>0, <3>5, <3>6, <3>7, <3>8, <3>9
  <2>. QED
    BY <2>2, <2>3, <2>4, <2>6, <2>7, <2>8, <2>9 DEF Inv, TypeOK
<1>11. CASE WriteSnapshot
  <2>1. /\ UNCHANGED <<source, t, boot, offset, mode, restarts, stream, floor, loadOk, arrived, target,
                       slots, timer, gap, lastPub>>
        /\ emitted' = {} /\ saved' = Snapshot
    BY <1>11 DEF WriteSnapshot, import
  <2>2. TimeType'
    BY <1>0, <2>1 DEF TypeOK, TimeType
  <2>3. ModeType'
    BY <1>0, <2>1, Zenon DEF TypeOK, ModeType, slots
  <2>4. ClockType' /\ KeptType(bar, window, held)'
    BY <1>0, <2>1, Zenon DEF TypeOK, ClockType, KeptType, slots
  <2>5. KeptType(saved.bar, saved.window, saved.held)'
    <3>1. saved'.bar = bar /\ saved'.window = window /\ saved'.held = held /\ t' = t
      BY <2>1 DEF Snapshot
    <3>. QED
      BY <1>0, <3>1, Zenon DEF TypeOK, KeptType
  <2>6. Phase' /\ QuietArmed'
    BY <2>1 DEF Inv, Phase, Idle, QuietArmed, slots
  <2>8. BarAligned'
    BY <2>1 DEF Inv, BarAligned, Snapshot, slots, Aligned
  <2>7. TimerCovers'
    BY <2>1 DEF Inv, TimerCovers, Covered, slots, Idle, Deadlines, Now, UvNow
  <2>. QED
    BY <2>2, <2>3, <2>4, <2>5, <2>6, <2>7, <2>8 DEF Inv, TypeOK
<1>12. CASE Stop
  <2>1. /\ mode' = "down" /\ saved' \in {saved, Snapshot} /\ restarts < MaxRestarts[source]
        /\ bar' = NoBar /\ window' = <<>> /\ held' = None /\ clock' = Unarmed
        /\ timer' = None /\ offset' = 0 /\ lastPub' = Unseen /\ emitted' = {} /\ gap' = "none"
        /\ stream' = 1 /\ floor' = NoFloor /\ loadOk' = TRUE /\ target' = None
        /\ UNCHANGED <<source, t, boot, restarts, arrived>>
    BY <1>12 DEF Stop
  <2>2. TimeType'
    <3>1. 1 \in 1 .. Streams /\ NoFloor \in [1 .. Streams -> 0 .. t] /\ Unseen \in [Quiet -> {None} \cup (0 .. t)]
      BY <1>0, ConfigAssumption DEF NoFloor, Unseen
    <3>. QED
      BY <1>0, <2>1, <3>1 DEF TypeOK, TimeType
  <2>3. ModeType'
    <3>1. aggregated' = FALSE /\ lost' = FALSE
      BY <1>12 DEF Stop
    <3>. QED
      BY <1>0, <2>1, <3>1 DEF TypeOK, ModeType
  <2>4. ClockType' /\ \A f \in ClockForms : ~clock'[f].armed
    BY <2>1 DEF ClockType, Unarmed
  <2>5. KeptType(bar, window, held)'
    <3>1. bar'.on = FALSE /\ bar'.start = 0 /\ 0 \in 0 .. t'
      BY <1>0, <2>1 DEF NoBar
    <3>2. <<>> \in Seq(0 .. t')
      OBVIOUS
    <3>. QED
      BY <2>1, <3>1, <3>2 DEF KeptType
  <2>6. KeptType(saved.bar, saved.window, saved.held)'
    <3>1. CASE saved' = saved
      BY <1>0, <2>1, <3>1, Zenon DEF TypeOK, KeptType
    <3>2. CASE saved' = Snapshot
      <4>1. saved'.bar = bar /\ saved'.window = window /\ saved'.held = held /\ t' = t
        BY <2>1, <3>2 DEF Snapshot
      <4>. QED
        BY <1>0, <4>1, Zenon DEF TypeOK, KeptType
    <3>. QED
      BY <2>1, <3>1, <3>2
  <2>7. Phase'
    BY <2>1, <2>4 DEF Phase, Idle
  <2>8. QuietArmed'
    BY <2>4 DEF QuietArmed, Quiet, ClockForms
  <2>9. BarAligned' /\ TimerCovers'
    BY <2>1 DEF Inv, BarAligned, Aligned, Snapshot, NoBar, TimerCovers, Covered
  <2>. QED
    BY <2>2, <2>3, <2>4, <2>5, <2>6, <2>7, <2>8, <2>9 DEF Inv, TypeOK
<1>13. CASE Restart
  <2>1. /\ restarts' = restarts + 1 /\ boot' \in {boot, t}
        /\ mode' = (IF source = "jetstream" THEN "loading" ELSE "live")
        /\ bar' = saved.bar /\ window' = saved.window /\ held' = saved.held
        /\ emitted' = {} /\ gap' = "warm_start" /\ timer' = timer
        /\ UNCHANGED <<source, t, offset, stream, floor, loadOk, arrived, target, clock, aggregated,
                       lost, saved, lastPub>>
    BY <1>13 DEF Restart, TimerLeft, import
  <2>2. offset = 0 /\ Idle /\ (\A f \in ClockForms : ~clock[f].armed) /\ restarts < MaxRestarts[source]
    BY <1>0, <1>13 DEF Restart, Inv, Phase, TypeOK, ModeType
  <2>3. TimeType'
    BY <1>0, <2>1, <2>2 DEF TypeOK, TimeType
  <2>4. restarts' \in 0 .. MaxRestarts[source]
    BY <1>0, <2>1, <2>2, ConfigAssumption DEF TypeOK, ModeType
  <2>5. ModeType'
    BY <1>0, <2>1, <2>4 DEF TypeOK, ModeType
  <2>6. ClockType' /\ KeptType(saved.bar, saved.window, saved.held)' /\ KeptType(bar, window, held)'
    BY <1>0, <2>1, Zenon DEF TypeOK, ClockType, KeptType
  <2>7. Phase'
    BY <2>1, <2>2 DEF Phase, Idle
  <2>8. QuietArmed'
    BY <2>1, <2>2 DEF QuietArmed, Quiet, ClockForms
  <2>9. BarAligned' /\ TimerCovers'
    BY <2>1 DEF Inv, BarAligned, Aligned, TimerCovers
  <2>. QED
    BY <2>3, <2>5, <2>6, <2>7, <2>8, <2>9 DEF Inv, TypeOK
<1>14. CASE UNCHANGED vars
  <2>1. UNCHANGED <<source, t, boot, offset, mode, restarts, stream, floor, loadOk, arrived, target, bar,
                    window, held, clock, aggregated, lost, timer, saved, gap, emitted, lastPub>>
    BY <1>14 DEF vars, slots, import
  <2>2. TypeOK'
    <3>1. TimeType' /\ ModeType'
      BY <1>0, <2>1 DEF TypeOK, TimeType, ModeType
    <3>2. ClockType' /\ KeptType(bar, window, held)' /\ KeptType(saved.bar, saved.window, saved.held)'
      BY <1>0, <2>1, Zenon DEF TypeOK, ClockType, KeptType
    <3>. QED
      BY <3>1, <3>2 DEF TypeOK
  <2>3. Phase' /\ QuietArmed' /\ BarAligned'
    BY <2>1 DEF Inv, Phase, Idle, QuietArmed, BarAligned, Aligned
  <2>4. TimerCovers'
    BY <2>1 DEF Inv, TimerCovers, Covered, Idle, Deadlines, Now, UvNow
  <2>. QED
    BY <2>2, <2>3, <2>4 DEF Inv
<1>. QED
  BY <1>3, <1>4, <1>5, <1>6, <1>7, <1>8, <1>9, <1>10, <1>11, <1>12, <1>13, <1>14 DEF Next, TimeUp

-----------------------------------------------------------------------------
(* Theorems.                                                               *)

\* Inv holds in every reachable state, for all intervals, sources and restarts.
THEOREM Invariance == Spec => []Inv
<1>1. Init => Inv
  <2>. SUFFICES ASSUME Init PROVE Inv
    OBVIOUS
  <2>0. source \in Sources /\ MaxRestarts[source] \in Nat /\ MaxTime \in Nat
    BY ConfigAssumption DEF Init
  <2>1. TimeType
    <3>1. 1 \in 1 .. Streams /\ NoFloor \in [1 .. Streams -> {0}] /\ Unseen \in [Quiet -> {None}]
      BY ConfigAssumption DEF NoFloor, Unseen
    <3>2. 0 \in 0 .. MaxArrivals
      BY ConfigAssumption
    <3>. QED
      BY <2>0, <3>1, <3>2 DEF Init, TimeType
  <2>2. ModeType
    <3>1. loadOk \in BOOLEAN /\ aggregated \in BOOLEAN /\ lost \in BOOLEAN
      BY DEF Init
    <3>2. mode \in {"loading", "live"} /\ gap = "none" /\ emitted = {}
      BY DEF Init
    <3>3. restarts \in 0 .. MaxRestarts[source]
      BY <2>0 DEF Init
    <3>. QED
      BY <2>0, <3>1, <3>2, <3>3 DEF ModeType
  <2>3. ClockType /\ \A f \in ClockForms : ~clock[f].armed
    BY DEF Init, ClockType, Unarmed
  <2>4. <<>> \in Seq(0 .. t) /\ 0 \in 0 .. t
    BY DEF Init
  <2>5. /\ bar.on = FALSE
        /\ bar.start = 0
    BY DEF Init, NoBar
  <2>6. /\ saved.bar.on = FALSE
        /\ saved.bar.start = 0 /\ saved.window = <<>> /\ saved.held = None
    BY DEF Init, NoBar
  <2>7. window = <<>> /\ held = None
    BY DEF Init
  <2>8. KeptType(bar, window, held) /\ KeptType(saved.bar, saved.window, saved.held)
    BY <2>4, <2>5, <2>6, <2>7 DEF KeptType
  <2>9. Phase
    BY DEF Init, Phase, Idle
  <2>10. QuietArmed
    BY <2>3 DEF QuietArmed, Quiet, ClockForms
  <2>11. BarAligned
    BY <2>5, <2>6 DEF BarAligned
  <2>12. Deadlines(bar, window, clock) = {}
    BY <2>3, <2>5, <2>7 DEF Deadlines
  <2>13. TimerCovers
    BY <2>12 DEF TimerCovers, Covered
  <2>. QED
    BY <2>1, <2>2, <2>3, <2>8, <2>9, <2>10, <2>11, <2>13 DEF Inv, TypeOK
<1>2. Inv /\ [Next]_vars => Inv'
  BY StepInv
<1>. QED
  BY <1>1, <1>2, PTL DEF Spec

\* The timer, the slots and the snapshot keep their types; in particular no slot's time lies
\* in the future of real time.
THEOREM TypeCorrect == Spec => []TypeOK
<1>1. Inv => TypeOK
  BY DEF Inv
<1>. QED
  BY <1>1, Invariance, PTL

\* Outside the three paths that gap names, an idle live server's one timer fires no later
\* than the earliest deadline of any slot, however messages, ticks, snapshots and restarts follow.
THEOREM TimerCoversDeadlines == Spec => []TimerCovers
<1>1. Inv => TimerCovers
  BY DEF Inv
<1>. QED
  BY <1>1, Invariance, PTL

\* A tick taken when the earliest deadline is due leaves only later deadlines, so neither
\* tick_until nor a timer restarted with no delay repeats a deadline for ever.
THEOREM TicksProgress == Spec => TickProgress
<1>1. ASSUME Inv, OnPatchbayTimer \/ TickUntil, Deadlines(bar, window, clock) # {},
             Min(Deadlines(bar, window, clock)) <= TickTime
      PROVE  \A d \in Deadlines(bar', window', clock') : d > Min(Deadlines(bar, window, clock))
  <2>. DEFINE ds == Deadlines(bar, window, clock)
  <2>0. TypeOK /\ Now \in Nat
    <3>1. TypeOK
      BY <1>1 DEF Inv
    <3>. QED
      BY <3>1, NowBehind
  <2>1. ds \in SUBSET Nat
    BY <2>0, Basics, DeadlinesNat
  <2>2. Min(ds) \in ds /\ Min(ds) \in Nat /\ \A y \in ds : Min(ds) <= y
    BY <1>1, <2>1, MinOfNats
  <2>3. PICK now \in Nat : Tick(now) /\ now >= Min(ds) /\ t' = t
    <3>1. CASE OnPatchbayTimer
      BY <1>1, <2>0, <2>2, <3>1 DEF OnPatchbayTimer, TickTime, ServerFrame
    <3>2. CASE TickUntil
      <4>1. PICK d \in ds : Tick(d)
        BY <3>2 DEF TickUntil
      <4>. QED
        BY <2>1, <2>2, <3>2, <4>1 DEF TickUntil, ServerFrame
    <3>. QED
      BY <1>1, <3>1, <3>2
  <2>4. \A f \in ClockForms : clock[f].armed => clock[f].deadline \in ds
    BY DEF Deadlines
  <2>. SUFFICES ASSUME NEW d \in Deadlines(bar', window', clock') PROVE d > Min(ds)
    OBVIOUS
  <2>5. \/ d > now
        \/ \E f \in ClockForms : clock[f].armed /\ d = clock[f].deadline + Interval[f]
    BY <2>0, <2>3, TickKeeps
  <2>6. d \in Nat
    <3>1. KeptType(bar, window, held)' /\ ClockType' /\ t' \in Nat
      BY <2>0, <2>3, TickKeeps, Basics
    <3>2. bar'.start \in 0 .. t' /\ window' \in Seq(0 .. t')
      BY <3>1, Zenon DEF KeptType
    <3>3. clock' \in [ClockForms -> [armed : BOOLEAN, deadline : Nat]]
      BY <3>1 DEF ClockType
    <3>. QED
      BY <3>1, <3>2, <3>3, DeadlinesNat
  <2>. HIDE DEF ds
  <2>7. CASE d > now
    BY <2>2, <2>3, <2>6, <2>7
  <2>8. CASE \E f \in ClockForms : clock[f].armed /\ d = clock[f].deadline + Interval[f]
    <3>1. PICK f \in ClockForms : clock[f].armed /\ d = clock[f].deadline + Interval[f]
      BY <2>8
    <3>2. Min(ds) <= clock[f].deadline /\ Interval[f] \in Nat /\ Interval[f] > 0 /\ clock[f].deadline \in Nat
      BY <2>0, <2>2, <2>4, <3>1, Basics
    <3>. QED
      BY <2>2, <3>1, <3>2
  <2>. QED
    BY <2>5, <2>7, <2>8
<1>2. Inv /\ [Next]_vars =>
        [(OnPatchbayTimer \/ TickUntil) /\ Deadlines(bar, window, clock) # {}
            /\ Min(Deadlines(bar, window, clock)) <= TickTime
            => \A d \in Deadlines(bar', window', clock') : d > Min(Deadlines(bar, window, clock))]_vars
  BY <1>1
<1>. QED
  BY <1>2, Invariance, PTL DEF Spec, TickProgress

\* debounce!, on-silence and the loss of a dropout come only after a whole interval of quiet.
THEOREM QuietFormsWait == Spec => QuietForms
<1>1. ASSUME Inv, Next, NEW f \in Quiet, f \in emitted', ~UNCHANGED vars
      PROVE  TickTime - lastPub[f] >= Interval[f]
  <2>0. TypeOK /\ QuietArmed /\ Now \in 0 .. t /\ t \in Nat
    <3>1. TypeOK /\ QuietArmed
      BY <1>1 DEF Inv
    <3>. QED
      BY <3>1, NowBehind
  <2>1. f \in ClockForms /\ f \notin {"bar", "holdoff", "found"}
    BY <1>1 DEF Quiet, ClockForms
  <2>2. ASSUME NEW now \in 0 .. t, NEW done, Eval(now, done), ServerFrame
        PROVE  FALSE
    BY <1>1, <2>0, <2>1, <2>2, EvalKeeps DEF ServerFrame
  <2>3. ASSUME NEW now \in Nat, Tick(now), ServerFrame, now = TickTime
        PROVE  TickTime - lastPub[f] >= Interval[f]
    <3>1. clock[f].armed /\ now >= clock[f].deadline
      BY <1>1, <2>0, <2>1, <2>3, TickKeeps DEF ServerFrame
    <3>2. clock[f].deadline = lastPub[f] + Interval[f]
      BY <1>1, <2>0, <3>1 DEF QuietArmed
    <3>3. lastPub[f] \in Int
      BY <1>1, <2>0 DEF TypeOK, TimeType, None
    <3>4. Interval[f] \in Nat
      BY <2>1, Intervals DEF Forms
    <3>. QED
      BY <2>3, <3>1, <3>2, <3>3, <3>4
  <2>4. CASE ClientPublish \/ ImportIngress
    BY <2>0, <2>2, <2>4 DEF ClientPublish, ImportIngress, Message
  <2>5. CASE JetStreamEval
    <3>1. target \in 0 .. t
      BY <2>0, <2>5 DEF JetStreamEval, Idle, TypeOK, TimeType, ModeType
    <3>. QED
      BY <2>2, <2>5, <3>1 DEF JetStreamEval, Message
  <2>6. CASE OnPatchbayTimer
    BY <2>0, <2>3, <2>6 DEF OnPatchbayTimer, TickTime
  <2>7. CASE TickUntil
    <3>. DEFINE ds == Deadlines(bar, window, clock)
    <3>1. ds \in SUBSET Nat
      BY <2>0, Basics, DeadlinesNat
    <3>2. PICK d \in ds : Tick(d) /\ \A x \in ds : d <= x
      BY <2>7 DEF TickUntil
    <3>3. Min(ds) \in ds /\ \A y \in ds : Min(ds) <= y
      BY <3>1, <3>2, MinOfNats
    <3>4. d = Min(ds)
      BY <3>1, <3>2, <3>3
    <3>5. d = TickTime
      BY <2>7, <3>4 DEF TickTime, TickUntil
    <3>. QED
      BY <2>3, <2>7, <3>1, <3>2, <3>5 DEF TickUntil
  <2>8. CASE JetStreamArrives \/ StreamCaughtUp \/ TransitionBegins \/ TransitionEnds \/ Advance
             \/ WriteSnapshot \/ Stop \/ Restart
    BY <1>1, <2>8
    DEF JetStreamArrives, StreamCaughtUp, TransitionBegins, TransitionEnds, Advance, WriteSnapshot, Stop, Restart
  <2>9. ~TimeUp
    BY <1>1 DEF TimeUp
  <2>. QED
    BY <1>1, <2>4, <2>5, <2>6, <2>7, <2>8, <2>9 DEF Next
<1>2. Inv /\ [Next]_vars =>
        [\A f \in Quiet : f \in emitted' => TickTime - lastPub[f] >= Interval[f]]_vars
  BY <1>1
<1>. QED
  BY <1>2, Invariance, PTL DEF Spec, QuietForms, Quiet

\* For any number of streams, restarts and event times that run backwards, a JetStream message
\* closes a bar only if it is older than that bar: a bar that its time should have closed was
\* closed by tick_until, because bars start where intervals do.
THEOREM BarsCloseByTick == Spec => BarsClosedByTick
<1>1. ASSUME Inv, JetStreamEval, "bar" \in emitted'
      PROVE  target < bar.start
  <2>. SUFFICES ASSUME ~(target < bar.start) PROVE FALSE
    OBVIOUS
  <2>0. TypeOK /\ t \in Nat
    <3>1. TypeOK
      BY <1>1 DEF Inv
    <3>. QED
      BY <3>1, NowBehind
  <2>1. target \in 0 .. t
    BY <1>1, <2>0 DEF JetStreamEval, Idle, TypeOK, TimeType
  <2>2. PICK done \in Outcomes : Eval(target, done) /\ t' = t
    BY <1>1 DEF JetStreamEval, Message, ServerFrame
  <2>3. bar.on /\ bar.start # Aligned(target)
    BY <1>1, <2>0, <2>1, <2>2, EvalKeeps
  <2>4. bar.start = Aligned(bar.start)
    BY <1>1, <2>3 DEF Inv, BarAligned
  <2>5. bar.start + Interval["bar"] > target
    BY <1>1, <2>3 DEF JetStreamEval, CaughtUpWithTarget, Deadlines
  <2>6. bar.start \in Nat /\ Interval["bar"] \in Nat /\ Interval["bar"] > 0
    BY <2>0, Basics
  <2>7. target \in Nat /\ bar.start <= target /\ target < bar.start + Interval["bar"]
    BY <2>0, <2>1, <2>5, <2>6
  <2>8. bar.start = Aligned(target)
    BY <2>4, <2>6, <2>7, RoundUnique DEF Aligned
  <2>. QED
    BY <2>3, <2>8
<1>2. Inv /\ [Next]_vars => [JetStreamEval /\ "bar" \in emitted' => target < bar.start]_vars
  BY <1>1
<1>. QED
  BY <1>2, Invariance, PTL DEF Spec, BarsClosedByTick
=============================================================================
