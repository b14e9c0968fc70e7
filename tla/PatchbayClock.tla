--------------------------- MODULE PatchbayClock ---------------------------
(***************************************************************************)
(* Patchbay's clocked state and the one timer that drives it: the time     *)
(* windows (pb_form_windows.c), time bars (pb_form_bar.c), hold-off        *)
(* (pb_form_state.c) and clock forms (pb_form_clocks.c) of the rules on    *)
(* one subject, the tick that closes what is due                           *)
(* (pb_program.c), the rescheduling of the libuv timer (server.c), the     *)
(* three ways a message gets in (client publish, core import, JetStream)   *)
(* and restarts that restore the slots a snapshot keeps (snapshot.c).      *)
(* Several JetStream streams have an event time each and share the slots:  *)
(* they are caught up with one after the other, and then all are live.     *)
(*                                                                         *)
(* t is real time.  uv_now counts from the boot of the machine; patchbay's *)
(* clock is uv_now plus the offset main.c sets after a JetStream catch-up. *)
(* Everything runs on the event loop, so a handler is atomic except for    *)
(* the tick_until loop, whose iterations are steps of their own.           *)
(***************************************************************************)
EXTENDS Integers, Sequences, FiniteSetsExt

CONSTANTS Sources,     \* where the messages of a behaviour may come from
          Streams,     \* how many streams a JetStream configuration has
          Outcomes,    \* which forms' slots a message may reach: a rule's conditions keep it
                       \* from some, and a rule that fails from those after the failure
          Interval,    \* the interval of each form, in ms
          MaxTime,     \* bound: real time
          MaxArrivals, \* bound: JetStream messages
          MaxRestarts, \* bound, per source: restarts with a snapshot
          Reboots      \* whether a restart may be a reboot of the machine

ClockForms == {"debounce", "sample", "aggregate", "silence", "dropout"}
Quiet == {"debounce", "silence", "dropout"}     \* those that wait for an interval of quiet
Forms == ClockForms \cup {"bar", "window", "holdoff"}
None == -1

ASSUME ConfigAssumption ==
       /\ Sources \subseteq {"client", "import", "jetstream"}
       /\ Streams \in Nat \ {0} /\ Outcomes \subseteq SUBSET Forms
       /\ Interval \in [Forms -> Nat \ {0}]
       /\ MaxTime \in Nat /\ MaxArrivals \in Nat
       /\ MaxRestarts \in [Sources -> Nat] /\ Reboots \in BOOLEAN

VARIABLES
    source,              \* where this behaviour's messages come from
    t, boot, offset,     \* real time, boot time, patchbay_clock_offset_ms
    mode,                \* "loading", "transition", "live", "down"
    restarts,
    stream,              \* the stream that is caught up with, or of the message being ingested
    floor,               \* last_event_wall_ms of each stream, 0 before the first
    loadOk,              \* no message of the loading phase has failed
    arrived,             \* JetStream messages so far
    target,              \* a JetStream message being ingested: its event time
    bar,                 \* [on |-> bar_count > 0, start |-> bar_window_start_ms]
    window,              \* ring_times_ms of a time window, in arrival order
    held,                \* hold-off: time of the last pass, None on first sight
    clock,               \* clock_armed and clock_deadline_ms of the clock forms
    aggregated,          \* the aggregate has samples (ring_len > 0)
    lost,                \* dropout_lost
    timer,               \* uv_now at which patchbay_timer fires, None when stopped
    saved,               \* the snapshot file
    gap,                 \* history: the path that last left the timer alone, if none since
                         \* has rescheduled it
    emitted,             \* history: forms that published in the last step
    lastPub              \* history: patchbay time of the last message of a form in Quiet

slots == <<bar, window, held, clock, aggregated, lost>>
import == <<stream, floor, loadOk, arrived>>
vars == <<source, t, boot, offset, mode, restarts, import, target, slots, timer, saved,
          gap, emitted, lastPub>>

UvNow == t - boot
Now   == UvNow + offset
Idle  == target = None

NoBar == [on |-> FALSE, start |-> 0]
Unarmed == [f \in ClockForms |-> [armed |-> FALSE, deadline |-> 0]]
NoFloor == [s \in 1 .. Streams |-> 0]
Unseen == [f \in Quiet |-> None]

-----------------------------------------------------------------------------
(* Deadlines: entry_deadline and pb_program_next_clock_deadline.           *)

\* Mutant: the window's deadline is the last moment the oldest sample is still in it.
Deadlines_NoPlusOne(b, w, c) ==
    (IF b.on THEN {b.start + Interval["bar"]} ELSE {})
    \cup (IF w # <<>> THEN {Head(w) + Interval["window"]} ELSE {})
    \cup {c[f].deadline : f \in {g \in ClockForms : c[g].armed}}

Deadlines(b, w, c) ==
    (IF b.on THEN {b.start + Interval["bar"]} ELSE {})
    \cup (IF w # <<>> THEN {Head(w) + Interval["window"] + 1} ELSE {})
    \cup {c[f].deadline : f \in {g \in ClockForms : c[g].armed}}

\* mb_server_reschedule_patchbay_clock, for the slots b, w, c at patchbay time now.
Reschedule(b, w, c, now) ==
    LET ds == Deadlines(b, w, c)
    IN  /\ timer' = IF ds = {} THEN None ELSE UvNow + Max({0, Min(ds) - now})
        /\ gap' = "none"

TimerLeft(path) == UNCHANGED timer /\ gap' = path

-----------------------------------------------------------------------------
(* Evaluation of a message by the rules, in rule order, at patchbay time   *)
(* now.  A rule that fails (a payload that is no number, a refused         *)
(* publish) leaves the slots it has not come to alone, and the other rules *)
(* still run: done are the forms whose slot the message reaches.  A bar    *)
(* and a hold-off change their slot before they publish.                   *)

\* bar_time_update
BarUpdate(now) ==
    LET aligned == (now \div Interval["bar"]) * Interval["bar"]
    IN  [on |-> TRUE, start |-> IF bar.on /\ bar.start = aligned THEN bar.start ELSE aligned]
BarClosesOn(now) == bar.on /\ bar.start # (now \div Interval["bar"]) * Interval["bar"]

\* ring_evict_time with the cutoff of window_push and pb_eval_tick_state_entry.
Evict(w, now) ==
    LET cutoff == IF now > Interval["window"] THEN now - Interval["window"] ELSE 0
        stops == {k \in 0 .. Len(w) : k < Len(w) => w[k + 1] >= cutoff}
    IN  SubSeq(w, Min(stops) + 1, Len(w))

\* ring_push_time, samples of the same millisecond taken together.
PushTime(w, now) == IF w # <<>> /\ w[Len(w)] = now THEN w ELSE Append(w, now)

\* Mutant: debounce keeps its first deadline.
ClockUpdate_NoReset(now, done) ==
    [f \in ClockForms |->
        IF f \notin done THEN clock[f]
        ELSE [armed    |-> TRUE,
              deadline |-> IF f \in {"silence", "dropout"} \/ ~clock[f].armed
                           THEN now + Interval[f] ELSE clock[f].deadline]]

\* retain_publish (debounce!, sample!), aggregate!, on-silence, dropout: debounce,
\* silence and dropout restart their interval, sample and aggregate keep theirs.
ClockUpdate(now, done) ==
    [f \in ClockForms |->
        IF f \notin done THEN clock[f]
        ELSE [armed    |-> TRUE,
              deadline |-> IF f \in Quiet \/ clock[f].deadline = 0
                           THEN now + Interval[f] ELSE clock[f].deadline]]

\* call_hold_off
HoldOffPasses(now) ==
    held = None \/ (now >= held /\ now - held >= Interval["holdoff"])

\* eval_publish_slices over the rules.
Eval(now, done) ==
    /\ bar' = IF "bar" \in done THEN BarUpdate(now) ELSE bar
    /\ window' = IF "window" \in done THEN PushTime(Evict(window, now), now) ELSE window
    /\ clock' = ClockUpdate(now, done)
    /\ aggregated' = (aggregated \/ "aggregate" \in done)
    /\ held' = IF "holdoff" \in done /\ HoldOffPasses(now) THEN now ELSE held
    /\ lost' = (lost /\ "dropout" \notin done)
    /\ emitted' = {f \in {"bar"} \cap done : BarClosesOn(now)}
                  \cup {f \in {"holdoff"} \cap done : HoldOffPasses(now)}
                  \cup (IF lost /\ "dropout" \in done THEN {"found"} ELSE {})
    /\ lastPub' = [f \in Quiet |-> IF f \in done THEN now ELSE lastPub[f]]

-----------------------------------------------------------------------------
(* pb_program_tick_with_options at patchbay time now.                      *)

Due(f, now) == clock[f].armed /\ now >= clock[f].deadline

\* bar_time_tick: now - start is computed modulo 2^64, so a start in the future closes.
BarTickCloses(now) == bar.on /\ ~(bar.start <= now /\ now - bar.start < Interval["bar"])

\* tick_clock_state_entry
ClockTick(now) ==
    [f \in ClockForms |->
        IF ~Due(f, now) THEN clock[f]
        ELSE IF f \in {"sample", "aggregate"}
             THEN [clock[f] EXCEPT !.deadline = @ + Interval[f]]
             ELSE [clock[f] EXCEPT !.armed = FALSE]]

\* pb_program_tick_with_options over the slots.
Tick(now) ==
    /\ bar' = IF BarTickCloses(now) THEN NoBar ELSE bar
    /\ window' = Evict(window, now)
    /\ clock' = ClockTick(now)
    /\ aggregated' = (aggregated /\ ~Due("aggregate", now))
    /\ lost' = (lost \/ Due("dropout", now))
    /\ emitted' = {f \in ClockForms : Due(f, now) /\ (f = "aggregate" => aggregated)}
                  \cup (IF BarTickCloses(now) THEN {"bar"} ELSE {})
    /\ UNCHANGED <<held, lastPub>>

-----------------------------------------------------------------------------
(* The server: messages, the timer, time.                                  *)

ServerFrame == UNCHANGED <<source, t, boot, offset, mode, restarts, saved>>

\* Mutant: the timer is rescheduled only while it is not running.
Message_KeepTimer(now, done) ==
    /\ Eval(now, done)
    /\ IF timer = None THEN Reschedule(bar', window', clock', Now) ELSE TimerLeft("none")

\* A message was evaluated and the clock is rescheduled.
Message(now, done) ==
    /\ Eval(now, done)
    /\ Reschedule(bar', window', clock', Now)

\* mb_server_client_publish: after a failed evaluation the timer is left alone.
ClientPublish ==
    /\ source = "client" /\ mode = "live"
    /\ \E done \in Outcomes : \/ Message(Now, done)
                              \/ Eval(Now, done) /\ TimerLeft("failed_rule")
    /\ UNCHANGED <<import, target>>
    /\ ServerFrame

\* import_ingress
ImportIngress ==
    /\ source = "import" /\ mode = "live"
    /\ \E done \in Outcomes : Message(Now, done)
    /\ UNCHANGED <<import, target>>
    /\ ServerFrame

\* A JetStream message reaches jetstream_ingress: of the stream that is being caught up with,
\* or, live, of any.  Its stored time is not in the future, and event_time_from_msg has clamped
\* it to the floor of its own stream.
JetStreamArrives ==
    /\ source = "jetstream" /\ mode \in {"loading", "live"} /\ Idle
    /\ arrived < MaxArrivals /\ arrived' = arrived + 1
    /\ stream' \in IF mode = "loading" THEN {stream} ELSE 1 .. Streams
    /\ target' \in floor[stream'] .. t
    /\ emitted' = {}
    /\ UNCHANGED <<floor, loadOk, slots, timer, gap, lastPub>>
    /\ ServerFrame

\* One iteration of pb_program_tick_until: a tick at the earliest deadline.
TickUntil ==
    /\ ~Idle
    /\ \E d \in Deadlines(bar, window, clock) :
          /\ d <= target /\ \A x \in Deadlines(bar, window, clock) : d <= x
          /\ Tick(d)
    /\ UNCHANGED <<import, target, timer, gap>>
    /\ ServerFrame

\* Mutant: the message is evaluated before what was due by its time.
CaughtUpWithTarget_Skip == TRUE

CaughtUpWithTarget == \A d \in Deadlines(bar, window, clock) : d > target

\* js_stream_process_msg after the handler: ok unless a rule or the acknowledgement failed.
\* Only an acknowledged message moves the floor of its stream; in the loading phase a failure
\* ends the start, once the messages already fetched are through.
Processed(ok) ==
    /\ floor' = IF ok THEN [floor EXCEPT ![stream] = target] ELSE floor
    /\ loadOk' = (loadOk /\ (ok \/ mode = "live"))
    /\ stream' = IF mode = "loading" THEN stream ELSE 1
    /\ UNCHANGED arrived

\* ... then the evaluation; the clock is rescheduled only in live mode.
JetStreamEval ==
    /\ ~Idle /\ mode # "transition" /\ CaughtUpWithTarget
    /\ \E done \in Outcomes : IF mode = "live" THEN Message(target, done)
                               ELSE Eval(target, done) /\ UNCHANGED <<timer, gap>>
    /\ \E ok \in BOOLEAN : Processed(ok)
    /\ target' = None
    /\ ServerFrame

\* js_stream_catch_up of one stream returns, and mb_js_importer_start goes on to the next.
StreamCaughtUp ==
    /\ mode = "loading" /\ Idle /\ loadOk /\ stream < Streams
    /\ stream' = stream + 1
    /\ emitted' = {}
    /\ UNCHANGED <<floor, loadOk, arrived, target, slots, timer, gap, lastPub>>
    /\ ServerFrame

\* main.c after the last catch-up: the offset makes patchbay's clock the wall clock, and
\* what is due by now is ticked ...
TransitionBegins ==
    /\ mode = "loading" /\ Idle /\ loadOk /\ stream = Streams
    /\ mode' = "transition"
    /\ offset' = boot
    /\ target' = t
    /\ stream' = 1
    /\ emitted' = {}
    /\ UNCHANGED <<source, t, boot, restarts, floor, loadOk, arrived, slots, timer, gap, saved,
                   lastPub>>

\* ... and the listener opens.
TransitionEnds ==
    /\ mode = "transition" /\ CaughtUpWithTarget
    /\ mode' = "live"
    /\ target' = None
    /\ emitted' = {}
    /\ TimerLeft("transition")
    /\ UNCHANGED <<source, t, boot, offset, restarts, import, slots, saved, lastPub>>

TimerDue == timer # None /\ UvNow >= timer

\* on_patchbay_timer
OnPatchbayTimer ==
    /\ mode = "live" /\ Idle /\ TimerDue
    /\ Tick(Now)
    /\ Reschedule(bar', window', clock', Now)
    /\ UNCHANGED <<import, target>>
    /\ ServerFrame

\* Time passes, past a due timer too when the loop is late.
Advance ==
    /\ t < MaxTime /\ Idle
    /\ t' = t + 1
    /\ emitted' = {}
    /\ UNCHANGED <<source, boot, offset, mode, restarts, import, target, slots, timer, gap,
                   saved, lastPub>>

-----------------------------------------------------------------------------
(* Snapshot and restart.                                                   *)

\* append_rule_state leaves out the entries of kind CLOCK.
Snapshot == [bar |-> bar, window |-> window, held |-> held]

\* The periodic snapshot (module Snapshot has its machinery).
WriteSnapshot ==
    /\ mode = "live" /\ Idle
    /\ saved' = Snapshot
    /\ emitted' = {}
    /\ UNCHANGED <<source, t, boot, offset, mode, restarts, import, target, slots, timer, gap,
                   lastPub>>

\* The process stops: by a signal or because its start fails (a message or a fetch of the
\* loading phase, the listener), with the final snapshot of mb_server_close, or it is killed,
\* without one.
Stop ==
    /\ IF mode = "transition" THEN CaughtUpWithTarget ELSE mode # "down" /\ Idle
    /\ restarts < MaxRestarts[source]
    /\ mode' = "down"
    /\ saved' \in {saved, Snapshot}
    /\ bar' = NoBar /\ window' = <<>> /\ held' = None /\ clock' = Unarmed
    /\ aggregated' = FALSE /\ lost' = FALSE
    /\ timer' = None /\ offset' = 0 /\ lastPub' = Unseen /\ emitted' = {}
    /\ stream' = 1 /\ floor' = NoFloor /\ loadOk' = TRUE /\ target' = None
    /\ gap' = "none"
    /\ UNCHANGED <<source, t, boot, restarts, arrived>>

\* mb_server_init: mb_snapshot_load restores the slots; no timer is started.
Restart ==
    /\ mode = "down"
    /\ restarts' = restarts + 1
    /\ mode' = IF source = "jetstream" THEN "loading" ELSE "live"
    /\ boot' \in IF Reboots THEN {boot, t} ELSE {boot}
    /\ bar' = saved.bar /\ window' = saved.window /\ held' = saved.held
    /\ emitted' = {}
    /\ TimerLeft("warm_start")
    /\ UNCHANGED <<source, t, offset, import, target, clock, aggregated, lost, saved,
                   lastPub>>

Init ==
    /\ source \in Sources
    /\ t = 0 /\ boot = 0 /\ offset = 0 /\ restarts = 0
    /\ mode = IF source = "jetstream" THEN "loading" ELSE "live"
    /\ stream = 1 /\ floor = NoFloor /\ loadOk = TRUE /\ arrived = 0 /\ target = None
    /\ bar = NoBar /\ window = <<>> /\ held = None /\ clock = Unarmed
    /\ aggregated = FALSE /\ lost = FALSE
    /\ timer = None /\ gap = "none"
    /\ saved = [bar |-> NoBar, window |-> <<>>, held |-> None]
    /\ emitted = {} /\ lastPub = Unseen

\* The end of the modelled time.
TimeUp == t = MaxTime /\ Idle /\ UNCHANGED vars

Next == \/ ClientPublish \/ ImportIngress \/ JetStreamArrives \/ TickUntil \/ JetStreamEval
        \/ StreamCaughtUp \/ TransitionBegins \/ TransitionEnds \/ OnPatchbayTimer \/ Advance
        \/ WriteSnapshot \/ Stop \/ Restart \/ TimeUp

Spec == Init /\ [][Next]_vars

-----------------------------------------------------------------------------
(* Properties.                                                             *)

\* What a snapshot keeps of the slots: their times are in the past.
KeptType(b, w, h) ==
    /\ b.on \in BOOLEAN
    /\ b.start \in 0 .. t
    /\ ~b.on => b.start = 0
    /\ w \in Seq(0 .. t)
    /\ h \in {None} \cup (0 .. t)

ClockType ==
    /\ clock \in [ClockForms -> [armed : BOOLEAN, deadline : Nat]]
    /\ \A f \in ClockForms : clock[f].armed => clock[f].deadline > 0

TimeType ==
    /\ t \in 0 .. MaxTime /\ boot \in 0 .. t /\ offset \in {0, boot}
    /\ target \in {None} \cup (0 .. t) /\ lastPub \in [Quiet -> {None} \cup (0 .. t)]
    /\ stream \in 1 .. Streams /\ floor \in [1 .. Streams -> 0 .. t]
    /\ arrived \in 0 .. MaxArrivals
    /\ timer \in {None} \cup Nat

ModeType ==
    /\ mode \in {"loading", "transition", "live", "down"}
    /\ source \in Sources /\ restarts \in 0 .. MaxRestarts[source]
    /\ mode = "down" => restarts < MaxRestarts[source]
    /\ gap \in {"none", "failed_rule", "warm_start", "transition"}
    /\ emitted \subseteq Forms \cup {"found"}
    /\ loadOk \in BOOLEAN /\ aggregated \in BOOLEAN /\ lost \in BOOLEAN

\* Type invariant: the slots, the timer and the snapshot have the shape the code gives
\* them, and time in every slot is within the modelled range.
TypeOK == /\ TimeType /\ ModeType /\ ClockType
          /\ KeptType(bar, window, held) /\ KeptType(saved.bar, saved.window, saved.held)

Covered ==
    LET ds == Deadlines(bar, window, clock)
    IN  mode = "live" /\ Idle /\ ds # {}
        => /\ timer # None
           /\ timer + offset <= Max({Min(ds), Now})

\* The one timer covers every deadline: whenever the loop is idle in live mode and some
\* slot has a deadline, the timer is running and fires no later than the earliest
\* deadline (at once for one in the past).  mb_server_reschedule_patchbay_clock must be
\* called from each place that may move a deadline; forgetting one loses an emission
\* until other traffic arrives.  Three paths do forget it, and gap names them; any later
\* message that is evaluated, or a tick, repairs the timer.
TimerCovers == gap = "none" => Covered

\* As documented ("the server keeps one rescheduled timer pointed at the earliest active
\* deadline"), without the exceptions.  Each of the three paths breaks it: mb_server_client_publish
\* after a failed rule, main at the end of the loading phase, which ticks what is due and does not
\* start the timer for the rest, and mb_server_init, which starts none for the slots it restores.
TimerAlwaysCovers == Covered

\* The time of a tick: the earliest deadline in tick_until, else the loop's time.
TickTime == IF Idle THEN Now ELSE Min(Deadlines(bar, window, clock))

\* No tick is in vain: one taken when the earliest deadline is due leaves only later
\* deadlines.  Otherwise tick_until would loop for ever and the timer would be
\* restarted with zero delay for ever.
TickProgress ==
    [][LET before == Deadlines(bar, window, clock)
           after  == Deadlines(bar', window', clock')
       IN  (OnPatchbayTimer \/ TickUntil) /\ before # {} /\ Min(before) <= TickTime
           => \A d \in after : d > Min(before)]_vars

\* debounce!, on-silence and the loss of a dropout are published only once their whole
\* interval has passed since the last message that reached them, however messages of one or
\* several sources, failing rules and late timers interleave.
QuietForms ==
    [][\A f \in Quiet : f \in emitted' => TickTime - lastPub[f] >= Interval[f]]_vars

\* Event-time order: a bar is closed by the tick at its deadline.  A JetStream message closes one
\* only if it is older than the bar, having come out of order (from another stream, after a
\* restart, or redelivered); a message that is newer never finds a bar that its own tick_until
\* should have closed, so bars of an ordered replay are those of a live run.
BarsClosedByTick ==
    [][JetStreamEval /\ "bar" \in emitted' => target < bar.start]_vars
=============================================================================
