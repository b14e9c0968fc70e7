# A TLA+ model of monoblok

monoblok is a NATS-compatible message router in C with a rule engine ("patchbay") that
conditions streams: it accepts NATS clients, imports messages from upstream NATS servers and
JetStream streams, evaluates rules with time windows over them, keeps a last-value cache and
saves its state in a snapshot file. One libuv event loop owns nearly all state; worker threads
poll upstream, libuv's thread pool writes snapshots, and timers, signals, connections and
crashes arrive in any order. The modules here model that control logic, translated from the
code under `src/`.

Paths below are relative to the repository (`src/importer.c` is the file of that name in its
source directory).

## 1. Inventory

| component | state | operations | interacts with |
|---|---|---|---|
| core NATS importer (`importer.c`) | ring of messages, two index variables, counters, closing flag, handles | start, worker poll/queue/drop, async callback and drain, close | worker thread and loop share the ring under one mutex; wakes the loop with `uv_async_send`; calls `import_ingress` |
| JetStream importer (`jetstream.c`) | last sequence and event time, one hand-off slot, condition variable, counters | catch-up before the listener opens, worker fetch and hand-off, loop callback, ack, close | durable consumer on the server; worker and loop share the slot; calls `jetstream_ingress` |
| patchbay clock (`pb_program.c`, `pb_form_*.c`) | per (rule, subject) slots: bars, rings, deadlines, flags | evaluate a publish, tick, next deadline, tick_until | called by every ingress; one libuv timer in `server.c` |
| snapshot (`snapshot.c`, `fs.c`, `server.c`) | pending and again flags, one job, `PATH` and `PATH.tmp` | periodic job, completion, final write, load | thread pool; slots and cache |
| client connection (`conn.c`) | four output buffers, TLS state, flags | read, execute, write completion, handshake, close | router callbacks `kick` and `close` |
| subject matching and index (`router.c`) | buckets in arrays, open-addressed hash index of positions | match, index key, lists read by a publish; find, grow, remove by moving the last | router, rules, cache |
| router and last-value cache (`router.c`) | subscription lists, counters, scratch arrays, cache | subscribe, unsubscribe, publish, remove | connections, rules, bridge |
| start, loop and shutdown (`main.c`, `server.c`, `nats_common.c`) | handles, connections, users of the NATS library, closing flag | each step of start and close, signals, accept, nested `uv_run` | all of the above |
| HTTP and SSE (`http.c`) | request buffer, output, the stream's subscription, `conn_count` shared with the NATS listener | accept, read, handle a GET or POST, write completion, close | router, publish path of `server.c`, cache |
| wire protocol (`proto.c`, `process_rx` of `conn.c`) | the unparsed rest of what was read | parse the next operation, write a frame | connections, router |
| patchbay rule evaluation (`pb_program.c`, `pb_eval.c`, forms) | rules, their slots and slot index, scratch arena | evaluate a message, publish and re-enter, tick | router, bridge, timer |
| bridge (`bridge.c`) | connection, counters | start, forward what is exported, close | called by the router after a publish |
| patchbay parsers, memory helpers, benchmark | see section 8 | | |

What is hard in this code, and what the properties are for: two threads in the importers whose
critical sections interleave (coalesced wake-ups, a peek that survives an unlock, tear-down while
the worker runs); a worker and a loop that wait for each other; acknowledgement against crash;
event time against wall time; one timer that must always cover the earliest of many deadlines;
a job in the thread pool against the final write of the same file; a write in flight while other
publishes arrive and TLS changes the path; a publish that closes connections, reaches limits and
fails while it walks lists that are updated by swap-removal; slices of buffers that a reentrant
evaluation may overwrite, move or free; input that arrives cut anywhere; a start that fails half
way, and closes that run the loop. `PROJECT.json` lists each with its
line under "hazards".

## 2. Modules

| module | models |
|---|---|
| `Importer` | `importer.c`: every critical section is an action; `lpc` is the loop thread's position (start, idle, drain, close), `wpc` the worker's |
| `ImportQueue` | the abstract bounded FIFO the importer promises |
| `JetStream` | `jetstream.c` for one stream with the part of `main.c` that drives it; the stream and the durable consumer are external |
| `PatchbayClock` | slots with deadlines of one subject, evaluation, tick, the timer, the three ingress paths (with several JetStream streams that share the slots), snapshot and restart of slots |
| `Snapshot` | the snapshot job, its cancellation, the atomic write step by step in two threads, kills, power loss, load |
| `Conn` | one connection of `conn.c`, plain or TLS |
| `Proto` | the parser of client operations with the loop that feeds it, and the frame of a message |
| `Subject` | `subject_matches` and the three-list subscription index, as operators |
| `Http` | `http.c`: connections with one request each, event streams, publishes between them |
| `Router` | `router.c` on top of `Subject`: lists, counters, queue groups, scratch capacity, cache |
| `OpenIndex` | the open-addressed index the router (three times) and the slots of a rule use, as operators |
| `RouterIndex` | buckets and index of the router, with growth, removal and failed allocations |
| `Rules` | the rule index, the evaluator with its special forms, publish and re-entry, slots, clock forms and the tick, and which emissions the bridge forwards |
| `Lifecycle` | `main` from start to exit, with the handles, NATS connections and library users every component opens |
| `ImporterProofs`, `JetStreamProofs`, `SnapshotProofs`, `PatchbayClockProofs`, `ConnProofs`, `HttpProofs`, `LifecycleProofs`, `RouterProofs` | TLAPS proofs about the module of that name (section 6); `ConnProofs` also about `Proto`, `RouterProofs` also about `Subject`, `OpenIndex` and `RouterIndex` |
| `MC*` | instances for TLC: constants a cfg cannot write; `MCRouter` joins `Router` and `RouterIndex`, `MCConn` has the pieces and operations the parser is run on, `MCRules` the rule programs; `MCMessages` puts these three side by side in one run, in each behaviour of which one of them moves |

Names follow the C functions (`WorkerQueueMsg` is `import_queue_msg`, `OnPatchbayTimer` is
`on_patchbay_timer`, ...); "map" in `PROJECT.json` gives each definition's lines. A callback on the loop thread is
one action, because nothing else on that thread can run inside it; a function with an unlock in
the middle is several. Functions that a callback calls are operators: in `Conn` from a connection
to the set of connections they may leave behind, because allocations and libuv or OpenSSL calls
may fail; in `Router` and `Proto` a loop is a recursive function whose n-th value is the state after n rounds; in `Rules` the mutual recursion of evaluation and
publish is that of the code, over a record of everything a handler changes. Operators whose name has an underscore
(`DrainHandle_OnePerWakeup`) are deliberate mistakes next to the definition they change; no specification
uses them. They are there to show that each property can fail: with the definition replaced by the mistake, TLC refutes it.

What is abstracted: a message is a number (its stored time too, in `JetStream`), a frame counts
one against the output limit, bytes built for a snapshot are a version, a subject is a sequence
of tokens; in `Proto` a byte is a symbol and a keyword is one symbol. `Rules` keeps memory exactly, because its
properties are about it: a slice is a place (own memory, the scratch arena at a given reset, a slot's buffer after a
given number of moves) and reading it later yields what is there then. External parts answer by free choice: the NATS library, the stream, libuv, OpenSSL, the file system.

## 3. Runs

All bounds are named constants. Deadlock is checked except for `Http`, whose bounded
counters run out, and `Lifecycle`, whose process ends; in `messages` the router and the rules stutter at their bounds. Each module's type invariant, where it states one,
describes its state; those of section 6 are proved. The runs are kept for properties that say more.

| run | instance | checks |
|---|---|---|
| `importer` | ring of 2, 5 messages | `Conservation`, `NoLostWakeup`, `PeekStillHead`, `WorkerOutlived`, `CleanShutdown`, refinement `ImplementsQueue`, liveness `QueuedIsTaken`, `CloseTerminates` |
| `jetstream` | 4 stream messages, one outside the filter, batch 2, 3 deliveries, 1 restart | `AckedWasApplied`, `OneOwner`, `NothingSkipped`, `StreamTimeMonotone`, liveness `CloseTerminates` |
| `clock` | intervals 2 and 3 ms, 4 ms of real time, all three sources, 2 streams with 3 messages, a message that reaches every slot, only those that take a payload that is no number, or only two before its rules fail; one restart of a server with clients or streams, possibly with a reboot | `TimerCovers`, `QuietForms`, `TickProgress`, `BarsClosedByTick` |
| `clock_failed_rule` | clients, or one stream that is caught up with, and one restart | refutes `TimerAlwaysCovers` (finding) |
| `snapshot` | 3 versions, 2 failing calls, 2 restarts | `FinalIsLatest`, `FileWhole`, liveness `EventuallySaved` |
| `messages`, part "router" | three instances. "groups": 2 connections (symmetric), 3 subscriptions, 2 filters of one list, the second only in a queue group, limits of 1 message, a write that may fail, 2 publishes. "cache": 1 connection, a literal and a full-wildcard filter, live and `$LVC`, cache of 2 entries and 3 bytes, 3 publishes. "index": 4 keys with any hashes of 3 values, least capacity 2. All filters and subjects of up to 4 tokens over 4 words | `RegistryExact`, `ScratchFits`, `LvcConverges`, `MatchingExact`, `IndexExact`, `ExactDelivery` |
| `messages`, part "conn" | plain and TLS, authentication on, output limit 3, 7 items, 2 handshake records, record framing of up to 1 unit per item; the parser on every pair of 67 pieces, lines of 11 symbols and payloads of 2 | `PendingBounded`, `StreamIntact`, `NoStalledOutput`, `CutsIrrelevant`, `FramingExact` |
| `messages`, part "rules" | 3 programs of 4 rules, 4 messages, 4 handlers, 3 ms, re-entry cap 2, slots indexed from 2 on | `RulesExact`, `EvaluationStable`, `EmissionsExact`, `OneSlotPerKey` |
| `matching_doc` | the router alone, filters and subjects of up to 2 tokens | refutes `MatchingAsDocumented` (finding) |
| `http` | a stream and a client with one of 22 requests, limits of 2 connections, 2 header and 1 body units, 2 items of output; 2 messages, 1 NATS client, cache and publishing on or off | `PostsExact`, `StreamComplete` |
| `http_replay`, `http_post` | the same without NATS clients | refute `StreamIsEvents` and `OnePublishPerPost` (findings) |
| `rules_stale` | the rules alone: 2 programs whose tick publishes on the subject of its own slot, and one with on-silence in a pipeline | refutes `EvaluationStable` (finding) |
| `lifecycle` | up to 2 streams and 2 core sources, bridge, HTTP, clocks and snapshots on or off, 2 clients | `CallbacksSafe`, `AllReleased`, liveness `ShutdownEnds` |

Why the bounds are enough for what the properties tell apart (for a property with a theorem in section 6 the
theorem removes the bounds; the run also shows that the interesting cases happen and that the liveness holds):

* `importer`: with two slots the ring is empty, partly full, full and wrapped; five messages let it
  wrap twice and overflow while a drain is in each of its steps.
* `jetstream`: a redelivery can only be older than an acknowledged message of the same process
  when one message is owed, one newer is acknowledged and a third keeps catch-up going: three
  matching messages. Sequence 2 is outside the filter, so the high-water mark and the last delivered sequence differ.
* `clock`: intervals of 2 and 3 make deadlines coincide, cross and come apart within 4 ms; a late
  timer, a restored slot and a reboot all fit in. Two streams are the least that are not ordered among themselves, and three
  messages let one of them come between two of the other, or after one whose acknowledgement failed. The run reaches 3.6 million states.
* `snapshot`: three versions distinguish what is on file, what a job carries and what the final write carries.
* The connection: the output limit of three items is reached by two pipelined operations and a publish;
  SSL_write may stop after any part of what waits. A read carries at most two operations (`ProcessRx`), the least that
  have an order; a longer pipeline is several reads with nothing between them.
* `MatchingExact`: the loop only compares the tokens at equal positions; two words would give equal and
  different ones, and four tokens every relation of lengths around a wildcard.
* The router: three subscriptions put two in one queue group with one outside, or one connection in
  two groups; the output of two frames overflows in the second publish. Lists are alike, so one
  list with two filters is used in "groups" and two lists in "cache". In "index" four buckets make the index
  grow twice, and three hash values make keys share a slot, meet in a run and wrap around the end.
* `CutsIrrelevant`, `FramingExact`: two pieces are the least that have a boundary; they are every kind of operation
  with both line ends, payloads that look like operations, and a malformed piece for every refusal, among them lines one
  below, at and above the limit. One cut suffices, because what is left over is itself the beginning of a stream.
* The rules: a cap of 2 gives an emission below, at and past it; an index from 2 slots on
  is built, probed and grown by the four messages. The programs use every modelled form, one that fails before and after
  it published, a refused target, and a rule that matches its own emissions.
* `lifecycle`: two sources of a kind are the least for which one is closing while another still calls back.
* `http`: a header of two units and a body of one arrive in any cut, with one unit to spare for excess and one
  header over its limit; one good request of each kind and one with each defect reach every answer. Two messages and
  two items of output let a stream overflow with its head still in flight; the NATS client fills the limit of two.

### Fairness

`Importer` and `JetStream`: weak fairness of each step of the loop thread and of the worker, no more;
messages, signals, failures and (in `JetStream`) crashes are never obliged to happen. The operating system
schedules both threads, and libuv calls an async callback after `uv_async_send`. `Snapshot`: weak fairness of the repeating
timer when no write is pending, the job's steps in the pool, its completion callback, and the steps of
`mb_server_close`. `Lifecycle`: weak fairness of `main`'s steps except the catch-up (connecting has time limits), of the
signal callback and of the close callbacks of a running loop. The loop of `js_stream_catch_up` has no bound: it goes on while messages are
pending or the consumer cannot be queried, and only the thread that runs it could set `closing`. So nothing is assumed of it, and
`ShutdownEnds` leads to the exit or to a state in which a stream is being caught up with. Nothing is assumed of the environment.

## 4. What the checks show

* **Importer.** Messages are counted once whatever the interleaving; an idle loop with work has
  its callback pending although wake-ups coalesce; the slot drained after the unlock is the one
  sized before; lock, ring and async handle outlive the worker; however far start got, close
  releases exactly that. The whole refines `ImportQueue` under the mapping `Queued` (the ring read from `head`).
* **JetStream.** A message leaves the consumer only when some process evaluated it; no natsMsg leaks or is freed twice;
  the hand-off cannot dead-lock with shutdown; catch-up skips nothing, although it may end with a message still owed. The event times
  of one stream never run back in its catch-up (`StreamTimeMonotone`); those of several do (section 5).
* **Clock.** Apart from three paths (section 5) the timer covers the earliest deadline after
  every message, tick and lapse of time. debounce!, on-silence and dropout never fire early. A
  tick always moves the earliest deadline, so tick_until ends and the timer does not spin. A JetStream message never closes a bar
  that it is newer than, however streams, failed messages and restarts mix event times: the tick at the bar's deadline has done so.
* **Snapshot.** The file is never half-written by a kill at any step; a clean exit leaves the latest one; no change is forgotten by the write-again flag.
* **Connection.** Through buffer swaps, partial encryption and the TLS upgrade the client's
  stream has no gap, repetition or reordering; output never waits without a write that takes it
  along; between callbacks the four buffers together stay within the limit, but for the TLS record framing of the one write in flight: the limit
  is checked before encryption adds it; before the upgrade only INFO is in the clear.
* **Wire protocol.** The operations, refusals and the rest kept do not depend on how the input is cut, also at the
  limits of a line and of the receive buffer; a payload is taken by its length only; the length reserved for a frame is
  the length written.
* **Index.** Through growth, removals that move the last bucket, and allocations that fail between the two steps of
  adding one, a lookup ends and finds exactly the buckets there are.
* **Rules.** A message runs the matching rules in source order although they come from two lists and re-enter; an
  emission is evaluated exactly if it was delivered, its rule is reentrant and the cap not reached; slots survive the change
  from list to index and its growth. As long as a tick does not publish on the subject of its own slot, nothing changes under an
  evaluation (section 5).
* **Lifecycle.** At whatever step after `mb_server_init` the start fails and whenever a signal comes, everything opened is closed, the NATS
  library's last user closes it, no callback run during a close reaches freed memory or a closed bridge, and the process ends:
  a signal raised in the loading phase, when no loop runs, is honoured afterwards, if the loading ends. A `mb_server_init` that fails (an
  address that cannot be bound) leaves the handles it has opened to the end of the process (`pc = "aborted"`): `main` returns without `mb_server_close`.
* **Router.** Counters agree with the lists after any sequence, including a replay that fails and
  takes back every subscription of its sid; a failed or overflowing publish leaves no subscription
  of a closed connection or past its limit; the unchecked store into `kicked` is within its capacity; a successful publish reaches each ordinary
  subscription once and each group once; replay and live updates leave a `$LVC` subscriber with the cached value; the bytes
  the cache is limited by are those its entries hold, however often they were replaced or refused.
* **HTTP.** A `POST` takes effect only when it is whole and every check has passed, however it is cut into reads;
  an event stream has every message since its subscription once and in order.
  A write that fails in the middle of an event leaves a torn one behind (`TornEvent`), which the properties leave out.

## 5. Disagreements with the documents

Each has a run that expects a violation ("findings" in `PROJECT.json`):

1. `clock_failed_rule`: a client publish that fails in one rule returns before the timer is
   rescheduled (`server.c`, `mb_server_client_publish`) although other rules armed their forms (`gap = "failed_rule"` of
   `PatchbayClock`). Two other paths of the same instance break the property too, in more steps than the counterexample TLC
   reports: `mb_server_init` restores windows and bars and starts no timer (docs/patchbay.md: "existing time-window
   slots are re-armed when the server starts"; `gap = "warm_start"`), and `main` does not reschedule at the end of the loading
   phase (design/jetstream.md: "future deadlines are scheduled against real processing time"; `gap = "transition"`).
   `TimerCovers` is the same property outside these three.
2. `http_replay`: the replay of the cache to a `$LVC` event stream (`router.c`, `emit_cached`) ignores the
   connection's `write_msg_fn`, so NATS `MSG` frames appear between the SSE events.
3. `rules_stale`: a tick publishes slices of a slot's own buffers (`clock_publish`, the payload of an on-silence body).
   If the emission re-enters the same rule, its evaluation arms the slot again (`state_set_bytes` overwrites or reallocates the
   buffer), and the rules and body forms that follow read changed or freed bytes. The instance has a second way to the same end,
   one millisecond later than the first: an on-silence at the end of a `->` keeps a pointer to a body in the scratch arena,
   which is reset when the message is done (`pb_form_clocks.c`, `on_silence`), and the tick evaluates whatever is there then
   (program `Threaded` of `MCRules`).
4. `http_post`: an HTTP connection goes on reading while its answer is written, and its buffer still begins with the
   request: bytes after a complete `POST` publish it again (a pipelined second request repeats the first one).
   `PostsExact` states that nothing else does. design/http-sse.md says that a `POST` publishes one payload.
5. `matching_doc`: `subject_matches` lets a trailing `>` match no token (`a.>` matches `a`), docs/patchbay.md says
   "one or more tokens". `FitsAsDocumented` of `Subject` is the documented relation, `FitsWithEmptyRest` the exception; `MatchingExact`
   says that there is no other difference.

Others are visible in the models and have no run of their own:

* Streams are caught up with in turn and share the rules' clock, and `event_time_from_msg` clamps a message to the last one
  of its own stream only: the second stream sets the clock back, with no failure and no restart (`JetStreamArrives` of
  `PatchbayClock`). design/jetstream.md asks for monotonicity "per conditioning domain", and elsewhere warns operators that several
  streams are not ordered among themselves.
* `conn.c` refuses `PUB` once the server is closing, `http.c` does not, although "`POST /pub/...` ... should use the
  same behavior as a local NATS client `PUB`" (design/http-sse.md).
* With the filter `>` in `(lvc ...)`, a `$LVC.>` subscriber receives live `$STATS` ticks that the cache itself
  refuses: `sub_deliverable` asks `LvcEnabled`, `lvc_store` asks `LvcStatsEnabled` (both in `Router`).
* hold-off saves `uv_now`, which a reboot of the machine sets back: it stays shut until the uptime has
  caught up.
* Catch-up ends on `num_pending = 0`, which does not count messages awaiting redelivery: a loading phase after a crash
  between delivery and acknowledgement can end before they are evaluated again (`CatchupQuery` of `JetStream`), whereas
  design/jetstream.md says that the phase "runs again from there".
* `auth_violation` appends its error and closes at once, and a close writes nothing more (`ConnBeginClose` of `Conn`), so the
  client does not receive the `-ERR 'Authorization Violation'` of docs/overview.md.
* docs/patchbay.md says of the re-entry cap that "emissions past the cap are dropped"; `publish_cb` delivers them and
  only does not evaluate them again (`PublishCb` and `Reenters` of `Rules`).
* `mb_write_file_atomic` does not fsync, so after a loss of power `PATH` may name a file without data
  (`PowerLoss` of `Snapshot`; `FileWhole` speaks of everything else).

## 6. Proofs

TLAPS checks the theorems below for every value of the constants that the named assumptions of the modules allow:
ring capacities, limits, batch sizes, intervals and bounds are any natural numbers (positive where zero makes no sense in
the code), and the sets of clients, requests, subjects and streams are any sets. The assumptions are types, with these exceptions:

* `ClientsAssumption` of `Lifecycle`: the name of a connection is not the name of a source's handle.
* `SlackAssumption` of `Proto`: `MB_MAX_RX` exceeds the limits of a line and a payload by at least 2 (`conn.h` adds 64).
  `CutsIrrelevant` is false without it: a `PUB` of the greatest size whose last byte is missing would close the connection.
* `WordsAssumption` of `Subject` and `SubjectsAssumption` of `Router`: what is published or subscribed to has passed `mb_proto_subject_valid`.
* `PiecesAssumption` and `OpsAssumption` of `Proto`: a client writes bytes, and the operations of the run are well-formed and fit in
  a line. The first parts of `CutsDoNotMatter` and `FramingIsExact` speak of all bytes and all operations and need neither.

| theorem | states | for every |
|---|---|---|
| `ImporterProofs`: `CountsConserved`, `WakeupNotLost`, `PeekIsStable`, `WorkerIsOutlived`, `ShutdownIsClean` | `Conservation`, `NoLostWakeup`, `PeekStillHead`, `WorkerOutlived`, `CleanShutdown` | ring capacity, number of messages |
| `ImporterProofs`: `RingImplementsQueue` | the refinement `ImplementsQueue` | the same |
| `JetStreamProofs`: `AcksAfterEvaluation`, `MessagesHaveOneOwner`, `CatchUpSkipsNothing` | `AckedWasApplied`, `OneOwner`, `NothingSkipped` | stream, filter, batch size, number of deliveries and restarts |
| `JetStreamProofs`: `StreamTime` | the action property `StreamTimeMonotone`, of one stream | the same |
| `SnapshotProofs`: `PathNeverTorn`, `CleanExitKeepsAll` | `FileWhole`, `FinalIsLatest` | number of changes, failures, restarts |
| `PatchbayClockProofs`: `TimerCoversDeadlines` | `TimerCovers` | intervals, length of time, number of streams, sets of slots a message reaches, restarts |
| `PatchbayClockProofs`: `TicksProgress`, `QuietFormsWait`, `BarsCloseByTick` | the action properties `TickProgress`, `QuietForms`, `BarsClosedByTick` | the same |
| `ConnProofs`: `StreamIsIntact`, `PendingIsBounded`, `OutputNotStalled` | `StreamIntact`, `PendingBounded`, `NoStalledOutput` | output limit, record overhead, number of items and handshake records |
| `ConnProofs`: `CutsDoNotMatter` | `Feed(Feed(st, a), b) = Feed(st, a \o b)`, and with it `CutsIrrelevant` | state of a connection, byte sequence, limit |
| `ConnProofs`: `FramingIsExact` | a well-formed operation is read back from its bytes, a frame is as long as computed; with it `FramingExact` | operation, blank, line end; subject, sid, reply, payload |
| `HttpProofs`: `PostsAreExact` | `PostsExact` | clients, requests, limits, sizes of reads |
| `HttpProofs`: `LimitIsKept` | `LimitKept`: `conn_count` is the number of connections of both listeners and at most `MB_MAX_CONNECTIONS` (no run of its own) | the same |
| `HttpProofs`: `StreamsAreWhole` | `StreamComplete` | the same |
| `RouterProofs`: `MatchingIsExact` | `MatchesAsItFits`, and with it `MatchingExact` | valid filter and subject, of any length |
| `RouterProofs`: `RegistryIsExact`, `CacheIsAccounted`, `ScratchAlwaysFits` | `RegistryExact`, `CacheAccounted` (no run of its own), `ScratchFits` | connections, subjects, filters, queues, limits, sizes |
| `RouterProofs`: `DeliveryIsExact` | the action property `ExactDelivery` | the same, random choice and failing write |
| `RouterProofs`: `LvcViewsConverge` | `LvcConverges`, under a hypothesis (below) | the same |
| `RouterProofs`: `IndexIsExact` | `IndexExact` of `RouterIndex` | keys, hash function, least capacity |
| `LifecycleProofs`: `CallbacksFindTheirs`, `ExitReleasesAll` | `CallbacksSafe`, `AllReleased` | number of sources, set of clients |
| `TypeCorrect` of each module but `LifecycleProofs` | its type invariant | |

Hardly any of these is inductive alone. Every proofs module defines an inductive invariant (`Inv`; `Safe`, `Converged` and `IndexInv` in
`RouterProofs`; checked by TLC on the module's run before it was proved), shows that each action preserves it, one step per action, and
concludes `Invariance` (`InvHolds` in `ImporterProofs`); the properties follow from it, the action properties from it and one step.

The parser, the matcher, the index and the walks over lists are loops, so their proofs need induction over data. The library's induction
theorems take an operator, which the installed provers cannot instantiate; `RouterProofs` and `ConnProofs` therefore state induction over a
*set*: a set of naturals that is not empty has a least element (`LeastNumber`, from `NatLessThanWellFounded` and `WFMin`), so one that has 0
and with every number the next has all (`Induction`). `Recursion` says that a recursive function over `0 .. N` exists and has its values,
and what a round keeps holds of the last one (`Stays`). `Descent`, `Ascent` and `TensExists` of `ConnProofs` do the same for a loop that
advances by whole operations and for the digits of a number.

* **Importer.** `WorkerOutlived` needs to know at which stages of the loop thread a
  worker can exist and which resources start has acquired by then, `CleanShutdown` the same for
  close (`Stages`); `NoLostWakeup` needs that a drain which stops has emptied the ring and that an importer
  without a worker has an empty one (`Quiet`); `PeekStillHead` needs the head to be stable from the peek on (`PeekHeld`).
  `TailSlot` and `NextSlot` are the facts about indices modulo `RingCap`: a new message never lands on the head of a ring
  that is not empty and not full.
* **Importer implements ImportQueue.** The mapping reads the ring from `head` (`Queued`). `WriteAppends` and `PopIsTail` say what
  a store at `tail` and a step of `head` do to that sequence, around the end of the array too; `Order` adds to `Inv` that the
  message the worker is about to queue is newer than all in the ring and than the one being handled. `StepSimulates` maps each action to a put, a take, the loss at close or a stutter.
* **JetStream.** What a process holds was delivered (`Reach`); the slot belongs to the thread whose turn it is (`Handoff`); event
  times stay behind what is left to replay (`Replay`); catch-up ends with nothing undelivered below the mark (`Covered`). The
  consumer is declarative: `Fetches(n)` is the first `n` due messages, in order, so the lemma
  that a fetch passes over no matching message needs no recursion.
* **Snapshot.** `PATH.tmp` is what its writer wrote (`TmpOwned`), because only one thread is ever inside
  `mb_write_file_atomic` (`OneWriter`); from the moment the final bytes are built the state stands still (`FinalHeld`).
* **Clock.** `EvalKeeps` and `TickKeeps` say what an evaluation and a tick do to every slot, `RescheduleCovers` what the timer is
  set to; a form that waits for quiet is armed one interval after the last message that reached it (`QuietArmed`). `BarsCloseByTick` needs that an open bar, and
  the one in the snapshot, starts at a multiple of the interval (`BarAligned`): a message that finds every deadline later than itself
  then is in the bar or before it, whatever stream it is from. The earliest deadline exists by the well-foundedness of the naturals.
* **Connection.** The proof follows the calls. `Good` holds at every point inside a callback and every operator preserves it:
  types, the states of the TLS upgrade, framing only on what is encrypted, at most the overhead for each item (`Framed`), a write in flight exactly when its buffer is not empty, the stream over
  wire and buffers in order (`Ordered`), nothing in the clear after the upgrade (`Veiled`). `Settled` holds between callbacks, and
  `mb_conn_kick_write`, with which they end, establishes it. `StreamIntact` is first-order over the positions of the
  stream, so the lemmas about joining, cutting and encrypting part of it need no induction.
* **Parser.** `need_more` is what bytes that come later may change, and nothing else is: the first line, its length test and the answer of
  every operation are those of the longer buffer (`FeedJoins`), also at the limits of a line and of `rx`. Hence one read of `a` and `b` is
  the turns of `a` followed by those of what is left of it and `b`. For `FramingIsExact` the blanks of a line are shown to give back its
  words, the digits of a number its value, and the payload is cut by its length alone.
* **HTTP.** rx never holds more than arrived, and only event streams are subscribed, so that a publish cannot close the connection
  that asked for it (`Sound`). What writes, delivers or answers leaves a connection as `PostsExact` sees it or closes it
  (`Follows`, transitive); `ReceivedWorld` adds that each read brings at least one unit and publishes at most once.
  None of these functions changes whether a connection is counted: only `http_conn_create` and `close_cb` do, each with `conn_count` (`LimitKept`).
  `StreamComplete` says position by position what an event stream has (`Whole`): the head, the replay, then message after message. `Streams`
  adds what that needs between callbacks (`Steady`): nothing is in flight that is not being written, and before the subscription there are
  only answers. Writing moves items from one place to the next; a publish appends one or leaves it out on purpose.
* **Router.** `Safe` is types, `Registry` (the counters, the capacity of the scratch arrays and the owner and limit of every subscription)
  and `CacheAccounted`. A removal loop leaves exactly the items that are not to go, in some order (swap-removal), so the number it takes off
  the counters is the number that went; a publish changes nothing of a subscription but its count of deliveries.
  `DeliveryIsExact` counts by a one-to-one correspondence: while a publish walks its three lists, `Tally` pairs every frame written with the
  place of a subscription, and `Told` and `Chosen` say which places those are: the ordinary ones that are due, and one chosen for each
  queue group. That what is due in these three lists is what matches is `MatchingIsExact`.
  `Converged` says of every ordinary `$LVC` subscription that it is up to date with each cached subject it wants: a replay writes the last
  entry of each, a publish the one it has just stored. `LvcViewsConverge` has a hypothesis, `CachedIsDelivered`: no publish fails after its
  value was stored. Without it the property is false of the code, since a publish that fails half way leaves the value in the cache and some subscribers
  without it; the "cache" instance of the run has no failing write either.
* **Index.** `IndexInv`: one bucket per key, and an index at most half full in which every bucket is found by probing from its hash with no free
  slot on the way. Insertion takes the first free slot, so no earlier way is broken; an index that is not full has a free slot, so a lookup ends.
  That doubling reaches the capacity asked for is induction again.
* **Lifecycle.** Where `main` is determines which sources may have handles and connections (`CoreRange`, `StreamRange`, `Within`),
  which arrays exist (`Allocated`), that an aborted start has only handles of `mb_server_init`, and that `g_nats_users` is the number of connections (`Counted`, with the cardinality
  theorems of the library).

Only model-checked, and why:

* Liveness (`QueuedIsTaken`, both `CloseTerminates`, `EventuallySaved`, `ShutdownEnds`): needs fairness and ENABLED, outside the prover's reach.
* `RulesExact`, `EvaluationStable`, `EmissionsExact`, `OneSlotPerKey`: `Rules` uses RECURSIVE operators, because the code is recursive.

## 7. Plan

The parts above are done. Left, in this order:

1. Composition of `Router` and `Conn`: the `kick` and `close` callbacks at the end of a publish, several connections.
2. Windows, bars and aggregate! inside `Rules`, so that their emissions re-enter too.

## 8. Not modelled

* The parsers of rule files (`pb_sexpr.c`, `pb_yaml.c`), validation, the JSON reader, the soundcheck and dump tools:
  sequential text processing over strings and floating-point numbers without state between calls.
* The forms that only compute on values (arithmetic, text, comparisons, JSON access), which `Rules` represents by `+`;
  windows, bars, aggregate!, hold-off, deadband, edges and delta inside `Rules` (those with deadlines are in `PatchbayClock`); values inside
  windows and bars, count windows, percentile and throttle.
* Failing allocations in the evaluator, the headers of exported messages, the payload limit of the NATS library.
* The texts of INFO, CONNECT and errors; a second signal; the statistics timer.
* Growable buffers, arrays and arenas, except the doubling that bounds the router's scratch arrays; allocation
  failures of subscribing; kick epochs; configuration and option parsing; statistics; the benchmark.
* Several streams in `JetStream`, whose workers and slots are independent; what they share, the rules and their clock, is in `PatchbayClock`.
  A mix of core imports and JetStream streams in one process; several subjects of a rule (slots are independent).
* A power loss that also undoes a rename.
