------------------------------ MODULE Importer ------------------------------
(***************************************************************************)
(* The core NATS importer, src/importer.c: a worker thread polls the       *)
(* upstream subscriptions and copies every accepted message into a bounded *)
(* ring; uv_async_send wakes the event loop, whose callback                *)
(* (mb_importer_drain) takes the messages out one by one and gives each to *)
(* the handler.  One mutex guards the ring and the pending counters; every *)
(* critical section is one action.  The loop thread also starts and closes *)
(* the importer, so the variable lpc runs through start-up, idling,        *)
(* draining and shutdown in turn.                                          *)
(*                                                                         *)
(* Messages are the numbers 1 .. MaxMsgs in the order the worker receives  *)
(* them; MaxMsgs is a bound of the model, RingCap is config->max_pending.  *)
(***************************************************************************)
EXTENDS Integers, Sequences

CONSTANTS RingCap,     \* max_pending: slots of the ring
          MaxMsgs      \* bound: messages the upstream delivers in a behaviour

ASSUME RingCapAssumption == RingCap \in Nat \ {0}
ASSUME MaxMsgsAssumption == MaxMsgs \in Nat

VARIABLES
    lpc,              \* where the loop thread is
    wpc,              \* where the worker thread is
    closing,          \* importer->closing
    serverClosing,    \* server->closing, set by the signal handler
    ring, head, len,  \* the ring of slots
    ringCap,          \* importer->ring_cap: 0 before start and after close
    received, dropped, processed, failed,     \* the loop thread's counters
    pendingReceived, pendingDropped,          \* counted by the worker under the lock
    asyncPending,     \* libuv's coalesced wake-up of importer->async
    asyncStarted, lockStarted, threadStarted, started,
    natsRefs,         \* mb_nats_retain / mb_nats_release balance
    upstream,         \* messages delivered by the upstream so far
    scratch,          \* message copied out of the ring, 0 when there is none
    peeked,           \* message whose size drain_scratch was reserved for
    discarded         \* history: messages freed with the ring by close

resources == <<asyncStarted, lockStarted, threadStarted, started, natsRefs>>
counters  == <<received, dropped, processed, failed>>
pendings  == <<pendingReceived, pendingDropped>>
fifo      == <<ring, head, len>>
vars == <<lpc, wpc, closing, serverClosing, fifo, ringCap, counters, pendings,
          asyncPending, resources, upstream, scratch, peeked, discarded>>

Slots == 0 .. RingCap - 1
Msgs  == 1 .. MaxMsgs

StartSteps == {"alloc", "lock", "async", "connect", "subscribe", "spawn"}
DrainSteps == {"peek", "reserve", "copy", "fail_pop", "handle"}
CloseSteps == {"close", "join", "destroy_subs", "close_async", "free"}
LoopSteps  == StartSteps \cup {"idle"} \cup DrainSteps \cup CloseSteps \cup {"closed"}
WorkerSteps == {"none", "check", "poll", "drop", "queue", "exited"}

\* The message the worker holds is the last one the upstream delivered.
InHand == upstream

Init ==
    /\ lpc = "alloc"
    /\ wpc = "none"
    /\ closing = FALSE /\ serverClosing = FALSE
    /\ ring = [s \in Slots |-> 0] /\ head = 0 /\ len = 0 /\ ringCap = 0
    /\ received = 0 /\ dropped = 0 /\ processed = 0 /\ failed = 0
    /\ pendingReceived = 0 /\ pendingDropped = 0
    /\ asyncPending = FALSE
    /\ asyncStarted = FALSE /\ lockStarted = FALSE
    /\ threadStarted = FALSE /\ started = FALSE /\ natsRefs = 0
    /\ upstream = 0 /\ scratch = 0 /\ peeked = 0 /\ discarded = 0

-----------------------------------------------------------------------------
(* mb_importer_start: each step may fail, and a failed step closes.        *)

\* What start leaves alone besides the resources and the ring's capacity.
StartFrame == UNCHANGED <<closing, serverClosing, fifo, counters, pendings,
                          asyncPending, upstream, scratch, peeked, discarded>>

\* calloc of the ring; on failure start returns false with nothing to close.
StartAlloc ==
    /\ lpc = "alloc"
    /\ \/ lpc' = "lock" /\ ringCap' = RingCap
       \/ lpc' = "closed" /\ UNCHANGED ringCap
    /\ UNCHANGED <<wpc, resources>>
    /\ StartFrame

StartLock ==
    /\ lpc = "lock"
    /\ \/ lpc' = "async" /\ lockStarted' = TRUE
       \/ lpc' = "close" /\ UNCHANGED lockStarted
    /\ UNCHANGED <<wpc, ringCap, asyncStarted, threadStarted, started, natsRefs>>
    /\ StartFrame

StartAsync ==
    /\ lpc = "async"
    /\ \/ lpc' = "connect" /\ asyncStarted' = TRUE
       \/ lpc' = "close" /\ UNCHANGED asyncStarted
    /\ UNCHANGED <<wpc, ringCap, lockStarted, threadStarted, started, natsRefs>>
    /\ StartFrame

\* Options, mb_nats_retain, connect and the header-support check.  The failing
\* branch releases the reference it has just retained.
StartConnect ==
    /\ lpc = "connect"
    /\ \/ lpc' = "subscribe" /\ started' = TRUE /\ natsRefs' = natsRefs + 1
       \/ lpc' = "close" /\ UNCHANGED <<started, natsRefs>>
    /\ UNCHANGED <<wpc, ringCap, asyncStarted, lockStarted, threadStarted>>
    /\ StartFrame

StartSubscribe ==
    /\ lpc = "subscribe"
    /\ lpc' \in {"spawn", "close"}
    /\ UNCHANGED <<wpc, ringCap, resources>>
    /\ StartFrame

StartThread ==
    /\ lpc = "spawn"
    /\ \/ lpc' = "idle" /\ threadStarted' = TRUE /\ wpc' = "check"
       \/ lpc' = "close" /\ UNCHANGED <<threadStarted, wpc>>
    /\ UNCHANGED <<ringCap, asyncStarted, lockStarted, started, natsRefs>>
    /\ StartFrame

Start == \/ StartAlloc \/ StartLock \/ StartAsync
         \/ StartConnect \/ StartSubscribe \/ StartThread

-----------------------------------------------------------------------------
(* The worker thread.                                                      *)

WorkerFrame == UNCHANGED <<lpc, closing, serverClosing, ringCap, counters,
                           resources, scratch, peeked, discarded>>

\* uv_async_send from the worker: the send is skipped once close has begun.
AsyncSend == asyncPending' = (asyncPending \/ (~closing /\ asyncStarted))

\* Mutant: the worker does not look at closing between polls.
WorkerCheckClosing_Never ==
    /\ wpc = "check"
    /\ wpc' = "poll"
    /\ UNCHANGED <<fifo, pendings, asyncPending, upstream>>
    /\ WorkerFrame

\* import_is_closing, tested before every poll of a subscription.
WorkerCheckClosing ==
    /\ wpc = "check"
    /\ wpc' = IF closing THEN "exited" ELSE "poll"
    /\ UNCHANGED <<fifo, pendings, asyncPending, upstream>>
    /\ WorkerFrame

\* natsSubscription_NextMsg: a time-out (or error), a message the importer must
\* refuse (origin header, bad length, invalid or reserved subject) or one to queue.
WorkerNextMsg ==
    /\ wpc = "poll"
    /\ \/ wpc' = "check" /\ UNCHANGED upstream
       \/ /\ upstream < MaxMsgs
          /\ upstream' = upstream + 1
          /\ wpc' \in {"drop", "queue"}
    /\ UNCHANGED <<fifo, pendings, asyncPending>>
    /\ WorkerFrame

WorkerRecordDrop ==
    /\ wpc = "drop"
    /\ pendingReceived' = pendingReceived + 1
    /\ pendingDropped' = pendingDropped + 1
    /\ AsyncSend
    /\ wpc' = "check"
    /\ UNCHANGED <<fifo, upstream>>
    /\ WorkerFrame

\* Mutant: a ring that makes room by overwriting its oldest message.
WorkerQueueMsg_OverwriteOldest ==
    /\ wpc = "queue"
    /\ pendingReceived' = pendingReceived + 1
    /\ \/ /\ closing \/ len >= ringCap
          /\ pendingDropped' = pendingDropped + 1
          /\ IF closing THEN UNCHANGED fifo
             ELSE /\ ring' = [ring EXCEPT ![head] = InHand]
                  /\ head' = (head + 1) % ringCap
                  /\ UNCHANGED len
       \/ /\ ~closing /\ len < ringCap
          /\ ring' = [ring EXCEPT ![(head + len) % ringCap] = InHand]
          /\ len' = len + 1
          /\ UNCHANGED <<head, pendingDropped>>
    /\ AsyncSend
    /\ wpc' = "check"
    /\ UNCHANGED upstream
    /\ WorkerFrame

\* import_queue_msg from its lock on: closing, a full ring or a failed
\* slot_reserve drops the message; otherwise it becomes the newest slot.
WorkerQueueMsg ==
    /\ wpc = "queue"
    /\ pendingReceived' = pendingReceived + 1
    /\ \/ /\ pendingDropped' = pendingDropped + 1
          /\ UNCHANGED fifo
       \/ /\ ~closing /\ len < ringCap
          /\ ring' = [ring EXCEPT ![(head + len) % ringCap] = InHand]
          /\ len' = len + 1
          /\ UNCHANGED <<head, pendingDropped>>
    /\ AsyncSend
    /\ wpc' = "check"
    /\ UNCHANGED upstream
    /\ WorkerFrame

Worker == WorkerCheckClosing \/ WorkerNextMsg \/ WorkerRecordDrop \/ WorkerQueueMsg

-----------------------------------------------------------------------------
(* The event loop: wake-up and mb_importer_drain.                          *)

LoopFrame == UNCHANGED <<wpc, closing, serverClosing, ringCap, resources,
                         upstream, discarded>>

\* import_flush_pending_counters
FlushPending ==
    /\ received' = received + pendingReceived
    /\ dropped' = dropped + pendingDropped
    /\ pendingReceived' = 0
    /\ pendingDropped' = 0

\* The head slot leaves the ring.
PopHead ==
    /\ head' = (head + 1) % ringCap
    /\ len' = len - 1
    /\ UNCHANGED ring

\* on_import_async: libuv clears the pending wake-up before it calls back.
OnAsync ==
    /\ lpc = "idle" /\ asyncPending /\ asyncStarted
    /\ asyncPending' = FALSE
    /\ lpc' = "peek"
    /\ UNCHANGED <<fifo, counters, pendings, scratch, peeked>>
    /\ LoopFrame

\* First critical section: flush, return when empty, note the head's size.
DrainPeek ==
    /\ lpc = "peek"
    /\ FlushPending
    /\ \/ len = 0 /\ lpc' = "idle" /\ UNCHANGED peeked
       \/ len # 0 /\ lpc' = "reserve" /\ peeked' = ring[head]
    /\ UNCHANGED <<fifo, processed, failed, asyncPending, scratch>>
    /\ LoopFrame

\* mb_buf_reserve of the scratch buffer, outside the lock.
DrainReserve ==
    /\ lpc = "reserve"
    /\ lpc' \in {"copy", "fail_pop"}
    /\ UNCHANGED <<fifo, counters, pendings, asyncPending, scratch, peeked>>
    /\ LoopFrame

\* The reservation failed: the head is dropped from the ring and counted failed.
DrainFailPop ==
    /\ lpc = "fail_pop"
    /\ FlushPending
    /\ IF len # 0 THEN PopHead /\ failed' = failed + 1
                  ELSE UNCHANGED <<fifo, failed>>
    /\ lpc' = "peek" /\ peeked' = 0
    /\ UNCHANGED <<processed, asyncPending, scratch>>
    /\ LoopFrame

\* Second critical section: the head is read again, copied and popped.
DrainCopy ==
    /\ lpc = "copy"
    /\ FlushPending
    /\ \/ len = 0 /\ lpc' = "peek" /\ peeked' = 0 /\ UNCHANGED <<fifo, scratch>>
       \/ len # 0 /\ lpc' = "handle" /\ scratch' = ring[head] /\ PopHead /\ UNCHANGED peeked
    /\ UNCHANGED <<processed, failed, asyncPending>>
    /\ LoopFrame

\* Mutant: one message per wake-up, as if every uv_async_send ran the callback.
DrainHandle_OnePerWakeup ==
    /\ lpc = "handle"
    /\ \/ ~serverClosing /\ processed' = processed + 1 /\ UNCHANGED failed
       \/ failed' = failed + 1 /\ UNCHANGED processed
    /\ scratch' = 0 /\ peeked' = 0
    /\ lpc' = "idle"
    /\ UNCHANGED <<fifo, received, dropped, pendings, asyncPending>>
    /\ LoopFrame

\* Mutant: a refused message is not counted.
DrainHandle_Uncounted ==
    /\ lpc = "handle"
    /\ \/ ~serverClosing /\ processed' = processed + 1 /\ UNCHANGED failed
       \/ UNCHANGED <<failed, processed>>
    /\ scratch' = 0 /\ peeked' = 0
    /\ lpc' = "peek"
    /\ UNCHANGED <<fifo, received, dropped, pendings, asyncPending>>
    /\ LoopFrame

\* The handler (import_ingress in main.c) refuses once the server is closing.
DrainHandle ==
    /\ lpc = "handle"
    /\ \/ ~serverClosing /\ processed' = processed + 1 /\ UNCHANGED failed
       \/ failed' = failed + 1 /\ UNCHANGED processed
    /\ scratch' = 0 /\ peeked' = 0
    /\ lpc' = "peek"
    /\ UNCHANGED <<fifo, received, dropped, pendings, asyncPending>>
    /\ LoopFrame

Drain == OnAsync \/ DrainPeek \/ DrainReserve \/ DrainFailPop \/ DrainCopy \/ DrainHandle

\* on_signal: the server starts to close and the loop stops after this iteration.
OnSignal ==
    /\ lpc = "idle" /\ ~serverClosing
    /\ serverClosing' = TRUE
    /\ UNCHANGED <<lpc, wpc, closing, fifo, ringCap, counters, pendings,
                   asyncPending, resources, upstream, scratch, peeked, discarded>>

\* main's shutdown calls mb_importer_close once uv_run has returned.
BeginClose ==
    /\ lpc = "idle" /\ serverClosing
    /\ lpc' = "close"
    /\ UNCHANGED <<fifo, counters, pendings, asyncPending, scratch, peeked>>
    /\ LoopFrame

-----------------------------------------------------------------------------
(* mb_importer_close, on the loop thread.                                  *)

CloseFrame == UNCHANGED <<serverClosing, upstream, scratch, peeked, processed, failed>>

\* Under the lock when there is one: closing is set and the counters are flushed.
CloseBegin ==
    /\ lpc = "close"
    /\ closing' = TRUE
    /\ IF lockStarted THEN FlushPending ELSE UNCHANGED <<received, dropped, pendings>>
    /\ lpc' = "join"
    /\ UNCHANGED <<wpc, fifo, ringCap, asyncPending, resources, discarded>>
    /\ CloseFrame

\* Mutant: close does not wait for the worker.
CloseJoin_NoJoin ==
    /\ lpc = "join"
    /\ threadStarted' = FALSE
    /\ lpc' = "destroy_subs"
    /\ UNCHANGED <<wpc, closing, fifo, ringCap, received, dropped, pendings, asyncPending,
                   asyncStarted, lockStarted, started, natsRefs, discarded>>
    /\ CloseFrame

\* uv_thread_join
CloseJoin ==
    /\ lpc = "join"
    /\ threadStarted => wpc = "exited"
    /\ threadStarted' = FALSE
    /\ lpc' = "destroy_subs"
    /\ UNCHANGED <<wpc, closing, fifo, ringCap, received, dropped, pendings, asyncPending,
                   asyncStarted, lockStarted, started, natsRefs, discarded>>
    /\ CloseFrame

\* Mutant: release without the started guard's reset of a never-made connection.
CloseNats_Unguarded ==
    /\ lpc = "destroy_subs"
    /\ natsRefs' = natsRefs - 1
    /\ started' = FALSE
    /\ lpc' = "close_async"
    /\ UNCHANGED <<wpc, closing, fifo, ringCap, received, dropped, pendings, asyncPending,
                   asyncStarted, lockStarted, threadStarted, discarded>>
    /\ CloseFrame

\* Subscriptions and connection destroyed, the library reference given back.
CloseNats ==
    /\ lpc = "destroy_subs"
    /\ natsRefs' = IF started THEN natsRefs - 1 ELSE natsRefs
    /\ started' = FALSE
    /\ lpc' = "close_async"
    /\ UNCHANGED <<wpc, closing, fifo, ringCap, received, dropped, pendings, asyncPending,
                   asyncStarted, lockStarted, threadStarted, discarded>>
    /\ CloseFrame

\* uv_close and the uv_run spin until on_import_async_close has run.  A closing
\* async handle no longer calls back.
CloseAsync ==
    /\ lpc = "close_async"
    /\ asyncStarted' = FALSE /\ asyncPending' = FALSE
    /\ lpc' = "free"
    /\ UNCHANGED <<wpc, closing, fifo, ringCap, received, dropped, pendings,
                   lockStarted, threadStarted, started, natsRefs, discarded>>
    /\ CloseFrame

\* The ring is freed with whatever it still holds, then the lock is destroyed.
CloseFree ==
    /\ lpc = "free"
    /\ ring' = [s \in Slots |-> 0] /\ head' = 0 /\ len' = 0 /\ ringCap' = 0
    /\ discarded' = len
    /\ lockStarted' = FALSE
    /\ lpc' = "closed"
    /\ UNCHANGED <<wpc, closing, received, dropped, pendings, asyncPending,
                   asyncStarted, threadStarted, started, natsRefs>>
    /\ CloseFrame

Close == CloseBegin \/ CloseJoin \/ CloseNats \/ CloseAsync \/ CloseFree

\* The importer is closed and its worker gone; nothing is left to do.
Done == lpc = "closed" /\ UNCHANGED vars

Next == Start \/ Worker \/ Drain \/ OnSignal \/ BeginClose \/ Close \/ Done

\* The loop thread and the worker thread are each scheduled; a poll returns
\* within its 10 ms time-out.  Signals and upstream messages may never come.
Fairness ==
    /\ WF_vars(Start) /\ WF_vars(Drain) /\ WF_vars(BeginClose) /\ WF_vars(Close)
    /\ WF_vars(WorkerCheckClosing) /\ WF_vars(WorkerNextMsg)
    /\ WF_vars(WorkerRecordDrop) /\ WF_vars(WorkerQueueMsg)

Spec == Init /\ [][Next]_vars
FairSpec == Spec /\ Fairness

-----------------------------------------------------------------------------
(* Properties.                                                             *)

\* Type invariant: the two program counters, and the ring's indices within the array
\* import_queue_msg and mb_importer_drain index without a bounds check.
TypeOK ==
    /\ lpc \in LoopSteps /\ wpc \in WorkerSteps
    /\ closing \in BOOLEAN /\ serverClosing \in BOOLEAN
    /\ ring \in [Slots -> 0 .. MaxMsgs]
    /\ head \in Slots /\ len \in 0 .. RingCap /\ ringCap \in {0, RingCap}
    /\ received \in Nat /\ dropped \in Nat /\ processed \in Nat /\ failed \in Nat
    /\ pendingReceived \in Nat /\ pendingDropped \in Nat
    /\ asyncPending \in BOOLEAN /\ asyncStarted \in BOOLEAN
    /\ lockStarted \in BOOLEAN /\ threadStarted \in BOOLEAN /\ started \in BOOLEAN
    /\ natsRefs \in Int
    /\ upstream \in 0 .. MaxMsgs /\ scratch \in 0 .. MaxMsgs
    /\ peeked \in 0 .. MaxMsgs /\ discarded \in 0 .. RingCap

\* Messages the worker holds, or the loop thread holds, but has not yet counted.
WorkerHolds == IF wpc \in {"drop", "queue"} THEN 1 ELSE 0
LoopHolds   == IF lpc = "handle" THEN 1 ELSE 0

\* Every message the upstream delivered is counted exactly once at every moment:
\* it is in a thread's hands, in the ring, or counted processed, failed, dropped
\* or freed with the ring - whichever critical sections ran in whichever order.
Conservation ==
    /\ upstream = received + pendingReceived + WorkerHolds
    /\ received + pendingReceived =
          processed + failed + dropped + pendingDropped + len + LoopHolds + discarded

\* No wake-up is lost although uv_async_send coalesces: an idle loop with messages
\* or uncounted drops outstanding has a callback pending (until close begins).
NoLostWakeup ==
    lpc = "idle" /\ (len > 0 \/ pendingReceived > 0) => asyncPending

\* drain peeks at the head, unlocks to reserve scratch space and copies after
\* locking again: the slot it then copies is still the one it sized the buffer for.
PeekStillHead ==
    lpc = "copy" => len # 0 /\ ring[head] = peeked

\* While the worker thread can run, everything it touches is alive: the lock, the
\* ring and the async handle are only torn down after the join.
WorkerOutlived ==
    wpc \notin {"none", "exited"} => lockStarted /\ asyncStarted /\ started /\ ringCap = RingCap

\* However far start got before it failed, close leaves nothing behind: no thread,
\* handle, lock, ring or reference to the NATS library, and none released twice.
CleanShutdown ==
    /\ natsRefs \in {0, 1}
    /\ lpc = "closed" =>
         /\ natsRefs = 0 /\ ~started /\ ~asyncStarted /\ ~lockStarted /\ ~threadStarted
         /\ ringCap = 0 /\ wpc \in {"none", "exited"}

\* Live position of the i-th queued message, oldest first.
Slot(i) == (head + i - 1) % RingCap

\* The queue the ring stands for.
Queued == [i \in 1 .. len |-> ring[Slot(i)]]

AbstractQueue == INSTANCE ImportQueue
    WITH Capacity <- RingCap, LastMsg <- MaxMsgs, q <- Queued, out <- scratch,
         newest <- upstream, shut <- (lpc = "closed")

\* The ring, its two indices, the peek-unlock-copy drain and the shutdown implement
\* a bounded FIFO that accepts each message at most once and hands out in order.
ImplementsQueue == AbstractQueue!Spec

\* A queued message does not stay in the ring: it is handled, or freed by close.
QueuedIsTaken ==
    \A m \in Msgs : (\E i \in 1 .. len : ring[Slot(i)] = m) ~> ~(\E i \in 1 .. len : ring[Slot(i)] = m)

\* Once a signal arrived, or start failed, close runs to its end: the join cannot wait for ever.
CloseTerminates == (serverClosing \/ closing) ~> (lpc = "closed")
=============================================================================
