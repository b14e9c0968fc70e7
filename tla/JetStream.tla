------------------------------ MODULE JetStream ------------------------------
(***************************************************************************)
(* The JetStream importer, src/jetstream.c, for one stream entry, with the *)
(* part of src/main.c that drives it: catch-up on the start-up thread      *)
(* before the listener opens, then a worker thread that fetches one        *)
(* message at a time and hands it to the event loop through a one-message  *)
(* slot guarded by a mutex and a condition variable, then shutdown.  The   *)
(* process may crash at any step and be restarted.  Several entries have a *)
(* worker, a slot and a clamped event time each; what they share is the    *)
(* patchbay clock their messages advance, and that is in PatchbayClock.    *)
(*                                                                         *)
(* The durable consumer lives on the JetStream server and is external: it  *)
(* survives a crash, remembers what it delivered and what is unacknowledged *)
(* and delivers an unacknowledged message again once its ack wait is over. *)
(* The message with stream sequence s was stored at time s.                *)
(***************************************************************************)
EXTENDS Integers, Sequences, FiniteSets, FiniteSetsExt

CONSTANTS MaxSeq,        \* bound: messages ever stored in the stream
          Matching,      \* sequences whose subject passes the consumer's filter
          Batch,         \* MB_JS_CATCHUP_BATCH
          CatchUp,       \* config->catch_up
          MaxDeliveries, \* bound: deliveries and redeliveries in a behaviour
          MaxRestarts    \* bound: restarts of the process

ASSUME StreamAssumption == MaxSeq \in Nat /\ Matching \subseteq 1 .. MaxSeq
ASSUME ConfigAssumption == CatchUp \in BOOLEAN /\ Batch \in Nat \ {0}
ASSUME BoundsAssumption == MaxDeliveries \in Nat /\ MaxRestarts \in Nat

VARIABLES
    lastSeq, delivered, unacked, expired,        \* stream and durable consumer
    deliveries, restarts,                        \* model bounds
    lpc, catchupTo, lastStreamSeq, timedOut,     \* start-up / loop thread
    batch, batchOk,                              \* natsMsgList being processed
    lastWall,                                    \* last_event_wall_ms
    received, acked, redelivered, failed,        \* counters
    wpc, wmsg, signalled,                        \* worker; its wake-up from the cond
    pendingMsg, pendingReady, inProcess, pendingDone,   \* the hand-off slot
    loopMsg,                                     \* the message on_js_async took
    asyncPending, closing, serverClosing,
    fetched, freed,        \* history: natsMsg objects of the live path
    evalTime,              \* history: event time this stream last gave to the handler
    everApplied            \* history: messages some process evaluated

consumer == <<lastSeq, delivered, unacked, expired>>
counters == <<received, acked, redelivered, failed>>
slot     == <<pendingMsg, pendingReady, inProcess, pendingDone, loopMsg>>
catchup  == <<catchupTo, timedOut, batch, batchOk>>
worker   == <<wpc, wmsg, signalled>>
applied  == <<evalTime, everApplied>>
objects  == <<fetched, freed>>
vars == <<consumer, deliveries, restarts, lpc, catchup, lastStreamSeq, lastWall, counters,
          worker, slot, asyncPending, closing, serverClosing, objects, applied>>

Seqs == 1 .. MaxSeq
NoMsg == [seq |-> 0, again |-> FALSE]
Msgs == [seq : Seqs, again : BOOLEAN]
CatchupSteps == {"highwater", "loop", "fetch", "batch", "query"}
LiveSteps == {"idle", "process", "finish"}
LoopSteps == CatchupSteps \cup LiveSteps \cup {"live", "close", "join", "destroy", "down"}
WorkerSteps == {"none", "check", "fetch", "enter", "wait", "exited"}

\* What a starting process holds: js_stream_init zeroes the stream.
Fresh ==
    /\ catchupTo = 0 /\ lastStreamSeq = 0 /\ timedOut = FALSE
    /\ batch = <<>> /\ batchOk = TRUE /\ lastWall = 0
    /\ received = 0 /\ acked = 0 /\ redelivered = 0 /\ failed = 0
    /\ wpc = "none" /\ wmsg = NoMsg /\ signalled = FALSE
    /\ pendingMsg = NoMsg /\ pendingReady = FALSE /\ inProcess = FALSE /\ pendingDone = FALSE
    /\ loopMsg = NoMsg /\ asyncPending = FALSE /\ closing = FALSE /\ serverClosing = FALSE
    /\ fetched = 0 /\ freed = 0 /\ evalTime = 0

\* The same for the process that takes the place of a crashed one.
Reset ==
    /\ catchupTo' = 0 /\ lastStreamSeq' = 0 /\ timedOut' = FALSE
    /\ batch' = <<>> /\ batchOk' = TRUE /\ lastWall' = 0
    /\ received' = 0 /\ acked' = 0 /\ redelivered' = 0 /\ failed' = 0
    /\ wpc' = "none" /\ wmsg' = NoMsg /\ signalled' = FALSE
    /\ pendingMsg' = NoMsg /\ pendingReady' = FALSE /\ inProcess' = FALSE /\ pendingDone' = FALSE
    /\ loopMsg' = NoMsg /\ asyncPending' = FALSE /\ closing' = FALSE /\ serverClosing' = FALSE
    /\ fetched' = 0 /\ freed' = 0 /\ evalTime' = 0

Init ==
    /\ lastSeq \in 0 .. MaxSeq
    /\ delivered = 0 /\ unacked = {} /\ expired = {}
    /\ deliveries = 0 /\ restarts = 0 /\ everApplied = {}
    /\ lpc = IF CatchUp THEN "highwater" ELSE "live"
    /\ Fresh

-----------------------------------------------------------------------------
(* The stream and the durable consumer (external).                         *)

local == <<lpc, catchup, lastStreamSeq, lastWall, counters, worker, slot, asyncPending,
           closing, serverClosing, objects, applied>>

\* Another message is stored in the stream.
StreamPublish ==
    /\ lastSeq < MaxSeq
    /\ lastSeq' = lastSeq + 1
    /\ UNCHANGED <<delivered, unacked, expired, deliveries, restarts, local>>

\* The ack wait of an unacknowledged message is over.
AckWaitExpires ==
    /\ \E s \in unacked \ expired : expired' = expired \cup {s}
    /\ UNCHANGED <<lastSeq, delivered, unacked, deliveries, restarts, local>>

\* Matching messages never delivered before; NumPending counts only these.
New        == {s \in Matching : delivered < s /\ s <= lastSeq}
NumPending == Cardinality(New)
AckFloor   == IF unacked = {} THEN delivered ELSE Min(unacked) - 1

\* The messages a fetch may return, and their order: those due again, then new ones.
Due == [seq : expired, again : {TRUE}] \cup [seq : New, again : {FALSE}]
Precedes(a, b) == IF a.again = b.again THEN a.seq < b.seq ELSE a.again

\* What a fetch returns when it returns n messages: the first n, in order.
Fetches(n) ==
    {list \in [1 .. n -> Due] :
        /\ \A i, j \in 1 .. n : i < j => Precedes(list[i], list[j])
        /\ \A i \in 1 .. n : \A m \in Due : Precedes(m, list[i]) => \E j \in 1 .. n : list[j] = m}

\* The consumer delivers the messages of the list.
Deliver(list) ==
    LET seqs == {list[i].seq : i \in 1 .. Len(list)}
    IN  /\ delivered' = Max(seqs \cup {delivered})
        /\ unacked' = unacked \cup seqs
        /\ expired' = expired \ seqs
        /\ deliveries' = deliveries + Len(list)
        /\ UNCHANGED lastSeq

\* natsMsg_Ack only hands the ack to the connection: it may be lost on the way.
AckSent(s) ==
    /\ \/ unacked' = unacked \ {s} /\ expired' = expired \ {s}
       \/ UNCHANGED <<unacked, expired>>
    /\ UNCHANGED <<lastSeq, delivered>>

-----------------------------------------------------------------------------
(* js_stream_process_msg, shared by catch-up and the live path.            *)

\* Mutant: the stored time is used as it is.
EventTime_Unclamped(m) == m.seq

\* event_time_from_msg: stored time, clamped to that of this stream's last acknowledged message.
EventTime(m) == IF lastWall # 0 /\ m.seq < lastWall THEN lastWall ELSE m.seq

\* The frame, metadata or subject is not acceptable.
RejectMsg(m) ==
    /\ received' = received + 1 /\ failed' = failed + 1
    /\ UNCHANGED <<acked, redelivered, lastStreamSeq, lastWall, applied, consumer>>

Redelivered(m) == redelivered' = IF m.again THEN redelivered + 1 ELSE redelivered

\* The handler refuses: jetstream_ingress does nothing when the server is closing;
\* otherwise the clock was advanced and the rules ran, but one of them failed.
RefuseMsg(m) ==
    /\ received' = received + 1 /\ failed' = failed + 1 /\ Redelivered(m)
    /\ evalTime' = IF serverClosing THEN evalTime ELSE EventTime(m)
    /\ UNCHANGED <<acked, lastStreamSeq, lastWall, everApplied, consumer>>

\* The message was applied, but natsMsg_Ack reports an error.
AckFailsMsg(m) ==
    /\ ~serverClosing
    /\ received' = received + 1 /\ failed' = failed + 1 /\ Redelivered(m)
    /\ evalTime' = EventTime(m) /\ everApplied' = everApplied \cup {m.seq}
    /\ UNCHANGED <<acked, lastStreamSeq, lastWall, consumer>>

\* Mutant: the message is acknowledged before it is evaluated, and evaluation fails.
AckMsg_AckFirst(m) ==
    /\ ~serverClosing
    /\ received' = received + 1 /\ acked' = acked + 1 /\ Redelivered(m)
    /\ evalTime' = EventTime(m) /\ everApplied' \in {everApplied, everApplied \cup {m.seq}}
    /\ lastStreamSeq' = m.seq /\ lastWall' = EventTime(m)
    /\ AckSent(m.seq)
    /\ UNCHANGED failed

\* Applied and acknowledged.
AckMsg(m) ==
    /\ ~serverClosing
    /\ received' = received + 1 /\ acked' = acked + 1 /\ Redelivered(m)
    /\ evalTime' = EventTime(m) /\ everApplied' = everApplied \cup {m.seq}
    /\ lastStreamSeq' = m.seq /\ lastWall' = EventTime(m)
    /\ AckSent(m.seq)
    /\ UNCHANGED failed

FailMsg(m) == RejectMsg(m) \/ RefuseMsg(m) \/ AckFailsMsg(m)

-----------------------------------------------------------------------------
(* Catch-up: js_stream_catch_up, run by main before the listener opens.    *)

CatchupFrame == UNCHANGED <<restarts, worker, slot, asyncPending, closing, serverClosing, objects>>

\* A start that fails closes the importer, and the process exits.
StartFails == lpc' = "down"

\* js_stream_load_highwater
LoadHighwater ==
    /\ lpc = "highwater"
    /\ \/ catchupTo' = lastSeq /\ lpc' = "loop"
       \/ StartFails /\ UNCHANGED catchupTo
    /\ UNCHANGED <<consumer, deliveries, timedOut, batch, batchOk, lastStreamSeq, lastWall,
                   counters, applied>>
    /\ CatchupFrame

CatchupLoop ==
    /\ lpc = "loop"
    /\ lpc' = IF catchupTo = 0 \/ lastStreamSeq >= catchupTo THEN "live" ELSE "fetch"
    /\ UNCHANGED <<consumer, deliveries, catchup, lastStreamSeq, lastWall, counters, applied>>
    /\ CatchupFrame

\* natsSubscription_Fetch of a batch: time-out, error, or some messages.
CatchupFetch ==
    /\ lpc = "fetch"
    /\ \/ /\ lpc' = "query" /\ timedOut' = TRUE
          /\ UNCHANGED <<batch, batchOk, consumer, deliveries>>
       \/ StartFails /\ UNCHANGED <<timedOut, batch, batchOk, consumer, deliveries>>
       \/ \E n \in 1 .. Batch : \E list \in Fetches(n) :
             /\ deliveries + n <= MaxDeliveries
             /\ batch' = list /\ batchOk' = TRUE
             /\ Deliver(list)
             /\ timedOut' = FALSE /\ lpc' = "batch"
    /\ UNCHANGED <<catchupTo, lastStreamSeq, lastWall, counters, applied>>
    /\ CatchupFrame

\* Every message of the batch is processed, also after one of them failed.
CatchupProcess ==
    /\ lpc = "batch" /\ batch # <<>>
    /\ \/ AckMsg(Head(batch)) /\ UNCHANGED batchOk
       \/ FailMsg(Head(batch)) /\ batchOk' = FALSE
    /\ batch' = Tail(batch)
    /\ UNCHANGED <<lpc, deliveries, catchupTo, timedOut>>
    /\ CatchupFrame

CatchupBatchEnd ==
    /\ lpc = "batch" /\ batch = <<>>
    /\ IF batchOk THEN lpc' = "query" ELSE StartFails
    /\ UNCHANGED <<consumer, deliveries, catchup, lastStreamSeq, lastWall, counters, applied>>
    /\ CatchupFrame

\* Mutant: a fetch that timed out is taken for the end of the backlog.
CatchupQuery_TimeoutIsEnd ==
    /\ lpc = "query"
    /\ lpc' = IF lastStreamSeq >= catchupTo \/ timedOut THEN "live" ELSE "loop"
    /\ UNCHANGED lastStreamSeq
    /\ UNCHANGED <<consumer, deliveries, catchup, lastWall, counters, applied>>
    /\ CatchupFrame

\* High-water reached, or js_stream_pending_zero says so (its query may fail).
CatchupQuery ==
    /\ lpc = "query"
    /\ \/ /\ lastStreamSeq >= catchupTo
          /\ lpc' = "live" /\ UNCHANGED lastStreamSeq
       \/ /\ lastStreamSeq < catchupTo
          /\ lpc' = "loop" /\ UNCHANGED lastStreamSeq
       \/ /\ lastStreamSeq < catchupTo /\ NumPending = 0
          /\ lastStreamSeq' = Max({lastStreamSeq, AckFloor})
          /\ lpc' = "live"
    /\ UNCHANGED <<consumer, deliveries, catchup, lastWall, counters, applied>>
    /\ CatchupFrame

\* main: clock offset, listener, js_stream_start_live.
GoLive ==
    /\ lpc = "live"
    /\ \/ lpc' = "idle" /\ wpc' = "check"
       \/ StartFails /\ UNCHANGED wpc
    /\ UNCHANGED <<consumer, deliveries, restarts, catchup, lastStreamSeq, lastWall, counters,
                   wmsg, signalled, slot, asyncPending, closing, serverClosing, objects, applied>>

CatchUpPhase == \/ LoadHighwater \/ CatchupLoop \/ CatchupFetch
                \/ CatchupProcess \/ CatchupBatchEnd \/ CatchupQuery \/ GoLive

-----------------------------------------------------------------------------
(* The live worker thread.                                                 *)

WorkerFrame == UNCHANGED <<restarts, lpc, catchup, lastStreamSeq, lastWall, counters,
                           closing, serverClosing, applied>>

WorkerCheck ==
    /\ wpc = "check"
    /\ wpc' = IF closing THEN "exited" ELSE "fetch"
    /\ UNCHANGED <<consumer, deliveries, wmsg, signalled, slot, asyncPending, objects>>
    /\ WorkerFrame

\* Fetch of one message; a time-out or an error goes round again.
WorkerFetch ==
    /\ wpc = "fetch"
    /\ \/ wpc' = "check" /\ UNCHANGED <<wmsg, consumer, deliveries, objects>>
       \/ \E list \in Fetches(1) :
             /\ deliveries < MaxDeliveries
             /\ wmsg' = list[1] /\ wpc' = "enter"
             /\ Deliver(list)
             /\ fetched' = fetched + 1 /\ UNCHANGED freed
    /\ UNCHANGED <<signalled, slot, asyncPending>>
    /\ WorkerFrame

\* js_stream_handoff_msg up to its first wait.  The message is refused when the
\* stream is closing, otherwise it waits for a free slot and fills it; if the wake-up
\* cannot be sent it is taken out again and destroyed.
HandoffEnter ==
    /\ wpc = "enter"
    /\ \/ /\ closing
          /\ freed' = freed + 1 /\ wmsg' = NoMsg /\ wpc' = "check"
          /\ UNCHANGED <<slot, asyncPending, signalled>>
       \/ /\ ~closing /\ ~pendingReady /\ ~inProcess
          /\ pendingMsg' = wmsg /\ pendingReady' = TRUE
          /\ pendingDone' = FALSE /\ inProcess' = FALSE
          /\ asyncPending' = TRUE
          /\ signalled' = FALSE
          /\ wpc' = "wait" /\ UNCHANGED <<wmsg, freed, loopMsg>>
       \/ /\ ~closing /\ ~pendingReady /\ ~inProcess
          /\ pendingMsg' = NoMsg /\ pendingReady' = FALSE
          /\ pendingDone' = FALSE /\ inProcess' = FALSE
          /\ freed' = freed + 1 /\ wmsg' = NoMsg /\ wpc' = "check"
          /\ UNCHANGED <<asyncPending, signalled, loopMsg>>
    /\ UNCHANGED <<consumer, deliveries, fetched>>
    /\ WorkerFrame

\* Mutant: the retracted message stays in the slot, where close destroys it again.
HandoffWake_KeepSlot ==
    /\ wpc = "wait" /\ signalled
    /\ signalled' = FALSE
    /\ \/ /\ pendingDone
          /\ wmsg' = NoMsg /\ wpc' = "check" /\ UNCHANGED <<slot, freed>>
       \/ /\ ~pendingDone /\ closing /\ pendingReady /\ ~inProcess
          /\ pendingReady' = FALSE
          /\ freed' = freed + 1 /\ wmsg' = NoMsg /\ wpc' = "check"
          /\ UNCHANGED <<inProcess, pendingDone, pendingMsg, loopMsg>>
       \/ /\ ~pendingDone /\ ~(closing /\ pendingReady /\ ~inProcess)
          /\ UNCHANGED <<slot, wmsg, wpc, freed>>
    /\ UNCHANGED <<consumer, deliveries, asyncPending, fetched>>
    /\ WorkerFrame

\* The worker wakes from uv_cond_wait: the loop is done with the message, or
\* close has begun and the message is still in the slot, or it waits again.
HandoffWake ==
    /\ wpc = "wait" /\ signalled
    /\ signalled' = FALSE
    /\ \/ /\ pendingDone
          /\ wmsg' = NoMsg /\ wpc' = "check" /\ UNCHANGED <<slot, freed>>
       \/ /\ ~pendingDone /\ closing /\ pendingReady /\ pendingMsg = wmsg /\ ~inProcess
          /\ pendingMsg' = NoMsg /\ pendingReady' = FALSE
          /\ freed' = freed + 1 /\ wmsg' = NoMsg /\ wpc' = "check"
          /\ UNCHANGED <<inProcess, pendingDone, loopMsg>>
    /\ UNCHANGED <<consumer, deliveries, asyncPending, fetched>>
    /\ WorkerFrame

Worker == WorkerCheck \/ WorkerFetch \/ HandoffEnter \/ HandoffWake

-----------------------------------------------------------------------------
(* The event loop: on_js_async, the signal and js_stream_close.            *)

LoopFrame == UNCHANGED <<deliveries, restarts, catchup, serverClosing>>

\* First critical section of on_js_async.
OnAsync ==
    /\ lpc = "idle" /\ asyncPending
    /\ asyncPending' = FALSE
    /\ IF pendingReady
       THEN /\ loopMsg' = pendingMsg /\ pendingMsg' = NoMsg
            /\ pendingReady' = FALSE /\ inProcess' = TRUE /\ lpc' = "process"
       ELSE UNCHANGED <<loopMsg, pendingMsg, pendingReady, inProcess, lpc>>
    /\ UNCHANGED <<pendingDone, consumer, lastStreamSeq, lastWall, counters,
                   worker, closing, objects, applied>>
    /\ LoopFrame

\* js_stream_process_msg and natsMsg_Destroy, outside the lock.
LiveProcess ==
    /\ lpc = "process"
    /\ AckMsg(loopMsg) \/ FailMsg(loopMsg)
    /\ loopMsg' = NoMsg /\ freed' = freed + 1
    /\ lpc' = "finish"
    /\ UNCHANGED <<pendingMsg, pendingReady, inProcess, pendingDone, worker, asyncPending, closing, fetched>>
    /\ LoopFrame

\* Second critical section: done, broadcast.
LiveFinish ==
    /\ lpc = "finish"
    /\ inProcess' = FALSE /\ pendingDone' = TRUE
    /\ signalled' = TRUE
    /\ lpc' = "idle"
    /\ UNCHANGED <<pendingMsg, pendingReady, loopMsg, consumer, lastStreamSeq, lastWall, counters,
                   wpc, wmsg, asyncPending, closing, objects, applied>>
    /\ LoopFrame

\* on_signal: the handler refuses from now on; the loop ends after this iteration.
OnSignal ==
    /\ lpc = "idle" /\ ~serverClosing
    /\ serverClosing' = TRUE
    /\ UNCHANGED <<consumer, deliveries, restarts, lpc, catchup, lastStreamSeq, lastWall,
                   counters, worker, slot, asyncPending, closing, objects, applied>>

ShutdownBegins ==
    /\ lpc = "idle" /\ serverClosing
    /\ lpc' = "close"
    /\ UNCHANGED <<consumer, lastStreamSeq, lastWall, counters, worker, slot, asyncPending,
                   closing, objects, applied>>
    /\ LoopFrame

\* Mutant: closing is set without waking the worker.
CloseBegin_NoBroadcast ==
    /\ lpc = "close"
    /\ closing' = TRUE /\ lpc' = "join"
    /\ UNCHANGED <<consumer, lastStreamSeq, lastWall, counters, worker, slot,
                   asyncPending, objects, applied>>
    /\ LoopFrame

\* js_stream_close: closing and broadcast under the lock.
CloseBegin ==
    /\ lpc = "close"
    /\ closing' = TRUE /\ signalled' = TRUE /\ lpc' = "join"
    /\ UNCHANGED <<consumer, lastStreamSeq, lastWall, counters, wpc, wmsg, slot,
                   asyncPending, objects, applied>>
    /\ LoopFrame

CloseJoin ==
    /\ lpc = "join" /\ wpc = "exited"
    /\ lpc' = "destroy"
    /\ UNCHANGED <<consumer, lastStreamSeq, lastWall, counters, worker, slot, asyncPending,
                   closing, objects, applied>>
    /\ LoopFrame

\* A message left in the slot is destroyed, then the connection, handle and locks.
CloseDestroy ==
    /\ lpc = "destroy"
    /\ freed' = IF pendingMsg # NoMsg THEN freed + 1 ELSE freed
    /\ pendingMsg' = NoMsg /\ asyncPending' = FALSE
    /\ lpc' = "down"
    /\ UNCHANGED <<pendingReady, inProcess, pendingDone, loopMsg, consumer, lastStreamSeq, lastWall,
                   counters, worker, closing, fetched, applied>>
    /\ LoopFrame

Loop == OnAsync \/ LiveProcess \/ LiveFinish \/ ShutdownBegins
        \/ CloseBegin \/ CloseJoin \/ CloseDestroy

-----------------------------------------------------------------------------
(* Crash and restart.                                                      *)

\* The process dies: threads, slot and counters are gone, the consumer is not.
Crash ==
    /\ lpc # "down" /\ restarts < MaxRestarts
    /\ lpc' = "down"
    /\ Reset
    /\ UNCHANGED <<consumer, deliveries, restarts, everApplied>>

\* The service manager starts a new process.
Restart ==
    /\ lpc = "down" /\ restarts < MaxRestarts
    /\ restarts' = restarts + 1
    /\ lpc' = IF CatchUp THEN "highwater" ELSE "live"
    /\ Reset
    /\ UNCHANGED <<consumer, deliveries, everApplied>>

\* The last process is gone.
Stopped == lpc = "down" /\ restarts = MaxRestarts /\ UNCHANGED vars

Next == \/ StreamPublish \/ AckWaitExpires \/ CatchUpPhase \/ Worker \/ Loop
        \/ OnSignal \/ Crash \/ Restart \/ Stopped

\* Both threads are scheduled and every fetch returns within its time-out.
\* Publishing, redelivery, signals, crashes and restarts may or may not happen.
Fairness ==
    /\ WF_vars(Loop)
    /\ WF_vars(WorkerCheck) /\ WF_vars(WorkerFetch)
    /\ WF_vars(HandoffEnter) /\ WF_vars(HandoffWake)

Spec == Init /\ [][Next]_vars
FairSpec == Spec /\ Fairness

-----------------------------------------------------------------------------
(* Properties.                                                             *)

ConsumerType ==
    /\ lastSeq \in 0 .. MaxSeq /\ delivered \in 0 .. MaxSeq
    /\ unacked \subseteq Seqs /\ expired \subseteq unacked
    /\ deliveries \in 0 .. MaxDeliveries /\ restarts \in 0 .. MaxRestarts

PositionType ==
    /\ lpc \in LoopSteps /\ wpc \in WorkerSteps
    /\ catchupTo \in 0 .. MaxSeq /\ lastStreamSeq \in 0 .. MaxSeq /\ lastWall \in 0 .. MaxSeq
    /\ batch \in Seq(Msgs)
    /\ wmsg \in Msgs \cup {NoMsg} /\ pendingMsg \in Msgs \cup {NoMsg} /\ loopMsg \in Msgs \cup {NoMsg}
    /\ evalTime \in 0 .. MaxSeq /\ everApplied \subseteq Seqs

FlagType ==
    /\ timedOut \in BOOLEAN /\ batchOk \in BOOLEAN /\ signalled \in BOOLEAN
    /\ pendingReady \in BOOLEAN /\ inProcess \in BOOLEAN /\ pendingDone \in BOOLEAN
    /\ asyncPending \in BOOLEAN /\ closing \in BOOLEAN /\ serverClosing \in BOOLEAN

\* Type invariant; js_stream_process_msg counts every message it receives as acknowledged
\* or as failed, never both.
TypeOK ==
    /\ ConsumerType /\ PositionType /\ FlagType
    /\ received = acked + failed /\ redelivered <= received

\* "Acks after successful patchbay evaluation": the consumer forgets a message only
\* when some process has evaluated it, whatever crashed, was lost or came twice.
AckedWasApplied ==
    (Matching \cap 1 .. delivered) \ unacked \subseteq everApplied

\* Who holds a natsMsg object of the live path.
Owners ==
    {o \in {"worker", "slot", "loop"} :
        \/ o = "worker" /\ wpc = "enter"
        \/ o = "slot" /\ pendingMsg # NoMsg
        \/ o = "loop" /\ loopMsg # NoMsg}

\* Each fetched natsMsg object has exactly one owner - the worker, the slot or the
\* callback - until it is destroyed, and it is destroyed once (close included).
OneOwner == fetched = freed + Cardinality(Owners)

\* When the listener opens after catch-up, no message up to the high-water mark was
\* skipped: each was delivered, and is either applied or still owed by the consumer.
NothingSkipped ==
    CatchUp /\ lpc \in {"live"} \cup LiveSteps =>
        \A s \in Matching : s <= catchupTo => s <= delivered /\ (s \in everApplied \/ s \in unacked)

\* In the loading phase the event times of one stream never run backwards, although redelivered
\* messages come late and the clamp looks only at the last acknowledged message.  It says
\* nothing of two streams, which share patchbay's clock.
StreamTimeMonotone == [][(lpc \in CatchupSteps /\ lpc' # "down") => evalTime' >= evalTime]_vars

\* Once a signal stopped the loop, mb_jetstream_close runs to its end: the join does not
\* wait for a worker that waits for the loop.
CloseTerminates == serverClosing ~> (lpc = "down")
=============================================================================
