------------------------------ MODULE Snapshot ------------------------------
(***************************************************************************)
(* The snapshot file: the periodic write that server.c hands to libuv's    *)
(* thread pool (on_snapshot_timer, snapshot_work_cb,                       *)
(* snapshot_after_work_cb), the final synchronous write of                 *)
(* mb_server_close, the temporary file and rename of                       *)
(* mb_write_file_atomic (fs.c), and mb_snapshot_load at the next start     *)
(* (snapshot.c).                                                           *)
(*                                                                         *)
(* What the router and the rules hold is abstracted to a version, one more *)
(* at every change; bytes built from it carry that version.  Two threads   *)
(* may be inside mb_write_file_atomic: a thread-pool worker and the main   *)
(* thread.  The process may be killed at any step; the machine may also    *)
(* stop before it has written the file's data, because the code does not   *)
(* fsync.                                                                  *)
(***************************************************************************)
EXTENDS Integers

CONSTANTS MaxVersion,   \* bound: changes of the state
          MaxFailures,  \* bound: failing allocations, file operations and libuv calls
          MaxRestarts   \* bound: starts after the first

ASSUME MaxVersionAssumption == MaxVersion \in Nat
ASSUME MaxFailuresAssumption == MaxFailures \in Nat
ASSUME MaxRestartsAssumption == MaxRestarts \in Nat

Threads == {"worker", "main"}
NoFile  == [version |-> 0, state |-> "absent"]
Whole(v) == [version |-> v, state |-> "whole"]
Torn(v)  == [version |-> v, state |-> "torn"]   \* half-written
Lost(v)  == [version |-> v, state |-> "lost"]   \* its data went with the power
Idle     == [at |-> "idle", version |-> 0]

VARIABLES
    phase,      \* main: "running", "stopping", "closing", "exited", "down", "refused"
    version,    \* the state the router and the rules hold
    pending,    \* snapshot_write_pending (and snapshot_job # NULL)
    again,      \* snapshot_write_again
    write,      \* where each thread is in its write, and the version it writes
    file, tmp,  \* PATH and PATH.tmp
    synced,     \* PATH's data is on disk
    saved,      \* history: the final snapshot was written
    failures, restarts

vars == <<phase, version, pending, again, write, file, tmp, synced, saved, failures, restarts>>

\* server->closing: set by on_signal and again by mb_server_close.
Closing == phase # "running"

MayFail == failures < MaxFailures /\ failures' = failures + 1
Succeeds == UNCHANGED failures

-----------------------------------------------------------------------------
(* The event loop.                                                         *)

\* A publish, an import or a timer changes what a snapshot would hold.
Update ==
    /\ phase = "running" /\ version < MaxVersion
    /\ version' = version + 1
    /\ UNCHANGED <<phase, pending, again, write, file, tmp, synced, saved, failures, restarts>>

\* Mutant: a job that could not be queued stays pending.
StartJob_StaysPending ==
    /\ pending' = TRUE
    /\ \/ Succeeds /\ write' = [write EXCEPT !["worker"] = [at |-> "queued", version |-> version]]
       \/ MayFail /\ write' = [write EXCEPT !["worker"] = Idle]

\* on_snapshot_timer from the point where no write is pending: the bytes are built now
\* and queued, unless an allocation, the build or uv_queue_work fails.
StartJob ==
    \/ /\ Succeeds
       /\ pending' = TRUE
       /\ write' = [write EXCEPT !["worker"] = [at |-> "queued", version |-> version]]
    \/ /\ MayFail
       /\ pending' = FALSE
       /\ write' = [write EXCEPT !["worker"] = Idle]

\* on_snapshot_timer
SnapshotTimer ==
    /\ phase = "running"
    /\ IF pending
       THEN again' = TRUE /\ UNCHANGED <<pending, write, failures>>
       ELSE StartJob /\ UNCHANGED again
    /\ UNCHANGED <<phase, version, file, tmp, synced, saved, restarts>>

\* snapshot_after_work_cb, on the loop of uv_run in main or in mb_server_close.
AfterWork ==
    /\ phase \in {"running", "closing"}
    /\ write["worker"].at \in {"done", "failed", "canceled"}
    /\ IF ~Closing /\ again
       THEN again' = FALSE /\ StartJob
       ELSE /\ pending' = FALSE
            /\ write' = [write EXCEPT !["worker"] = Idle]
            /\ UNCHANGED <<again, failures>>
    /\ UNCHANGED <<phase, version, file, tmp, synced, saved, restarts>>

-----------------------------------------------------------------------------
(* mb_write_file_atomic, step by step, in thread th.                       *)

At(th, s) == write' = [write EXCEPT ![th].at = s]

Ready(th) == IF th = "worker" THEN write[th].at = "queued" ELSE write[th].at = "built"

\* fopen(tmp, "wb")
OpenTmp(th) ==
    /\ Ready(th)
    /\ \/ Succeeds /\ tmp' = Torn(write[th].version) /\ At(th, "open")
       \/ MayFail /\ At(th, "failed") /\ UNCHANGED tmp
    /\ UNCHANGED <<phase, version, pending, again, file, synced, saved, restarts>>

\* fwrite, fflush, fclose; on failure the temporary file is removed.
WriteTmp(th) ==
    /\ write[th].at = "open"
    /\ \/ Succeeds /\ tmp' = Whole(write[th].version) /\ At(th, "written")
       \/ MayFail /\ tmp' = NoFile /\ At(th, "failed")
    /\ UNCHANGED <<phase, version, pending, again, file, synced, saved, restarts>>

\* Mutant: the renamed file is the one just opened, before its bytes are written.
RenameTmp_Early(th) ==
    /\ write[th].at = "open"
    /\ Succeeds /\ file' = tmp /\ tmp' = NoFile /\ synced' = FALSE /\ At(th, "done")
    /\ saved' = (saved \/ th = "main")
    /\ UNCHANGED <<phase, version, pending, again, restarts>>

\* rename; on failure the temporary file is removed.
RenameTmp(th) ==
    /\ write[th].at = "written"
    /\ \/ /\ Succeeds /\ tmp.state # "absent"
          /\ file' = tmp /\ tmp' = NoFile /\ synced' = FALSE /\ At(th, "done")
          /\ saved' = (saved \/ th = "main")
       \/ /\ MayFail /\ tmp' = NoFile /\ At(th, "failed")
          /\ UNCHANGED <<file, synced, saved>>
    /\ UNCHANGED <<phase, version, pending, again, restarts>>

-----------------------------------------------------------------------------
(* Shutdown.                                                               *)

\* on_signal
OnSignal ==
    /\ phase = "running"
    /\ phase' = "stopping"
    /\ again' = FALSE
    /\ UNCHANGED <<version, pending, write, file, tmp, synced, saved, failures, restarts>>

\* mb_server_close, up to the cancellation: only a job no worker has begun is canceled.
ServerClose ==
    /\ phase = "stopping"
    /\ phase' = "closing"
    /\ again' = FALSE
    /\ IF write["worker"].at = "queued" THEN At("worker", "canceled") ELSE UNCHANGED write
    /\ UNCHANGED <<version, pending, file, tmp, synced, saved, failures, restarts>>

\* Mutant: the final snapshot does not wait for the job.
JobFinished_NoWait == TRUE

\* uv_run returns, and the loop over snapshot_job ends.
JobFinished == ~pending

\* mb_snapshot_write: builds the bytes and goes on to write them.
FinalBuild ==
    /\ phase = "closing" /\ write["main"].at = "idle" /\ JobFinished
    /\ \/ Succeeds /\ write' = [write EXCEPT !["main"] = [at |-> "built", version |-> version]]
       \/ MayFail /\ At("main", "failed")
    /\ UNCHANGED <<phase, version, pending, again, file, tmp, synced, saved, restarts>>

\* The end of mb_server_close and of main.
Exit ==
    /\ phase = "closing" /\ write["main"].at \in {"done", "failed"}
    /\ phase' = "exited"
    /\ UNCHANGED <<version, pending, again, write, file, tmp, synced, saved, failures, restarts>>

-----------------------------------------------------------------------------
(* The environment: the disk, crashes, the next start.                     *)

\* The kernel writes the data of PATH back.
WriteBack ==
    /\ ~synced
    /\ synced' = TRUE
    /\ UNCHANGED <<phase, version, pending, again, write, file, tmp, saved, failures, restarts>>

Dies ==
    /\ phase \notin {"down", "refused"}
    /\ phase' = "down"
    /\ version' = 0 /\ pending' = FALSE /\ again' = FALSE /\ saved' = FALSE
    /\ write' = [th \in Threads |-> Idle]

\* The process is killed: every file stays as it is.
Killed ==
    /\ Dies
    /\ UNCHANGED <<file, tmp, synced, failures, restarts>>

\* The machine stops: a rename that reached the disk may name a file whose data did not.
PowerLoss ==
    /\ Dies
    /\ ~synced /\ file' = Lost(file.version) /\ synced' = TRUE
    /\ UNCHANGED <<tmp, failures, restarts>>

\* mb_server_init with mb_snapshot_load: no file, or one without its header, is an empty
\* state; a file that does not parse stops the start.
Restart ==
    /\ phase \in {"down", "exited"} /\ restarts < MaxRestarts
    /\ restarts' = restarts + 1
    /\ \/ /\ file.state = "whole" /\ phase' = "running" /\ version' = file.version
       \/ /\ file.state \in {"absent", "torn", "lost"} /\ phase' = "running" /\ version' = 0
       \/ /\ file.state \in {"torn", "lost"} /\ phase' = "refused" /\ UNCHANGED version
    /\ pending' = FALSE /\ again' = FALSE /\ saved' = FALSE
    /\ write' = [th \in Threads |-> Idle]
    /\ UNCHANGED <<file, tmp, synced, failures>>

\* Nobody starts the process again.
Done == phase \in {"exited", "down", "refused"} /\ UNCHANGED vars

Init ==
    /\ phase = "running" /\ version = 0 /\ pending = FALSE /\ again = FALSE
    /\ write = [th \in Threads |-> Idle]
    /\ file = NoFile /\ tmp = NoFile /\ synced = TRUE /\ saved = FALSE
    /\ failures = 0 /\ restarts = 0

Next == \/ Update \/ SnapshotTimer \/ AfterWork
        \/ \E th \in Threads : OpenTmp(th) \/ WriteTmp(th) \/ RenameTmp(th)
        \/ OnSignal \/ ServerClose \/ FinalBuild \/ Exit
        \/ WriteBack \/ Killed \/ PowerLoss \/ Restart \/ Done

Spec == Init /\ [][Next]_vars

\* The loop runs its callbacks, the repeating timer fires, the thread pool and main make
\* progress.  Nothing obliges the environment to send a signal, crash or restart.
Fairness ==
    /\ WF_vars(SnapshotTimer /\ ~pending) /\ WF_vars(AfterWork)
    /\ \A th \in Threads : WF_vars(OpenTmp(th)) /\ WF_vars(WriteTmp(th)) /\ WF_vars(RenameTmp(th))
    /\ WF_vars(ServerClose) /\ WF_vars(FinalBuild) /\ WF_vars(Exit)

FairSpec == Spec /\ Fairness

-----------------------------------------------------------------------------
(* Properties.                                                             *)

\* Type invariant, with the bookkeeping of the job: pending is set exactly while a job
\* exists (snapshot_write_pending and snapshot_job move together in server.c).
TypeOK ==
    /\ phase \in {"running", "stopping", "closing", "exited", "down", "refused"}
    /\ version \in 0 .. MaxVersion
    /\ pending \in BOOLEAN /\ again \in BOOLEAN /\ synced \in BOOLEAN /\ saved \in BOOLEAN
    /\ write \in [Threads -> [at : {"idle", "queued", "canceled", "built", "open", "written",
                                    "done", "failed"},
                              version : 0 .. MaxVersion]]
    /\ file \in [version : 0 .. MaxVersion, state : {"absent", "whole", "torn", "lost"}]
    /\ tmp \in [version : 0 .. MaxVersion, state : {"absent", "whole", "torn"}]
    /\ failures \in 0 .. MaxFailures /\ restarts \in 0 .. MaxRestarts
    /\ pending <=> write["worker"].at # "idle"

\* PATH is never a half-written file, wherever the process is killed: the next start
\* finds the last complete snapshot or none (mb_write_file_atomic).  Only a loss of power
\* can take its data.
FileWhole == file.state # "torn"

\* After a clean exit whose final write succeeded, PATH holds the state at shutdown,
\* not what a slow job wrote meanwhile.
FinalIsLatest == phase = "exited" /\ saved => file = Whole(version)

\* A state that has been reached is on file in the end, or shutdown or a crash came
\* first: the repeating timer and the write-again flag lose no change for ever.
EventuallySaved ==
    \A v \in 1 .. MaxVersion :
        (phase = "running" /\ version = v) ~> ((file.state = "whole" /\ file.version >= v) \/ phase # "running")
=============================================================================
