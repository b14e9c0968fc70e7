--------------------------- MODULE SnapshotProofs ---------------------------
(***************************************************************************)
(* Machine-checked proofs about module Snapshot, for every number of       *)
(* changes, failures and restarts.                                         *)
(*                                                                         *)
(* Neither property is inductive.  That PATH is never torn rests on        *)
(* PATH.tmp being what the renaming thread wrote (TmpOwned), and that on   *)
(* only one thread being inside mb_write_file_atomic: the final write of   *)
(* mb_server_close starts when no job is pending and from then on no timer *)
(* starts one (OneWriter).  That the last file is the last state rests on  *)
(* the state standing still from the moment the final bytes are built      *)
(* (FinalHeld).                                                            *)
(***************************************************************************)
EXTENDS Snapshot, TLAPS

\* Where each thread may be, in each phase of the process; the worker and the main thread
\* are never both in a write.
OneWriter ==
    /\ write["main"].at \in {"idle", "built", "open", "written", "done", "failed"}
    /\ write["worker"].at \in {"idle", "queued", "canceled", "open", "written", "done", "failed"}
    /\ write["main"].at # "idle" => phase \in {"closing", "exited"} /\ write["worker"].at = "idle"
    /\ phase = "exited" => write["main"].at # "idle"
    /\ phase \in {"down", "refused"} => write["worker"].at = "idle"

\* PATH.tmp holds what the thread that is writing it has written so far.
TmpOwned ==
    \A th \in Threads :
        /\ write[th].at = "open" => tmp = Torn(write[th].version)
        /\ write[th].at = "written" => tmp = Whole(write[th].version)

\* The final write is of the state at shutdown, and what it renamed stays in place.
FinalHeld ==
    /\ write["main"].at \in {"built", "open", "written"} => write["main"].version = version
    /\ saved => write["main"].at = "done" /\ file = Whole(version)

\* What write holds for a thread.
Writes == [at : {"idle", "queued", "canceled", "built", "open", "written", "done", "failed"},
           version : 0 .. MaxVersion]

Inv == TypeOK /\ OneWriter /\ TmpOwned /\ FinalHeld /\ FileWhole

-----------------------------------------------------------------------------
(* Every action preserves Inv.                                             *)

\* One step of the loop, a thread or the environment, from a state in which Inv holds,
\* leads to another.
LEMMA StepInv ==
    ASSUME Inv, [Next]_vars
    PROVE  Inv'
<1>. USE MaxVersionAssumption, MaxFailuresAssumption, MaxRestartsAssumption
     DEF Inv, Threads, NoFile, Whole, Torn, Lost, Idle, MayFail, Succeeds, Closing
<1>1. CASE Update
  BY <1>1 DEF Update, TypeOK, OneWriter, TmpOwned, FinalHeld, FileWhole
<1>2. CASE SnapshotTimer
  <2>1. TypeOK'
    <3>1. write' \in [Threads -> Writes]
      BY <1>2 DEF SnapshotTimer, StartJob, TypeOK, Writes
    <3>2. pending' \in BOOLEAN
      BY <1>2 DEF SnapshotTimer, StartJob, TypeOK
    <3>3. again' \in BOOLEAN
      BY <1>2 DEF SnapshotTimer, StartJob, TypeOK
    <3>4. pending' <=> write'["worker"].at # "idle"
      BY <1>2 DEF SnapshotTimer, StartJob, TypeOK
    <3>5. failures' \in 0 .. MaxFailures
      BY <1>2 DEF SnapshotTimer, StartJob, TypeOK
    <3>. QED
      BY <1>2, <3>1, <3>2, <3>3, <3>4, <3>5 DEF SnapshotTimer, StartJob, TypeOK, Writes
  <2>2. OneWriter'
    BY <1>2 DEF SnapshotTimer, StartJob, TypeOK, OneWriter
  <2>3. TmpOwned'
    BY <1>2 DEF SnapshotTimer, StartJob, TypeOK, TmpOwned
  <2>4. FinalHeld'
    BY <1>2 DEF SnapshotTimer, StartJob, TypeOK, FinalHeld
  <2>5. FileWhole'
    BY <1>2 DEF SnapshotTimer, StartJob, TypeOK, FileWhole
  <2>. QED
    BY <2>1, <2>2, <2>3, <2>4, <2>5
<1>3. CASE AfterWork
  <2>1. TypeOK'
    <3>1. write' \in [Threads -> Writes]
      BY <1>3 DEF AfterWork, StartJob, TypeOK, Writes
    <3>2. (pending' \in BOOLEAN) /\ (again' \in BOOLEAN) /\ (synced' \in BOOLEAN) /\ (saved' \in BOOLEAN)
      BY <1>3 DEF AfterWork, StartJob, TypeOK
    <3>3. pending' <=> write'["worker"].at # "idle"
      BY <1>3 DEF AfterWork, StartJob, TypeOK
    <3>. QED
      BY <1>3, <3>1, <3>2, <3>3 DEF AfterWork, StartJob, TypeOK, Writes
  <2>2. OneWriter'
    BY <1>3 DEF AfterWork, StartJob, TypeOK, OneWriter
  <2>3. TmpOwned'
    BY <1>3 DEF AfterWork, StartJob, TypeOK, TmpOwned
  <2>4. FinalHeld'
    BY <1>3 DEF AfterWork, StartJob, TypeOK, FinalHeld
  <2>5. FileWhole'
    BY <1>3 DEF AfterWork, StartJob, TypeOK, FileWhole
  <2>. QED
    BY <2>1, <2>2, <2>3, <2>4, <2>5
<1>4. ASSUME NEW th \in Threads, OpenTmp(th) PROVE Inv'
  BY <1>4 DEF OpenTmp, Ready, At, TypeOK, OneWriter, TmpOwned, FinalHeld, FileWhole
<1>5. ASSUME NEW th \in Threads, WriteTmp(th) PROVE Inv'
  BY <1>5 DEF WriteTmp, At, TypeOK, OneWriter, TmpOwned, FinalHeld, FileWhole
<1>6. ASSUME NEW th \in Threads, RenameTmp(th) PROVE Inv'
  <2>1. TypeOK'
    <3>1. write' \in [Threads -> Writes]
      BY <1>6 DEF RenameTmp, At, TypeOK, Writes
    <3>2. (pending' \in BOOLEAN) /\ (again' \in BOOLEAN) /\ (synced' \in BOOLEAN) /\ (saved' \in BOOLEAN)
      BY <1>6 DEF RenameTmp, At, TypeOK
    <3>3. pending' <=> write'["worker"].at # "idle"
      BY <1>6 DEF RenameTmp, At, TypeOK
    <3>. QED
      BY <1>6, <3>1, <3>2, <3>3 DEF RenameTmp, At, TypeOK, Writes
  <2>2. OneWriter'
    BY <1>6 DEF RenameTmp, At, TypeOK, OneWriter
  <2>3. TmpOwned'
    BY <1>6 DEF RenameTmp, At, TypeOK, OneWriter, TmpOwned
  <2>4. FinalHeld'
    BY <1>6 DEF RenameTmp, At, TypeOK, OneWriter, TmpOwned, FinalHeld
  <2>5. FileWhole'
    BY <1>6 DEF RenameTmp, At, TypeOK, TmpOwned, FileWhole
  <2>. QED
    BY <2>1, <2>2, <2>3, <2>4, <2>5
<1>7. CASE OnSignal
  BY <1>7 DEF OnSignal, TypeOK, OneWriter, TmpOwned, FinalHeld, FileWhole
<1>8. CASE ServerClose
  <2>1. TypeOK'
    <3>1. write' \in [Threads -> Writes]
      BY <1>8 DEF ServerClose, At, TypeOK, Writes
    <3>2. (pending' \in BOOLEAN) /\ (again' \in BOOLEAN) /\ (synced' \in BOOLEAN) /\ (saved' \in BOOLEAN)
      BY <1>8 DEF ServerClose, At, TypeOK
    <3>3. pending' <=> write'["worker"].at # "idle"
      BY <1>8 DEF ServerClose, At, TypeOK
    <3>. QED
      BY <1>8, <3>1, <3>2, <3>3 DEF ServerClose, At, TypeOK, Writes
  <2>2. OneWriter'
    BY <1>8 DEF ServerClose, At, TypeOK, OneWriter
  <2>3. TmpOwned'
    BY <1>8 DEF ServerClose, At, TypeOK, TmpOwned
  <2>4. FinalHeld'
    BY <1>8 DEF ServerClose, At, TypeOK, FinalHeld
  <2>5. FileWhole'
    BY <1>8 DEF ServerClose, At, TypeOK, FileWhole
  <2>. QED
    BY <2>1, <2>2, <2>3, <2>4, <2>5
<1>9. CASE FinalBuild
  BY <1>9 DEF FinalBuild, JobFinished, At, TypeOK, OneWriter, TmpOwned, FinalHeld, FileWhole
<1>10. CASE Exit
  BY <1>10 DEF Exit, TypeOK, OneWriter, TmpOwned, FinalHeld, FileWhole
<1>11. CASE WriteBack
  BY <1>11 DEF WriteBack, TypeOK, OneWriter, TmpOwned, FinalHeld, FileWhole
<1>12. CASE Killed
  <2>1. TypeOK'
    <3>1. write' \in [Threads -> Writes]
      BY <1>12 DEF Killed, Dies, TypeOK, Writes
    <3>2. (pending' \in BOOLEAN) /\ (again' \in BOOLEAN) /\ (synced' \in BOOLEAN) /\ (saved' \in BOOLEAN)
      BY <1>12 DEF Killed, Dies, TypeOK
    <3>3. pending' <=> write'["worker"].at # "idle"
      BY <1>12 DEF Killed, Dies, TypeOK
    <3>. QED
      BY <1>12, <3>1, <3>2, <3>3 DEF Killed, Dies, TypeOK, Writes
  <2>2. OneWriter'
    BY <1>12 DEF Killed, Dies, TypeOK, OneWriter
  <2>3. TmpOwned'
    BY <1>12 DEF Killed, Dies, TypeOK, TmpOwned
  <2>4. FinalHeld'
    BY <1>12 DEF Killed, Dies, TypeOK, FinalHeld
  <2>5. FileWhole'
    BY <1>12 DEF Killed, Dies, TypeOK, FileWhole
  <2>. QED
    BY <2>1, <2>2, <2>3, <2>4, <2>5
<1>13. CASE PowerLoss
  <2>1. TypeOK'
    <3>1. write' \in [Threads -> Writes]
      BY <1>13 DEF PowerLoss, Dies, TypeOK, Writes
    <3>2. (pending' \in BOOLEAN) /\ (again' \in BOOLEAN) /\ (synced' \in BOOLEAN) /\ (saved' \in BOOLEAN)
      BY <1>13 DEF PowerLoss, Dies, TypeOK
    <3>3. pending' <=> write'["worker"].at # "idle"
      BY <1>13 DEF PowerLoss, Dies, TypeOK
    <3>. QED
      BY <1>13, <3>1, <3>2, <3>3 DEF PowerLoss, Dies, TypeOK, Writes
  <2>2. OneWriter'
    BY <1>13 DEF PowerLoss, Dies, TypeOK, OneWriter
  <2>3. TmpOwned'
    BY <1>13 DEF PowerLoss, Dies, TypeOK, TmpOwned
  <2>4. FinalHeld'
    BY <1>13 DEF PowerLoss, Dies, TypeOK, FinalHeld
  <2>5. FileWhole'
    BY <1>13 DEF PowerLoss, Dies, TypeOK, FileWhole
  <2>. QED
    BY <2>1, <2>2, <2>3, <2>4, <2>5
<1>14. CASE Restart
  <2>1. TypeOK'
    <3>1. write' \in [Threads -> Writes]
      BY <1>14 DEF Restart, TypeOK, Writes
    <3>2. (pending' \in BOOLEAN) /\ (again' \in BOOLEAN) /\ (synced' \in BOOLEAN) /\ (saved' \in BOOLEAN)
      BY <1>14 DEF Restart, TypeOK
    <3>3. pending' <=> write'["worker"].at # "idle"
      BY <1>14 DEF Restart, TypeOK
    <3>. QED
      BY <1>14, <3>1, <3>2, <3>3 DEF Restart, TypeOK, Writes
  <2>2. OneWriter'
    BY <1>14 DEF Restart, TypeOK, OneWriter
  <2>3. TmpOwned'
    BY <1>14 DEF Restart, TypeOK, TmpOwned
  <2>4. FinalHeld'
    BY <1>14 DEF Restart, TypeOK, FinalHeld
  <2>5. FileWhole'
    BY <1>14 DEF Restart, TypeOK, FileWhole
  <2>. QED
    BY <2>1, <2>2, <2>3, <2>4, <2>5
<1>15. CASE UNCHANGED vars
  BY <1>15 DEF vars, TypeOK, OneWriter, TmpOwned, FinalHeld, FileWhole
<1>. QED
  BY <1>1, <1>2, <1>3, <1>4, <1>5, <1>6, <1>7, <1>8, <1>9, <1>10, <1>11, <1>12, <1>13, <1>14,
     <1>15
  DEF Next, Done

\* Inv holds in every reachable state.
THEOREM Invariance == Spec => []Inv
<1>1. Init => Inv
  <2>. SUFFICES ASSUME Init PROVE Inv
    OBVIOUS
  <2>1. write \in [Threads -> Writes]
    BY MaxVersionAssumption DEF Init, Threads, Idle, Writes
  <2>2. /\ (pending \in BOOLEAN) /\ (again \in BOOLEAN) /\ (synced \in BOOLEAN) /\ (saved \in BOOLEAN)
        /\ pending <=> write["worker"].at # "idle"
    BY DEF Init, Threads, Idle
  <2>3. TypeOK
    BY <2>1, <2>2, MaxVersionAssumption, MaxFailuresAssumption, MaxRestartsAssumption
    DEF Init, TypeOK, NoFile, Writes
  <2>4. OneWriter /\ TmpOwned /\ FinalHeld /\ FileWhole
    BY DEF Init, OneWriter, TmpOwned, FinalHeld, FileWhole, Threads, NoFile, Idle
  <2>. QED
    BY <2>3, <2>4 DEF Inv
<1>. QED
  BY <1>1, StepInv, PTL DEF Spec

-----------------------------------------------------------------------------
(* The properties of the runs.                                             *)

\* Type correctness, with the bookkeeping of the job: snapshot_write_pending is set
\* exactly while a job exists.
THEOREM TypeCorrect == Spec => []TypeOK
  BY Invariance, PTL DEF Inv

\* Wherever the process is killed, PATH is not a half-written file
\* (mb_write_file_atomic, with the two threads that call it).
THEOREM PathNeverTorn == Spec => []FileWhole
  BY Invariance, PTL DEF Inv

\* After a clean exit whose final write succeeded, PATH holds the state at shutdown
\* (mb_server_close).
THEOREM CleanExitKeepsAll == Spec => []FinalIsLatest
<1>1. Inv => FinalIsLatest
  BY DEF Inv, FinalHeld, FinalIsLatest
<1>. QED
  BY <1>1, Invariance, PTL
=============================================================================
