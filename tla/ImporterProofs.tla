--------------------------- MODULE ImporterProofs ---------------------------
(***************************************************************************)
(* Machine-checked proofs about module Importer, for every ring capacity   *)
(* and every number of messages.  None of the properties is inductive by   *)
(* itself; Inv adds what each stage of the loop thread implies about the   *)
(* resources and the worker (Stages), that the ring is empty until there   *)
(* is a worker (Quiet), and the head's stability from the peek on          *)
(* (PeekHeld).  The refinement of the abstract queue needs, besides, that  *)
(* messages are queued in the order of their arrival (Order).              *)
(***************************************************************************)
EXTENDS Importer, SequenceTheorems, TLAPS

WorkerAlive == wpc \notin {"none", "exited"}
Serving     == lpc \in {"idle"} \cup DrainSteps

\* What the position of the loop thread says about the resources and the worker.
Stages ==
    /\ ringCap = (IF lpc \in {"alloc", "closed"} THEN 0 ELSE RingCap)
    /\ natsRefs = (IF started THEN 1 ELSE 0)
    /\ closing => lpc \in {"join", "destroy_subs", "close_async", "free", "closed"}
    /\ lpc \in {"join", "destroy_subs", "close_async", "free"} => closing
    /\ lpc \in StartSteps => wpc = "none" /\ ~threadStarted
    /\ lpc = "alloc" => ~lockStarted /\ ~asyncStarted /\ ~started
    /\ lpc = "lock" => ~lockStarted /\ ~asyncStarted /\ ~started
    /\ lpc = "async" => lockStarted /\ ~asyncStarted /\ ~started
    /\ lpc = "connect" => lockStarted /\ asyncStarted /\ ~started
    /\ lpc \in {"subscribe", "spawn"} => lockStarted /\ asyncStarted /\ started
    /\ Serving => threadStarted
    /\ threadStarted => /\ lockStarted /\ asyncStarted /\ started
                        /\ lpc \in {"idle", "close", "join"} \cup DrainSteps
    /\ threadStarted <=> (wpc # "none" /\ lpc \in {"idle", "close", "join"} \cup DrainSteps)
    /\ WorkerAlive => threadStarted
    /\ lpc \in {"close_async", "free", "closed"} => ~started
    /\ lpc \in {"free", "closed"} => ~asyncStarted
    /\ lpc = "closed" => ~lockStarted

\* Before the worker exists nothing has been received; close empties the ring.
Quiet ==
    /\ wpc = "none" => len = 0 /\ pendingReceived = 0 /\ pendingDropped = 0
    /\ lpc = "closed" => len = 0
    /\ lpc # "closed" => discarded = 0

PeekHeld == lpc \in {"reserve", "copy"} => len # 0 /\ ring[head] = peeked

Inv == /\ TypeOK /\ Stages /\ Quiet /\ Conservation /\ NoLostWakeup /\ PeekHeld

-----------------------------------------------------------------------------
(* Indices of the ring.                                                    *)

\* The slot a new message goes to is a slot of the ring, and not the head's while the
\* ring holds a message and has room (the index arithmetic of import_queue_msg).
LEMMA TailSlot ==
    ASSUME NEW h \in Slots, NEW k \in 0 .. RingCap - 1
    PROVE  /\ (h + k) % RingCap \in Slots
           /\ k # 0 => (h + k) % RingCap # h
  BY RingCapAssumption DEF Slots

\* The slot after the head is a slot of the ring.
LEMMA NextSlot ==
    ASSUME NEW h \in Slots
    PROVE  (h + 1) % RingCap \in Slots
  BY RingCapAssumption DEF Slots
-----------------------------------------------------------------------------
(* Every action preserves Inv.                                             *)

\* One step of any thread, from a state in which Inv holds, leads to another.
LEMMA StepInv ==
    ASSUME Inv, [Next]_vars
    PROVE  Inv'
<1>. USE RingCapAssumption, MaxMsgsAssumption
     DEF Inv, fifo, counters, pendings, resources, Slots, LoopSteps, WorkerSteps,
         StartSteps, DrainSteps, CloseSteps, WorkerAlive, Serving
<1>1. CASE StartAlloc
  BY <1>1 DEF StartAlloc, StartFrame, TypeOK, Stages, Quiet, Conservation, NoLostWakeup, PeekHeld,
     WorkerHolds, LoopHolds
<1>2. CASE StartLock
  BY <1>2 DEF StartLock, StartFrame, TypeOK, Stages, Quiet, Conservation, NoLostWakeup, PeekHeld,
     WorkerHolds, LoopHolds
<1>3. CASE StartAsync
  BY <1>3 DEF StartAsync, StartFrame, TypeOK, Stages, Quiet, Conservation, NoLostWakeup, PeekHeld,
     WorkerHolds, LoopHolds
<1>4. CASE StartConnect
  <2>1. TypeOK'
    <3>1. natsRefs' \in Int
      BY <1>4 DEF StartConnect, TypeOK
    <3>2. started' \in BOOLEAN
      BY <1>4, Zenon DEF StartConnect, TypeOK
    <3>3. lpc' \in LoopSteps
      BY <1>4 DEF StartConnect
    <3>4. UNCHANGED <<wpc, ringCap, asyncStarted, lockStarted, threadStarted>> /\ StartFrame
      BY <1>4 DEF StartConnect
    <3>. QED
      BY <3>1, <3>2, <3>3, <3>4 DEF StartFrame, TypeOK
  <2>2. Stages'
    BY <1>4 DEF StartConnect, StartFrame, TypeOK, Stages
  <2>3. Quiet'
    BY <1>4 DEF StartConnect, StartFrame, TypeOK, Stages, Quiet
  <2>4. Conservation'
    BY <1>4
    DEF StartConnect, StartFrame, TypeOK, Stages, Quiet, Conservation, WorkerHolds, LoopHolds
  <2>5. NoLostWakeup'
    BY <1>4 DEF StartConnect, StartFrame, TypeOK, Stages, Quiet, Conservation, NoLostWakeup
  <2>6. PeekHeld'
    BY <1>4 DEF StartConnect, StartFrame, TypeOK, Stages, Quiet, PeekHeld
  <2>. QED
    BY <2>1, <2>2, <2>3, <2>4, <2>5, <2>6
<1>5. CASE StartSubscribe
  BY <1>5
  DEF StartSubscribe, StartFrame, TypeOK, Stages, Quiet, Conservation, NoLostWakeup, PeekHeld,
     WorkerHolds, LoopHolds
<1>6. CASE StartThread
  <2>1. TypeOK'
    BY <1>6 DEF StartThread, StartFrame, TypeOK, Stages
  <2>2. Stages'
    BY <1>6 DEF StartThread, StartFrame, TypeOK, Stages
  <2>3. Quiet'
    BY <1>6 DEF StartThread, StartFrame, TypeOK, Stages, Quiet
  <2>4. Conservation'
    BY <1>6
    DEF StartThread, StartFrame, TypeOK, Stages, Quiet, Conservation, WorkerHolds, LoopHolds
  <2>5. NoLostWakeup'
    BY <1>6 DEF StartThread, StartFrame, TypeOK, Stages, Quiet, Conservation, NoLostWakeup
  <2>6. PeekHeld'
    BY <1>6 DEF StartThread, StartFrame, TypeOK, Stages, Quiet, PeekHeld
  <2>. QED
    BY <2>1, <2>2, <2>3, <2>4, <2>5, <2>6
<1>7. CASE WorkerCheckClosing
  BY <1>7
  DEF WorkerCheckClosing, WorkerFrame, TypeOK, Stages, Quiet, Conservation, NoLostWakeup,
      PeekHeld,
     WorkerHolds, LoopHolds
<1>8. CASE WorkerNextMsg
  <2>1. TypeOK'
    BY <1>8 DEF WorkerNextMsg, WorkerFrame, TypeOK, Stages
  <2>2. Stages'
    BY <1>8 DEF WorkerNextMsg, WorkerFrame, TypeOK, Stages
  <2>3. Quiet'
    BY <1>8 DEF WorkerNextMsg, WorkerFrame, TypeOK, Stages, Quiet
  <2>4. Conservation'
    BY <1>8
    DEF WorkerNextMsg, WorkerFrame, TypeOK, Stages, Quiet, Conservation, WorkerHolds, LoopHolds
  <2>5. NoLostWakeup'
    BY <1>8 DEF WorkerNextMsg, WorkerFrame, TypeOK, Stages, Quiet, Conservation, NoLostWakeup
  <2>6. PeekHeld'
    BY <1>8 DEF WorkerNextMsg, WorkerFrame, TypeOK, Stages, Quiet, PeekHeld
  <2>. QED
    BY <2>1, <2>2, <2>3, <2>4, <2>5, <2>6
<1>9. CASE WorkerRecordDrop
  <2>1. TypeOK'
    BY <1>9 DEF WorkerRecordDrop, WorkerFrame, AsyncSend, TypeOK, Stages
  <2>2. Stages'
    BY <1>9 DEF WorkerRecordDrop, WorkerFrame, AsyncSend, TypeOK, Stages
  <2>3. Quiet'
    BY <1>9 DEF WorkerRecordDrop, WorkerFrame, AsyncSend, TypeOK, Stages, Quiet
  <2>4. Conservation'
    BY <1>9
    DEF WorkerRecordDrop, WorkerFrame, AsyncSend, TypeOK, Stages, Quiet, Conservation,
        WorkerHolds, LoopHolds
  <2>5. NoLostWakeup'
    BY <1>9
    DEF WorkerRecordDrop, WorkerFrame, AsyncSend, TypeOK, Stages, Quiet, Conservation,
        NoLostWakeup
  <2>6. PeekHeld'
    BY <1>9 DEF WorkerRecordDrop, WorkerFrame, AsyncSend, TypeOK, Stages, Quiet, PeekHeld
  <2>. QED
    BY <2>1, <2>2, <2>3, <2>4, <2>5, <2>6
<1>10. CASE WorkerQueueMsg
  <2>1. TypeOK'
    <3>1. upstream \in 0 .. MaxMsgs /\ head \in Slots /\ ring \in [Slots -> 0 .. MaxMsgs]
      BY DEF TypeOK
    <3>2. ring' \in [Slots -> 0 .. MaxMsgs] /\ len' \in 0 .. RingCap /\ head' \in Slots
      <4>1. CASE UNCHANGED fifo
        BY <4>1 DEF TypeOK
      <4>2. CASE /\ ring' = [ring EXCEPT ![(head + len) % ringCap] = InHand]
                 /\ len' = len + 1 /\ len < ringCap /\ head' = head
        BY <4>2, <3>1 DEF TypeOK, InHand
      <4>. QED
        BY <1>10, <4>1, <4>2 DEF WorkerQueueMsg
    <3>3. pendingReceived' \in Nat /\ pendingDropped' \in Nat /\ wpc' \in WorkerSteps
      BY <1>10 DEF WorkerQueueMsg, TypeOK
    <3>4. asyncPending' \in BOOLEAN /\ UNCHANGED upstream /\ WorkerFrame
      BY <1>10 DEF WorkerQueueMsg, AsyncSend, TypeOK
    <3>. QED
      BY <3>2, <3>3, <3>4 DEF WorkerFrame, TypeOK
  <2>2. Stages'
    BY <1>10, TailSlot DEF WorkerQueueMsg, WorkerFrame, AsyncSend, InHand, TypeOK, Stages
  <2>3. Quiet'
    BY <1>10, TailSlot DEF WorkerQueueMsg, WorkerFrame, AsyncSend, InHand, TypeOK, Stages, Quiet
  <2>4. Conservation'
    <3>1. WorkerHolds = 1 /\ WorkerHolds' = 0 /\ LoopHolds' = LoopHolds /\ LoopHolds \in Nat
      BY <1>10 DEF WorkerQueueMsg, WorkerFrame, TypeOK, Stages, WorkerHolds, LoopHolds
    <3>2. /\ received \in Nat /\ dropped \in Nat /\ processed \in Nat /\ failed \in Nat
          /\ pendingReceived \in Nat /\ pendingDropped \in Nat
          /\ len \in Nat /\ discarded \in Nat /\ upstream \in Nat
      BY DEF TypeOK
    <3>. QED
      BY <1>10, <3>1, <3>2 DEF WorkerQueueMsg, WorkerFrame, Conservation
  <2>5. NoLostWakeup'
    BY <1>10, TailSlot
    DEF WorkerQueueMsg, WorkerFrame, AsyncSend, InHand, TypeOK, Stages, Quiet, Conservation,
        NoLostWakeup
  <2>6. PeekHeld'
    <3>1. CASE UNCHANGED fifo
      BY <1>10, <3>1 DEF WorkerQueueMsg, WorkerFrame, PeekHeld
    <3>2. CASE /\ ring' = [ring EXCEPT ![(head + len) % ringCap] = InHand]
               /\ len' = len + 1 /\ len < ringCap /\ head' = head
      <4>1. SUFFICES ASSUME lpc \in {"reserve", "copy"}
                     PROVE  len' # 0 /\ ring'[head] = peeked
        BY <1>10, <3>2 DEF WorkerQueueMsg, WorkerFrame, PeekHeld
      <4>2. ringCap = RingCap /\ len # 0 /\ ring[head] = peeked
        BY <4>1 DEF Stages, PeekHeld
      <4>3. head \in Slots /\ len \in 0 .. RingCap - 1 /\ ring \in [Slots -> 0 .. MaxMsgs]
        BY <3>2, <4>2 DEF TypeOK
      <4>4. (head + len) % RingCap # head
        BY <4>2, <4>3, TailSlot
      <4>. QED
        BY <3>2, <4>2, <4>3, <4>4
    <3>. QED
      BY <1>10, <3>1, <3>2 DEF WorkerQueueMsg
  <2>. QED
    BY <2>1, <2>2, <2>3, <2>4, <2>5, <2>6
<1>11. CASE OnAsync
  BY <1>11 DEF OnAsync, LoopFrame, TypeOK, Stages, Quiet, Conservation, NoLostWakeup, PeekHeld,
     WorkerHolds, LoopHolds
<1>12. CASE DrainPeek
  BY <1>12
  DEF DrainPeek, LoopFrame, FlushPending, TypeOK, Stages, Quiet, Conservation, NoLostWakeup,
      PeekHeld,
     WorkerHolds, LoopHolds
<1>13. CASE DrainReserve
  BY <1>13
  DEF DrainReserve, LoopFrame, TypeOK, Stages, Quiet, Conservation, NoLostWakeup, PeekHeld,
     WorkerHolds, LoopHolds
<1>14. CASE DrainFailPop
  <2>1. TypeOK'
    BY <1>14, NextSlot DEF DrainFailPop, LoopFrame, FlushPending, PopHead, TypeOK, Stages
  <2>2. Stages'
    BY <1>14, NextSlot DEF DrainFailPop, LoopFrame, FlushPending, PopHead, TypeOK, Stages
  <2>3. Quiet'
    BY <1>14, NextSlot DEF DrainFailPop, LoopFrame, FlushPending, PopHead, TypeOK, Stages, Quiet
  <2>4. Conservation'
    <3>1. WorkerHolds' = WorkerHolds /\ LoopHolds = 0 /\ LoopHolds' = 0 /\ WorkerHolds \in Nat
      BY <1>14 DEF DrainFailPop, LoopFrame, TypeOK, WorkerHolds, LoopHolds
    <3>2. /\ received \in Nat /\ dropped \in Nat /\ processed \in Nat /\ failed \in Nat
          /\ pendingReceived \in Nat /\ pendingDropped \in Nat
          /\ len \in Nat /\ discarded \in Nat /\ upstream \in Nat
      BY DEF TypeOK
    <3>3. failed' + len' = failed + len
      BY <1>14, <3>2 DEF DrainFailPop, PopHead
    <3>4. failed' \in Nat /\ len' \in Nat
      BY <1>14, <3>2 DEF DrainFailPop, PopHead
    <3>5. /\ received' + pendingReceived' = received + pendingReceived
          /\ dropped' + pendingDropped' = dropped + pendingDropped
          /\ received' \in Nat /\ dropped' \in Nat
          /\ pendingReceived' \in Nat /\ pendingDropped' \in Nat
          /\ processed' = processed /\ upstream' = upstream /\ discarded' = discarded
      BY <1>14, <3>2 DEF DrainFailPop, FlushPending, LoopFrame
    <3>6. upstream' = received' + pendingReceived' + WorkerHolds'
      BY <3>1, <3>2, <3>5 DEF Conservation
    <3>7. received + pendingReceived
            = processed + (failed + len) + (dropped + pendingDropped) + LoopHolds + discarded
      BY <3>1, <3>2 DEF Conservation
    <3>8. received' + pendingReceived'
            = processed' + (failed' + len') + (dropped' + pendingDropped') + LoopHolds' + discarded'
      BY <3>1, <3>3, <3>5, <3>7
    <3>9. received' + pendingReceived'
            = processed' + failed' + dropped' + pendingDropped' + len' + LoopHolds' + discarded'
      BY <3>1, <3>2, <3>4, <3>5, <3>8
    <3>. QED
      BY <3>6, <3>9 DEF Conservation
  <2>5. NoLostWakeup'
    BY <1>14, NextSlot
    DEF DrainFailPop, LoopFrame, FlushPending, PopHead, TypeOK, Stages, Quiet, Conservation,
        NoLostWakeup
  <2>6. PeekHeld'
    BY <1>14, NextSlot
    DEF DrainFailPop, LoopFrame, FlushPending, PopHead, TypeOK, Stages, Quiet, PeekHeld
  <2>. QED
    BY <2>1, <2>2, <2>3, <2>4, <2>5, <2>6
<1>15. CASE DrainCopy
  <2>1. TypeOK'
    BY <1>15, NextSlot DEF DrainCopy, LoopFrame, FlushPending, PopHead, TypeOK, Stages
  <2>2. Stages'
    BY <1>15, NextSlot DEF DrainCopy, LoopFrame, FlushPending, PopHead, TypeOK, Stages
  <2>3. Quiet'
    BY <1>15, NextSlot DEF DrainCopy, LoopFrame, FlushPending, PopHead, TypeOK, Stages, Quiet
  <2>4. Conservation'
    <3>1. /\ WorkerHolds' = WorkerHolds /\ WorkerHolds \in Nat /\ LoopHolds = 0
          /\ LoopHolds' = IF len = 0 THEN 0 ELSE 1
      BY <1>15
      DEF DrainCopy, LoopFrame, FlushPending, PopHead, TypeOK, Stages, WorkerHolds, LoopHolds
    <3>2. /\ received \in Nat /\ dropped \in Nat /\ processed \in Nat /\ failed \in Nat
          /\ pendingReceived \in Nat /\ pendingDropped \in Nat
          /\ len \in Nat /\ discarded \in Nat /\ upstream \in Nat
      BY DEF TypeOK
    <3>. QED
      BY <1>15, <3>1, <3>2 DEF DrainCopy, LoopFrame, FlushPending, PopHead, Conservation
  <2>5. NoLostWakeup'
    BY <1>15, NextSlot
    DEF DrainCopy, LoopFrame, FlushPending, PopHead, TypeOK, Stages, Quiet, Conservation,
        NoLostWakeup
  <2>6. PeekHeld'
    BY <1>15, NextSlot
    DEF DrainCopy, LoopFrame, FlushPending, PopHead, TypeOK, Stages, Quiet, PeekHeld
  <2>. QED
    BY <2>1, <2>2, <2>3, <2>4, <2>5, <2>6
<1>16. CASE DrainHandle
  <2>1. TypeOK'
    BY <1>16 DEF DrainHandle, LoopFrame, TypeOK, Stages
  <2>2. Stages'
    BY <1>16 DEF DrainHandle, LoopFrame, TypeOK, Stages
  <2>3. Quiet'
    BY <1>16 DEF DrainHandle, LoopFrame, TypeOK, Stages, Quiet
  <2>4. Conservation'
    <3>1. WorkerHolds' = WorkerHolds /\ LoopHolds = 1 /\ LoopHolds' = 0 /\ WorkerHolds \in Nat
      BY <1>16 DEF DrainHandle, LoopFrame, TypeOK, Stages, WorkerHolds, LoopHolds
    <3>2. /\ received \in Nat /\ dropped \in Nat /\ processed \in Nat /\ failed \in Nat
          /\ pendingReceived \in Nat /\ pendingDropped \in Nat
          /\ len \in Nat /\ discarded \in Nat /\ upstream \in Nat
      BY DEF TypeOK
    <3>. QED
      BY <1>16, <3>1, <3>2 DEF DrainHandle, LoopFrame, Conservation
  <2>5. NoLostWakeup'
    BY <1>16 DEF DrainHandle, LoopFrame, TypeOK, Stages, Quiet, Conservation, NoLostWakeup
  <2>6. PeekHeld'
    BY <1>16 DEF DrainHandle, LoopFrame, TypeOK, Stages, Quiet, PeekHeld
  <2>. QED
    BY <2>1, <2>2, <2>3, <2>4, <2>5, <2>6
<1>17. CASE OnSignal
  BY <1>17 DEF OnSignal, TypeOK, Stages, Quiet, Conservation, NoLostWakeup, PeekHeld,
     WorkerHolds, LoopHolds
<1>18. CASE BeginClose
  BY <1>18 DEF BeginClose, LoopFrame, TypeOK, Stages, Quiet, Conservation, NoLostWakeup, PeekHeld,
     WorkerHolds, LoopHolds
<1>19. CASE CloseBegin
  <2>1. TypeOK'
    BY <1>19 DEF CloseBegin, CloseFrame, FlushPending, TypeOK, Stages
  <2>2. Stages'
    BY <1>19 DEF CloseBegin, CloseFrame, FlushPending, TypeOK, Stages
  <2>3. Quiet'
    BY <1>19 DEF CloseBegin, CloseFrame, FlushPending, TypeOK, Stages, Quiet
  <2>4. Conservation'
    <3>1. WorkerHolds' = WorkerHolds /\ LoopHolds = 0 /\ LoopHolds' = 0 /\ WorkerHolds \in Nat
      BY <1>19 DEF CloseBegin, CloseFrame, FlushPending, TypeOK, Stages, WorkerHolds, LoopHolds
    <3>2. /\ received \in Nat /\ dropped \in Nat /\ processed \in Nat /\ failed \in Nat
          /\ pendingReceived \in Nat /\ pendingDropped \in Nat
          /\ len \in Nat /\ discarded \in Nat /\ upstream \in Nat
      BY DEF TypeOK
    <3>. QED
      BY <1>19, <3>1, <3>2 DEF CloseBegin, CloseFrame, FlushPending, Conservation
  <2>5. NoLostWakeup'
    BY <1>19
    DEF CloseBegin, CloseFrame, FlushPending, TypeOK, Stages, Quiet, Conservation, NoLostWakeup
  <2>6. PeekHeld'
    BY <1>19 DEF CloseBegin, CloseFrame, FlushPending, TypeOK, Stages, Quiet, PeekHeld
  <2>. QED
    BY <2>1, <2>2, <2>3, <2>4, <2>5, <2>6
<1>20. CASE CloseJoin
  BY <1>20 DEF CloseJoin, CloseFrame, TypeOK, Stages, Quiet, Conservation, NoLostWakeup, PeekHeld,
     WorkerHolds, LoopHolds
<1>21. CASE CloseNats
  <2>1. TypeOK'
    <3>1. natsRefs' \in Int
      BY <1>21 DEF CloseNats, TypeOK
    <3>. QED
      BY <1>21, <3>1 DEF CloseNats, CloseFrame, TypeOK
  <2>2. Stages'
    BY <1>21 DEF CloseNats, CloseFrame, TypeOK, Stages
  <2>3. Quiet'
    BY <1>21 DEF CloseNats, CloseFrame, TypeOK, Stages, Quiet
  <2>4. Conservation'
    BY <1>21
    DEF CloseNats, CloseFrame, TypeOK, Stages, Quiet, Conservation, WorkerHolds, LoopHolds
  <2>5. NoLostWakeup'
    BY <1>21 DEF CloseNats, CloseFrame, TypeOK, Stages, Quiet, Conservation, NoLostWakeup
  <2>6. PeekHeld'
    BY <1>21 DEF CloseNats, CloseFrame, TypeOK, Stages, Quiet, PeekHeld
  <2>. QED
    BY <2>1, <2>2, <2>3, <2>4, <2>5, <2>6
<1>22. CASE CloseAsync
  BY <1>22
  DEF CloseAsync, CloseFrame, TypeOK, Stages, Quiet, Conservation, NoLostWakeup, PeekHeld,
     WorkerHolds, LoopHolds
<1>23. CASE CloseFree
  <2>1. TypeOK'
    <3>1. ring' \in [Slots -> 0 .. MaxMsgs] /\ head' \in Slots
      BY <1>23 DEF CloseFree
    <3>2. discarded' \in 0 .. RingCap /\ len' \in 0 .. RingCap
      BY <1>23 DEF CloseFree, TypeOK
    <3>. QED
      BY <1>23, <3>1, <3>2 DEF CloseFree, CloseFrame, TypeOK
  <2>2. Stages'
    BY <1>23 DEF CloseFree, CloseFrame, TypeOK, Stages
  <2>3. Quiet'
    BY <1>23 DEF CloseFree, CloseFrame, TypeOK, Stages, Quiet
  <2>4. Conservation'
    BY <1>23
    DEF CloseFree, CloseFrame, TypeOK, Stages, Quiet, Conservation, WorkerHolds, LoopHolds
  <2>5. NoLostWakeup'
    BY <1>23 DEF CloseFree, CloseFrame, TypeOK, Stages, Quiet, Conservation, NoLostWakeup
  <2>6. PeekHeld'
    BY <1>23 DEF CloseFree, CloseFrame, TypeOK, Stages, Quiet, PeekHeld
  <2>. QED
    BY <2>1, <2>2, <2>3, <2>4, <2>5, <2>6
<1>24. CASE UNCHANGED vars
  BY <1>24 DEF vars, TypeOK, Stages, Quiet, Conservation, NoLostWakeup, PeekHeld,
     WorkerHolds, LoopHolds
<1>. QED
  BY <1>1, <1>2, <1>3, <1>4, <1>5, <1>6, <1>7, <1>8, <1>9, <1>10, <1>11, <1>12,
     <1>13, <1>14, <1>15, <1>16, <1>17, <1>18, <1>19, <1>20, <1>21, <1>22, <1>23, <1>24
  DEF Next, Start, Worker, Drain, Close, Done

-----------------------------------------------------------------------------
(* Theorems.                                                               *)

\* Inv holds in every reachable state of the importer, for every ring capacity and
\* any number of upstream messages.
THEOREM InvHolds == Spec => []Inv
<1>1. Init => Inv
  <2>. SUFFICES ASSUME Init PROVE Inv
    OBVIOUS
  <2>. USE RingCapAssumption, MaxMsgsAssumption DEF Init
  <2>1. ring \in [Slots -> 0 .. MaxMsgs] /\ head \in Slots
    BY DEF Slots
  <2>2. TypeOK
    <3>1. lpc \in LoopSteps /\ wpc \in WorkerSteps
      BY DEF LoopSteps, WorkerSteps, StartSteps
    <3>2. /\ closing \in BOOLEAN /\ serverClosing \in BOOLEAN /\ asyncPending \in BOOLEAN
          /\ asyncStarted \in BOOLEAN /\ lockStarted \in BOOLEAN
          /\ threadStarted \in BOOLEAN /\ started \in BOOLEAN
      OBVIOUS
    <3>3. /\ len \in 0 .. RingCap /\ ringCap \in {0, RingCap} /\ natsRefs \in Int
          /\ upstream \in 0 .. MaxMsgs /\ scratch \in 0 .. MaxMsgs
          /\ peeked \in 0 .. MaxMsgs /\ discarded \in 0 .. RingCap
      OBVIOUS
    <3>4. /\ received \in Nat /\ dropped \in Nat /\ processed \in Nat /\ failed \in Nat
          /\ pendingReceived \in Nat /\ pendingDropped \in Nat
      OBVIOUS
    <3>. QED
      BY <2>1, <3>1, <3>2, <3>3, <3>4, Zenon DEF TypeOK
  <2>3. Stages
    BY DEF Stages, WorkerAlive, Serving, StartSteps, DrainSteps
  <2>4. Quiet /\ NoLostWakeup /\ PeekHeld
    BY DEF Quiet, NoLostWakeup, PeekHeld
  <2>5. Conservation
    BY DEF Conservation, WorkerHolds, LoopHolds
  <2>. QED
    BY <2>2, <2>3, <2>4, <2>5 DEF Inv
<1>2. Inv /\ [Next]_vars => Inv'
  BY StepInv
<1>. QED
  BY <1>1, <1>2, PTL DEF Spec

\* The indices with which import_queue_msg and mb_importer_drain address the ring stay
\* inside it, and its length never exceeds max_pending.
THEOREM TypeCorrect == Spec => []TypeOK
<1>1. Inv => TypeOK
  BY DEF Inv
<1>. QED
  BY <1>1, InvHolds, PTL

\* No message is lost without being counted and none is counted twice, in whatever
\* order the critical sections of worker and loop run.
THEOREM CountsConserved == Spec => []Conservation
<1>1. Inv => Conservation
  BY DEF Inv
<1>. QED
  BY <1>1, InvHolds, PTL

\* The coalescing uv_async_send loses no wake-up: an idle loop with work has one pending.
THEOREM WakeupNotLost == Spec => []NoLostWakeup
<1>1. Inv => NoLostWakeup
  BY DEF Inv
<1>. QED
  BY <1>1, InvHolds, PTL

\* The message drain copies is the one it sized its buffer for, although it unlocks
\* between the two.
THEOREM PeekIsStable == Spec => []PeekStillHead
<1>1. Inv => PeekStillHead
  BY DEF Inv, PeekHeld, PeekStillHead
<1>. QED
  BY <1>1, InvHolds, PTL

\* The lock, the ring, the async handle and the connection outlive the worker.
THEOREM WorkerIsOutlived == Spec => []WorkerOutlived
<1>1. Inv => WorkerOutlived
  BY DEF Inv, Stages, WorkerAlive, DrainSteps, WorkerOutlived
<1>. QED
  BY <1>1, InvHolds, PTL

\* Whatever step of start failed, close leaves no resource and no library reference.
THEOREM ShutdownIsClean == Spec => []CleanShutdown
<1>1. Inv => CleanShutdown
  BY DEF Inv, TypeOK, Stages, WorkerAlive, DrainSteps, WorkerSteps, CleanShutdown
<1>. QED
  BY <1>1, InvHolds, PTL

-----------------------------------------------------------------------------
(* The ring implements the queue of module ImportQueue.                    *)

\* Messages in the ring have arrived, and the one the worker is about to queue is newer
\* than all of them and than the one being handled; only DrainHandle holds a message.
Order ==
    /\ \A i \in 1 .. len : ring[Slot(i)] \in 1 .. upstream
    /\ scratch \in 0 .. upstream
    /\ wpc = "queue" => scratch < upstream /\ \A i \in 1 .. len : ring[Slot(i)] < upstream
    /\ lpc = "handle" <=> scratch # 0

\* The modulo of the ring index, spelt out: it wraps at most once.
LEMMA WrapOnce ==
    ASSUME NEW h \in Slots, NEW k \in 0 .. RingCap
    PROVE  (h + k) % RingCap = IF h + k < RingCap THEN h + k ELSE h + k - RingCap
  BY RingCapAssumption DEF Slots

\* The position of every queued message is a slot of the ring.
LEMMA SlotInRing ==
    ASSUME TypeOK, NEW i \in 1 .. RingCap
    PROVE  Slot(i) \in Slots
<1>1. i - 1 \in 0 .. RingCap /\ head \in Slots /\ head + i - 1 = head + (i - 1)
  BY RingCapAssumption DEF TypeOK, Slots
<1>. QED
  BY <1>1, WrapOnce, RingCapAssumption DEF Slot, Slots

\* What Queued is: the len messages from the head on, in the order of their slots.
QueueView ==
    /\ Queued \in Seq(0 .. MaxMsgs)
    /\ Len(Queued) = len
    /\ \A i \in 1 .. len : Queued[i] = ring[Slot(i)]
    /\ len # 0 => Queued # <<>> /\ Head(Queued) = ring[head]
    /\ len = 0 => Queued = <<>>

\* Every state of the right type shows such a queue.
LEMMA QueuedIsSeq == TypeOK => QueueView
<1>. SUFFICES ASSUME TypeOK PROVE QueueView
  OBVIOUS
<1>1. len \in 0 .. RingCap /\ ring \in [Slots -> 0 .. MaxMsgs] /\ head \in Slots
  BY DEF TypeOK
<1>2. \A i \in 1 .. len : ring[Slot(i)] \in 0 .. MaxMsgs
  BY <1>1, SlotInRing, RingCapAssumption
<1>3. len # 0 => Slot(1) = head
  BY <1>1, RingCapAssumption DEF Slot, Slots
<1>. QED
  BY <1>1, <1>2, <1>3, RingCapAssumption DEF Queued, QueueView

\* Writing the slot behind the last message appends it to the queue: import_queue_msg
\* overwrites no message that is still queued.
LEMMA WriteAppends ==
    ASSUME TypeOK, TypeOK', len < RingCap, NEW m \in 0 .. MaxMsgs,
           ring' = [ring EXCEPT ![(head + len) % RingCap] = m],
           len' = len + 1, head' = head
    PROVE  /\ Queued' = Append(Queued, m)
           /\ \A i \in 1 .. len + 1 : ring'[Slot(i)'] = IF i \in 1 .. len THEN ring[Slot(i)] ELSE m
<1>0. /\ len \in 0 .. RingCap - 1 /\ ring \in [Slots -> 0 .. MaxMsgs] /\ head \in Slots
      /\ RingCap \in Nat \ {0}
  BY RingCapAssumption DEF TypeOK
<1>1. \A i \in 1 .. len + 1 : Slot(i)' = Slot(i) /\ Slot(i) \in Slots
  <2>. SUFFICES ASSUME NEW i \in 1 .. len + 1 PROVE Slot(i)' = Slot(i) /\ Slot(i) \in Slots
    OBVIOUS
  <2>1. i \in 1 .. RingCap
    BY <1>0
  <2>. QED
    BY <2>1, SlotInRing DEF Slot
<1>2. \A i \in 1 .. len : Slot(i) # (head + len) % RingCap
  <2>. SUFFICES ASSUME NEW i \in 1 .. len PROVE Slot(i) # (head + len) % RingCap
    OBVIOUS
  <2>1. i - 1 \in 0 .. RingCap /\ len \in 0 .. RingCap /\ head + i - 1 = head + (i - 1)
    BY <1>0 DEF Slots
  <2>2. Slot(i) = IF head + (i - 1) < RingCap THEN head + (i - 1) ELSE head + (i - 1) - RingCap
    BY <1>0, <2>1, WrapOnce DEF Slot
  <2>3. (head + len) % RingCap = IF head + len < RingCap THEN head + len ELSE head + len - RingCap
    BY <1>0, <2>1, WrapOnce
  <2>4. head \in 0 .. RingCap - 1 /\ i \in 1 .. len
    BY <1>0 DEF Slots
  <2>5. CASE head + len < RingCap
    BY <1>0, <2>2, <2>3, <2>4, <2>5
  <2>6. CASE ~(head + len < RingCap)
    BY <1>0, <2>2, <2>3, <2>4, <2>6
  <2>. QED
    BY <2>5, <2>6
<1>3. Slot(len + 1) = (head + len) % RingCap
  <2>1. head + (len + 1) - 1 = head + len
    BY <1>0 DEF Slots
  <2>. QED
    BY <2>1 DEF Slot
<1>4. \A i \in 1 .. len : ring'[Slot(i)'] = ring[Slot(i)]
  <2>. SUFFICES ASSUME NEW i \in 1 .. len PROVE ring'[Slot(i)'] = ring[Slot(i)]
    OBVIOUS
  <2>1. i \in 1 .. len + 1
    BY <1>0
  <2>. QED
    BY <1>0, <1>1, <1>2, <2>1
<1>5. \A i \in 1 .. len + 1 : i = len + 1 => ring'[Slot(i)'] = m
  <2>. SUFFICES ASSUME NEW i \in 1 .. len + 1, i = len + 1 PROVE ring'[Slot(i)'] = m
    OBVIOUS
  <2>1. Slot(i)' = (head + len) % RingCap /\ (head + len) % RingCap \in Slots
    BY <1>1, <1>3
  <2>. QED
    BY <1>0, <2>1
<1>6. Queued' = Append(Queued, m)
  <2>1. /\ Queued' \in Seq(0 .. MaxMsgs) /\ Len(Queued') = len + 1
        /\ \A i \in 1 .. len + 1 : Queued'[i] = ring'[Slot(i)']
    <3>1. QueueView'
      BY QueuedIsSeq, PTL
    <3>. QED
      BY <3>1, <1>0 DEF QueueView
  <2>2. /\ Append(Queued, m) \in Seq(0 .. MaxMsgs) /\ Len(Append(Queued, m)) = len + 1
        /\ \A i \in 1 .. len : Append(Queued, m)[i] = ring[Slot(i)]
        /\ Append(Queued, m)[len + 1] = m
    BY QueuedIsSeq, <1>0 DEF QueueView
  <2>3. \A i \in 1 .. len + 1 : Queued'[i] = Append(Queued, m)[i]
    <3>. SUFFICES ASSUME NEW i \in 1 .. len + 1 PROVE Queued'[i] = Append(Queued, m)[i]
      OBVIOUS
    <3>1. CASE i \in 1 .. len
      BY <2>1, <2>2, <1>4, <3>1
    <3>2. CASE i = len + 1
      BY <2>1, <2>2, <1>5, <3>2
    <3>3. i \in 1 .. len \/ i = len + 1
      BY <1>0
    <3>. QED
      BY <3>1, <3>2, <3>3
  <2>. QED
    BY <2>1, <2>2, <2>3, SeqEqual
<1>. QED
  BY <1>0, <1>4, <1>5, <1>6

\* Popping the head leaves the tail of the queue.
LEMMA PopIsTail ==
    ASSUME TypeOK, TypeOK', len # 0, ringCap = RingCap, PopHead
    PROVE  /\ Queued' = Tail(Queued)
           /\ \A i \in 1 .. len' : i + 1 \in 1 .. len /\ ring'[Slot(i)'] = ring[Slot(i + 1)]
<1>0. /\ len \in 1 .. RingCap /\ ring \in [Slots -> 0 .. MaxMsgs] /\ head \in Slots
      /\ RingCap \in Nat \ {0} /\ len' = len - 1 /\ ring' = ring
      /\ head' = (head + 1) % RingCap /\ head' \in Slots
  BY RingCapAssumption DEF TypeOK, PopHead
<1>1. \A i \in 1 .. len - 1 : i + 1 \in 1 .. len /\ Slot(i)' = Slot(i + 1)
  <2>. SUFFICES ASSUME NEW i \in 1 .. len - 1 PROVE i + 1 \in 1 .. len /\ Slot(i)' = Slot(i + 1)
    OBVIOUS
  <2>1. /\ i - 1 \in 0 .. RingCap /\ i \in 0 .. RingCap /\ 1 \in 0 .. RingCap
        /\ head + (i + 1) - 1 = head + i /\ head' + i - 1 = head' + (i - 1)
    BY <1>0 DEF Slots
  <2>2. Slot(i + 1) = IF head + i < RingCap THEN head + i ELSE head + i - RingCap
    BY <1>0, <2>1, WrapOnce DEF Slot
  <2>3. head' = IF head + 1 < RingCap THEN head + 1 ELSE head + 1 - RingCap
    BY <1>0, <2>1, WrapOnce
  <2>4. Slot(i)' = (IF head' + (i - 1) < RingCap THEN head' + (i - 1)
                                                 ELSE head' + (i - 1) - RingCap)
    <3>1. (head' + (i - 1)) % RingCap = (IF head' + (i - 1) < RingCap THEN head' + (i - 1)
                                                 ELSE head' + (i - 1) - RingCap)
      BY <1>0, <2>1, WrapOnce
    <3>. QED
      BY <3>1, <2>1 DEF Slot
  <2>. QED
    BY <1>0, <2>1, <2>2, <2>3, <2>4 DEF Slots
<1>2. Queued' = Tail(Queued)
  <2>1. /\ Queued' \in Seq(0 .. MaxMsgs) /\ Len(Queued') = len - 1
        /\ \A i \in 1 .. len - 1 : Queued'[i] = ring'[Slot(i)']
    <3>1. QueueView'
      BY QueuedIsSeq, PTL
    <3>. QED
      BY <3>1, <1>0 DEF QueueView
  <2>2. /\ Tail(Queued) \in Seq(0 .. MaxMsgs) /\ Len(Tail(Queued)) = len - 1
        /\ \A i \in 1 .. len - 1 : Tail(Queued)[i] = ring[Slot(i + 1)]
    BY QueuedIsSeq, <1>0 DEF QueueView
  <2>. QED
    BY <1>0, <1>1, <2>1, <2>2, SeqEqual
<1>. QED
  BY <1>0, <1>1, <1>2

\* A step that leaves the ring and its indices alone leaves the queue alone.
LEMMA SameQueue ==
    ASSUME UNCHANGED fifo
    PROVE  Queued' = Queued /\ \A i : Slot(i)' = Slot(i)
  BY DEF fifo, Queued, Slot

\* Messages arrive, are queued and are handed out in the order of their numbers.
LEMMA OrderStep ==
    ASSUME Inv, Inv', Order, [Next]_vars
    PROVE  Order'
<1>. USE RingCapAssumption, MaxMsgsAssumption
<1>0. /\ TypeOK /\ TypeOK' /\ upstream \in Nat /\ len \in 0 .. RingCap /\ scratch \in Nat
      /\ lpc \notin {"alloc", "closed"} => ringCap = RingCap
      /\ wpc = "queue" => ringCap = RingCap
  BY DEF Inv, TypeOK, Stages, WorkerAlive, DrainSteps
<1>1. CASE UNCHANGED <<fifo, upstream, scratch>> /\ (wpc' = "queue" => wpc = "queue")
           /\ (lpc = "handle" <=> lpc' = "handle")
  BY <1>1, SameQueue DEF Order, fifo
<1>2. CASE WorkerNextMsg
  <2>1. UNCHANGED <<fifo, scratch, lpc>> /\ upstream' \in {upstream, upstream + 1}
        /\ (wpc' = "queue" => upstream' = upstream + 1)
    BY <1>2 DEF WorkerNextMsg, WorkerFrame
  <2>. QED
    BY <1>0, <2>1, SameQueue DEF Order, fifo
<1>3. CASE WorkerQueueMsg /\ ~UNCHANGED fifo
  <2>1. /\ len < RingCap /\ ring' = [ring EXCEPT ![(head + len) % RingCap] = upstream]
        /\ len' = len + 1 /\ head' = head /\ UNCHANGED <<lpc, upstream, scratch>>
        /\ wpc = "queue" /\ wpc' = "check" /\ upstream \in 0 .. MaxMsgs
    BY <1>0, <1>3 DEF WorkerQueueMsg, WorkerFrame, InHand, TypeOK
  <2>2. \A i \in 1 .. len + 1 : ring'[Slot(i)'] = IF i \in 1 .. len THEN ring[Slot(i)] ELSE upstream
    BY <1>0, <2>1, WriteAppends
  <2>3. upstream > 0
    BY <1>0, <2>1 DEF Order
  <2>4. \A i \in 1 .. len' : ring'[Slot(i)'] \in 1 .. upstream'
    BY <1>0, <2>1, <2>2, <2>3 DEF Order
  <2>. QED
    BY <2>1, <2>4 DEF Order
<1>4. CASE (DrainCopy \/ DrainFailPop) /\ len # 0
  <2>1. /\ PopHead /\ UNCHANGED <<wpc, upstream>> /\ ringCap = RingCap
        /\ \/ lpc # "handle" /\ lpc' # "handle" /\ scratch' = scratch
           \/ lpc' = "handle" /\ scratch' = ring[head]
    BY <1>0, <1>4 DEF DrainCopy, DrainFailPop, LoopFrame
  <2>2. \A i \in 1 .. len' : i + 1 \in 1 .. len /\ ring'[Slot(i)'] = ring[Slot(i + 1)]
    BY <1>0, <1>4, <2>1, PopIsTail
  <2>3. 1 \in 1 .. len /\ Slot(1) = head
    <3>1. head \in Slots /\ len \in 1 .. RingCap
      BY <1>4 DEF TypeOK, Inv
    <3>. QED
      BY <3>1 DEF Slot, Slots
  <2>4. \A i \in 1 .. len' : /\ ring'[Slot(i)'] \in 1 .. upstream
                             /\ wpc = "queue" => ring'[Slot(i)'] < upstream
    BY <2>2 DEF Order
  <2>5. /\ ring[head] \in 1 .. upstream
        /\ wpc = "queue" => ring[head] < upstream
    BY <2>3 DEF Order
  <2>6. /\ scratch' \in 0 .. upstream'
        /\ wpc' = "queue" => scratch' < upstream'
        /\ lpc' = "handle" <=> scratch' # 0
    BY <1>0, <2>1, <2>5 DEF Order
  <2>7. \A i \in 1 .. len' : ring'[Slot(i)'] \in 1 .. upstream'
    BY <2>1, <2>4
  <2>8. wpc' = "queue" => \A i \in 1 .. len' : ring'[Slot(i)'] < upstream'
    BY <2>1, <2>4
  <2>. QED
    BY <2>6, <2>7, <2>8 DEF Order
<1>5. CASE DrainHandle
  <2>1. UNCHANGED <<fifo, upstream, wpc>> /\ scratch' = 0 /\ lpc' = "peek"
    BY <1>5 DEF DrainHandle, LoopFrame
  <2>. QED
    BY <1>0, <2>1, SameQueue DEF Order, fifo
<1>6. CASE CloseFree
  <2>1. len' = 0 /\ UNCHANGED <<scratch, upstream, wpc>> /\ lpc # "handle" /\ lpc' # "handle"
    BY <1>6 DEF CloseFree, CloseFrame
  <2>. QED
    BY <1>0, <2>1 DEF Order
<1>7. CASE Start \/ WorkerCheckClosing \/ WorkerRecordDrop \/ (WorkerQueueMsg /\ UNCHANGED fifo)
  BY <1>1, <1>7
  DEF Start, StartAlloc, StartLock, StartAsync, StartConnect, StartSubscribe, StartThread,
      StartFrame, WorkerCheckClosing, WorkerRecordDrop, WorkerQueueMsg, WorkerFrame
<1>8. CASE OnAsync \/ DrainPeek \/ DrainReserve \/ ((DrainFailPop \/ DrainCopy) /\ len = 0)
           \/ OnSignal \/ BeginClose
  BY <1>1, <1>8
  DEF OnAsync, DrainPeek, DrainReserve, DrainFailPop, DrainCopy, LoopFrame, OnSignal, BeginClose
<1>9. CASE CloseBegin \/ CloseJoin \/ CloseNats \/ CloseAsync \/ Done \/ UNCHANGED vars
  BY <1>1, <1>9
  DEF CloseBegin, CloseJoin, CloseNats, CloseAsync, CloseFrame, Done, vars
<1>. QED
  BY <1>2, <1>3, <1>4, <1>5, <1>6, <1>7, <1>8, <1>9 DEF Next, Start, Worker, Drain, Close

\* A step that shows the queue's reader and writer nothing new.
LEMMA Unseen ==
    ASSUME UNCHANGED <<fifo, upstream, scratch>>, lpc # "closed", lpc' # "closed"
    PROVE  UNCHANGED AbstractQueue!qvars
<1>1. Queued' = Queued /\ UNCHANGED <<upstream, scratch>>
  BY SameQueue
<1>2. (lpc = "closed")' <=> (lpc = "closed")
  OBVIOUS
<1>. QED
  BY <1>1, <1>2 DEF AbstractQueue!qvars

\* Every step of the importer is a step of the abstract queue or invisible to it.
LEMMA StepSimulates ==
    ASSUME Inv, Inv', Order, [Next]_vars
    PROVE  [AbstractQueue!Next]_AbstractQueue!qvars
<1>. USE RingCapAssumption, MaxMsgsAssumption
<1>0. /\ TypeOK /\ TypeOK' /\ QueueView /\ QueueView'
      /\ lpc \notin {"alloc", "closed"} => ringCap = RingCap
      /\ wpc = "queue" => ringCap = RingCap /\ lpc # "closed"
  <2>1. TypeOK /\ TypeOK'
    BY DEF Inv
  <2>2. QueueView /\ QueueView'
    BY <2>1, QueuedIsSeq, PTL
  <2>. QED
    BY <2>1, <2>2 DEF Inv, TypeOK, Stages, WorkerAlive, DrainSteps
<1>1. CASE UNCHANGED <<fifo, upstream, scratch>> /\ lpc # "closed" /\ lpc' # "closed"
  BY <1>1, Unseen
<1>2. CASE WorkerNextMsg
  <2>1. UNCHANGED <<fifo, scratch, lpc>> /\ Queued' = Queued
    BY <1>2, SameQueue DEF WorkerNextMsg, WorkerFrame
  <2>2. CASE upstream' = upstream
    BY <2>1, <2>2 DEF AbstractQueue!qvars
  <2>3. CASE upstream < MaxMsgs /\ upstream' = upstream + 1
    <3>1. AbstractQueue!Arrive
      BY <2>1, <2>3 DEF AbstractQueue!Arrive
    <3>. QED
      BY <3>1 DEF AbstractQueue!Next
  <2>. QED
    BY <1>2, <2>2, <2>3 DEF WorkerNextMsg
<1>3. CASE WorkerQueueMsg /\ ~UNCHANGED fifo
  <2>1. /\ len < RingCap /\ ring' = [ring EXCEPT ![(head + len) % RingCap] = upstream]
        /\ len' = len + 1 /\ head' = head /\ UNCHANGED <<lpc, upstream, scratch>>
        /\ wpc = "queue" /\ lpc # "closed" /\ upstream \in 0 .. MaxMsgs
    BY <1>0, <1>3 DEF WorkerQueueMsg, WorkerFrame, InHand, TypeOK
  <2>2. Queued' = Append(Queued, upstream)
    BY <1>0, <2>1, WriteAppends
  <2>3. /\ upstream > 0 /\ scratch < upstream
        /\ \A i \in 1 .. len : ring[Slot(i)] < upstream
    BY <2>1 DEF Order
  <2>4. Len(Queued) < RingCap /\ \A i \in 1 .. Len(Queued) : Queued[i] < upstream
    BY <1>0, <2>1, <2>3 DEF QueueView
  <2>5. AbstractQueue!Accept
    BY <2>1, <2>2, <2>3, <2>4 DEF AbstractQueue!Accept
  <2>. QED
    BY <2>5 DEF AbstractQueue!Next
<1>4. CASE DrainCopy /\ len # 0
  <2>1. /\ PopHead /\ UNCHANGED upstream /\ ringCap = RingCap
        /\ lpc = "copy" /\ lpc' = "handle" /\ scratch' = ring[head]
    BY <1>0, <1>4 DEF DrainCopy, LoopFrame
  <2>2. Queued' = Tail(Queued) /\ Queued # <<>> /\ Head(Queued) = ring[head]
    BY <1>0, <1>4, <2>1, PopIsTail DEF QueueView
  <2>3. scratch = 0
    BY <2>1 DEF Order
  <2>4. AbstractQueue!HandOut
    BY <2>1, <2>2, <2>3 DEF AbstractQueue!HandOut
  <2>. QED
    BY <2>4 DEF AbstractQueue!Next
<1>5. CASE DrainFailPop /\ len # 0
  <2>1. /\ PopHead /\ UNCHANGED <<upstream, scratch>> /\ ringCap = RingCap
        /\ lpc = "fail_pop" /\ lpc' = "peek"
    BY <1>0, <1>5 DEF DrainFailPop, LoopFrame
  <2>2. Queued' = Tail(Queued) /\ Queued # <<>>
    BY <1>0, <1>5, <2>1, PopIsTail DEF QueueView
  <2>3. AbstractQueue!Lose
    BY <2>1, <2>2 DEF AbstractQueue!Lose
  <2>. QED
    BY <2>3 DEF AbstractQueue!Next
<1>6. CASE DrainHandle
  <2>1. UNCHANGED <<fifo, upstream>> /\ scratch' = 0 /\ lpc' = "peek" /\ lpc = "handle"
    BY <1>6 DEF DrainHandle, LoopFrame
  <2>2. scratch # 0 /\ Queued' = Queued
    BY <2>1, SameQueue DEF Order
  <2>3. AbstractQueue!Finish
    BY <2>1, <2>2 DEF AbstractQueue!Finish
  <2>. QED
    BY <2>3 DEF AbstractQueue!Next
<1>7. CASE CloseFree \/ (StartAlloc /\ lpc' = "closed")
  <2>1. /\ lpc # "closed" /\ lpc' = "closed" /\ lpc # "handle" /\ len' = 0
        /\ UNCHANGED <<upstream, scratch>>
    BY <1>7 DEF CloseFree, CloseFrame, StartAlloc, StartFrame, Inv, Quiet, Stages, StartSteps, fifo
  <2>2. Queued' = <<>> /\ scratch = 0
    BY <1>0, <2>1 DEF Order, QueueView
  <2>3. AbstractQueue!Shut
    BY <2>1, <2>2 DEF AbstractQueue!Shut
  <2>. QED
    BY <2>3 DEF AbstractQueue!Next
<1>8. CASE (Start /\ lpc' # "closed") \/ CloseBegin \/ CloseJoin \/ CloseNats \/ CloseAsync
  BY <1>1, <1>8
  DEF Start, StartAlloc, StartLock, StartAsync, StartConnect, StartSubscribe, StartThread,
      StartFrame, CloseBegin, CloseJoin, CloseNats, CloseAsync, CloseFrame
<1>9. CASE WorkerCheckClosing \/ WorkerRecordDrop \/ (WorkerQueueMsg /\ UNCHANGED fifo)
  <2>1. wpc \notin {"none", "exited"} => lpc # "closed"
    BY DEF Inv, Stages, WorkerAlive, DrainSteps
  <2>. QED
    BY <1>1, <1>9, <2>1 DEF WorkerCheckClosing, WorkerRecordDrop, WorkerQueueMsg, WorkerFrame
<1>10. CASE OnAsync \/ DrainPeek \/ DrainReserve \/ ((DrainFailPop \/ DrainCopy) /\ len = 0)
            \/ OnSignal \/ BeginClose
  BY <1>1, <1>10
  DEF OnAsync, DrainPeek, DrainReserve, DrainFailPop, DrainCopy, LoopFrame, OnSignal, BeginClose
<1>11. CASE Done \/ UNCHANGED vars
  <2>1. UNCHANGED <<fifo, upstream, scratch, lpc>> /\ Queued' = Queued
    BY <1>11, SameQueue DEF Done, vars
  <2>. QED
    BY <2>1 DEF AbstractQueue!qvars
<1>. QED
  BY <1>2, <1>3, <1>4, <1>5, <1>6, <1>7, <1>8, <1>9, <1>10, <1>11
  DEF Next, Start, StartLock, StartAsync, StartConnect, StartSubscribe, StartThread,
      Worker, Drain, Close

\* The ring, its indices, the two critical sections of drain and the shutdown implement
\* the bounded first-in first-out queue of ImportQueue, for every capacity: each message
\* is accepted at most once and only at the tail, and leaves only from the head.
THEOREM RingImplementsQueue == Spec => ImplementsQueue
<1>1. Init => Order /\ AbstractQueue!Init
  <2>. SUFFICES ASSUME Init PROVE Order /\ AbstractQueue!Init
    OBVIOUS
  <2>1. Queued = <<>>
    BY DEF Init, Queued
  <2>. QED
    BY <2>1 DEF Init, Order, AbstractQueue!Init
<1>2. Inv /\ Inv' /\ Order /\ [Next]_vars => Order'
  BY OrderStep
<1>3. Inv /\ Inv' /\ Order /\ [Next]_vars => [AbstractQueue!Next]_AbstractQueue!qvars
  BY StepSimulates
<1>. QED
  BY <1>1, <1>2, <1>3, InvHolds, PTL DEF Spec, ImplementsQueue, AbstractQueue!Spec

=============================================================================
