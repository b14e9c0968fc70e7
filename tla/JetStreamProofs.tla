--------------------------- MODULE JetStreamProofs ---------------------------
(***************************************************************************)
(* Machine-checked proofs about module JetStream, for every stream, filter *)
(* and batch size and every number of deliveries and restarts.             *)
(*                                                                         *)
(* Inv adds to the properties what they rest on: everything a process      *)
(* holds was delivered (Reach), the slot belongs to the thread whose turn  *)
(* it is (Handoff), event times stay behind what is left to replay         *)
(* (Replay), and catch-up ends with nothing undelivered below the          *)
(* high-water mark (Covered).  The lemmas on Fetches and Deliver carry the *)
(* argument about the consumer: a fetch passes over no matching message.   *)
(***************************************************************************)
EXTENDS JetStream, FiniteSetTheorems, SequenceTheorems, WellFoundedInduction, TLAPS

\* The counters and the number of objects are natural numbers.
Counts == /\ received \in Nat /\ acked \in Nat /\ redelivered \in Nat /\ failed \in Nat
          /\ fetched \in Nat /\ freed \in Nat

\* Whatever a process holds was delivered, and the high-water mark was read from the stream.
Reach ==
    /\ unacked \subseteq 1 .. delivered
    /\ catchupTo <= lastSeq
    /\ lastStreamSeq <= delivered
    /\ wmsg.seq <= delivered /\ pendingMsg.seq <= delivered /\ loopMsg.seq <= delivered
    /\ \A i \in 1 .. Len(batch) : batch[i].seq <= delivered

\* The hand-off: who may touch the slot, by the positions of the two threads.
Handoff ==
    /\ lpc \in CatchupSteps \cup {"live"} => wpc = "none"
    /\ lpc = "destroy" => wpc = "exited"
    /\ pendingReady <=> pendingMsg # NoMsg
    /\ pendingReady => wpc = "wait" /\ ~pendingDone
    /\ inProcess <=> lpc \in {"process", "finish"}
    /\ inProcess => wpc = "wait" /\ ~pendingReady /\ ~pendingDone
    /\ loopMsg # NoMsg <=> lpc = "process"
    /\ wpc = "enter" => wmsg # NoMsg

\* Catch-up: what evaluation has seen is behind the last acknowledged message or, within a
\* batch of which a message failed, behind every message that is left.
Replay ==
    /\ lpc \in CatchupSteps \ {"batch"} => evalTime <= lastWall
    /\ lpc = "batch" =>
        /\ batchOk => evalTime <= lastWall
        /\ \A i \in 1 .. Len(batch) : evalTime <= lastWall \/ evalTime <= batch[i].seq
        /\ \A i, j \in 1 .. Len(batch) : i < j => batch[i].seq <= batch[j].seq

\* After catch-up every matching message up to the high-water mark was delivered.
Covered ==
    lpc \in {"live"} \cup LiveSteps /\ CatchUp => \A s \in Matching : s <= catchupTo => s <= delivered

Inv == /\ TypeOK /\ Counts /\ Reach /\ Handoff /\ AckedWasApplied /\ OneOwner /\ Replay /\ Covered

-----------------------------------------------------------------------------
(* Least and greatest numbers.                                             *)

\* A set of natural numbers has a least element, and Min is it.
LEMMA MinOfNats ==
    ASSUME NEW S \in SUBSET Nat, S # {}
    PROVE  Min(S) \in S /\ \A y \in S : Min(S) <= y
<1>1. PICK x \in S : \A y \in S : ~(<<y, x>> \in OpToRel(<, Nat))
  BY WFMin, NatLessThanWellFounded
<1>2. \A y \in S : ~(y < x)
  BY <1>1 DEF OpToRel
<1>3. \A y \in S : x <= y
  BY <1>2
<1>. QED
  BY <1>3 DEF Min

\* A bounded set of natural numbers has a greatest element, and Max is it.
LEMMA MaxOfNats ==
    ASSUME NEW N \in Nat, NEW S \in SUBSET (0 .. N), S # {}
    PROVE  Max(S) \in S /\ \A y \in S : Max(S) >= y
<1>. DEFINE T == {n \in Nat : \E x \in S : n = N - x}
<1>1. T \in SUBSET Nat /\ T # {}
  <2>1. PICK x \in S : TRUE
    OBVIOUS
  <2>2. N - x \in T
    OBVIOUS
  <2>. QED
    BY <2>2
<1>2. Min(T) \in T /\ \A y \in T : Min(T) <= y
  BY <1>1, MinOfNats
<1>3. PICK x \in S : Min(T) = N - x
  BY <1>2
<1>4. \A y \in S : x >= y
  <2>. TAKE y \in S
  <2>1. N - y \in T
    OBVIOUS
  <2>. QED
    BY <2>1, <1>2, <1>3
<1>. QED
  BY <1>4 DEF Max

-----------------------------------------------------------------------------
(* What the consumer does.                                                 *)

\* AckFloor is a sequence number of the stream that was delivered.
LEMMA AckFloorBounded ==
    ASSUME TypeOK, Reach
    PROVE  AckFloor \in 0 .. delivered
<1>1. CASE unacked = {}
  BY <1>1 DEF AckFloor, TypeOK, ConsumerType, PositionType
<1>2. CASE unacked # {}
  <2>1. unacked \subseteq 1 .. delivered /\ delivered \in Nat
    BY DEF TypeOK, ConsumerType, PositionType, Reach
  <2>2. Min(unacked) \in unacked
    BY <1>2, <2>1, MinOfNats
  <2>. QED
    <3>1. Min(unacked) \in 1 .. delivered
      BY <2>1, <2>2
    <3>2. AckFloor = Min(unacked) - 1
      BY <1>2 DEF AckFloor
    <3>. QED
      BY <2>1, <3>1, <3>2
<1>. QED
  BY <1>1, <1>2

\* A message due again was delivered before, a new one was not.
LEMMA DueMessages ==
    ASSUME TypeOK, Reach, NEW m \in Due
    PROVE  /\ m \in Msgs
           /\ \/ m.again = TRUE /\ m.seq \in expired /\ m.seq <= delivered
              \/ m.again = FALSE /\ m.seq \in New /\ m.seq > delivered
<1>1. CASE m \in [seq : expired, again : {TRUE}]
  <2>1. m.seq \in expired
    BY <1>1
  <2>2. m.seq \in Seqs /\ m.seq <= delivered
    <3>1. /\ expired \subseteq unacked /\ unacked \subseteq Seqs
          /\ unacked \subseteq 1 .. delivered /\ delivered \in Nat
      BY DEF TypeOK, ConsumerType, PositionType, Reach
    <3>2. m.seq \in Seqs /\ m.seq \in 1 .. delivered
      BY <2>1, <3>1
    <3>. QED
      BY <3>1, <3>2
  <2>3. m \in Msgs
    BY <1>1, <2>2 DEF Msgs
  <2>4. m.again = TRUE
    BY <1>1
  <2>. QED
    BY <2>1, <2>2, <2>3, <2>4, Zenon
<1>2. CASE m \in [seq : New, again : {FALSE}]
  <2>1. m.seq \in New
    BY <1>2
  <2>2. m.seq \in Seqs /\ m.seq > delivered
    BY <2>1, StreamAssumption DEF New, Seqs, TypeOK, ConsumerType, PositionType
  <2>3. m \in Msgs
    BY <1>2, <2>2 DEF Msgs
  <2>4. m.again = FALSE
    BY <1>2
  <2>. QED
    BY <2>1, <2>2, <2>3, <2>4, Zenon
<1>. QED
  BY <1>1, <1>2 DEF Due

\* A fetch returns messages of the stream, in order of their sequence.
LEMMA FetchedList ==
    ASSUME TypeOK, Reach, NEW n \in Nat \ {0}, NEW list \in Fetches(n)
    PROVE  /\ list \in Seq(Msgs) /\ Len(list) = n
           /\ \A i \in 1 .. n : list[i] \in Due
           /\ \A i \in 1 .. n : list[i].seq \in Seqs
           /\ \A i, j \in 1 .. n : i < j => list[i].seq <= list[j].seq
<1>1. Due \subseteq Msgs
  BY DueMessages
<1>2. list \in [1 .. n -> Due]
  BY DEF Fetches
<1>3. list \in [1 .. n -> Msgs]
  BY <1>1, <1>2
<1>4. list \in Seq(Msgs) /\ Len(list) = n
  BY <1>3
<1>5. ASSUME NEW i \in 1 .. n, NEW j \in 1 .. n, i < j PROVE list[i].seq <= list[j].seq
  <2>1. list[i] \in Due /\ list[j] \in Due /\ Precedes(list[i], list[j])
    BY <1>2, <1>5 DEF Fetches
  <2>2. list[i].seq \in Nat /\ list[j].seq \in Nat /\ delivered \in Nat
    BY <1>3, SMTT(30) DEF Msgs, Seqs, TypeOK, ConsumerType, PositionType
  <2>3. CASE list[i].again = list[j].again
    BY <2>1, <2>2, <2>3 DEF Precedes
  <2>4. CASE list[i].again # list[j].again
    <3>1. list[i].again
      BY <2>1, <2>4 DEF Precedes
    <3>2. list[i].seq <= delivered
      BY <2>1, <3>1, DueMessages
    <3>3. list[j].seq > delivered
      BY <2>1, <2>4, <3>1, DueMessages
    <3>. QED
      BY <2>2, <3>2, <3>3
  <2>. QED
    BY <2>3, <2>4
<1>. QED
  BY <1>2, <1>3, <1>4, <1>5 DEF Msgs

\* A delivery takes the consumer to the last message delivered, passes over no matching one
\* and owes all of them until they are acknowledged.
LEMMA Delivery ==
    ASSUME TypeOK, Reach, AckedWasApplied, NEW n \in Nat \ {0}, NEW list \in Fetches(n),
           Deliver(list), UNCHANGED everApplied
    PROVE  /\ delivered' \in delivered .. MaxSeq
           /\ \A i \in 1 .. n : list[i].seq <= delivered'
           /\ unacked' \subseteq 1 .. delivered' /\ expired' \subseteq unacked'
           /\ AckedWasApplied'
           /\ deliveries' = deliveries + n
<1>. DEFINE seqs == {list[i].seq : i \in 1 .. Len(list)}
<1>1. /\ delivered' = Max(seqs \cup {delivered})
      /\ unacked' = unacked \cup seqs
      /\ expired' = expired \ seqs
      /\ deliveries' = deliveries + Len(list)
  BY DEF Deliver
<1>2. Len(list) = n /\ seqs \subseteq Seqs
  BY FetchedList
<1>3. /\ delivered' \in seqs \cup {delivered}
      /\ \A s \in seqs \cup {delivered} : delivered' >= s
  <2>1. seqs \cup {delivered} \in SUBSET (0 .. MaxSeq)
    BY <1>2, StreamAssumption DEF TypeOK, ConsumerType, PositionType, Seqs
  <2>. QED
    BY <2>1, <1>1, MaxOfNats, StreamAssumption
<1>4. delivered' \in delivered .. MaxSeq
  BY <1>2, <1>3, StreamAssumption DEF TypeOK, ConsumerType, PositionType, Seqs
<1>5. AckedWasApplied'
  <2>. SUFFICES ASSUME NEW s \in Matching, s \in 1 .. delivered', s \notin unacked'
                PROVE  s \in everApplied
    BY DEF AckedWasApplied
  <2>1. CASE s <= delivered
    BY <2>1, <1>1, StreamAssumption DEF AckedWasApplied, TypeOK, ConsumerType, PositionType
  <2>2. CASE s > delivered
    <3>1. PICK i \in 1 .. n : list[i].seq = delivered'
      BY <1>2, <1>3, <2>2 DEF TypeOK, ConsumerType, PositionType
    <3>2. list[i] \in Due /\ s < list[i].seq
      BY <3>1, <1>1, <1>2, <1>4, FetchedList, SMTT(30) DEF TypeOK, ConsumerType, PositionType, Seqs
    <3>. s \in Nat /\ delivered \in Nat /\ list[i].seq \in Nat /\ lastSeq \in Nat
      BY <3>1, <1>4, StreamAssumption DEF TypeOK, ConsumerType, PositionType
    <3>3. list[i].again = FALSE /\ list[i].seq \in New
      <4>1. ~(list[i].seq <= delivered)
        BY <3>2, <2>2
      <4>. QED
        BY <3>2, <4>1, DueMessages, Zenon
    <3>4. [seq |-> s, again |-> FALSE] \in Due
      <4>1. s \in New
        BY <3>2, <3>3, <2>2 DEF New
      <4>. QED
        BY <4>1 DEF Due
    <3>5. Precedes([seq |-> s, again |-> FALSE], list[i])
      BY <3>2, <3>3 DEF Precedes
    <3>6. PICK j \in 1 .. n : list[j] = [seq |-> s, again |-> FALSE]
      BY <3>4, <3>5 DEF Fetches
    <3>7. s \in seqs
      BY <3>6, <1>2
    <3>. QED
      BY <3>7, <1>1
  <2>. QED
    BY <2>1, <2>2, StreamAssumption DEF TypeOK, ConsumerType, PositionType
<1>. QED
  <2>1. \A i \in 1 .. n : list[i].seq \in seqs
    BY <1>2
  <2>2. unacked' \subseteq 1 .. delivered'
    <3>1. \A s \in seqs : s \in 1 .. delivered'
      BY <1>2, <1>3, <1>4 DEF TypeOK, ConsumerType, PositionType, Seqs
    <3>2. \A s \in unacked : s \in 1 .. delivered'
      BY <1>4 DEF Reach, TypeOK, ConsumerType, PositionType
    <3>. QED
      BY <1>1, <3>1, <3>2
  <2>3. expired' \subseteq unacked'
    BY <1>1 DEF TypeOK, ConsumerType, PositionType
  <2>. QED
    BY <1>1, <1>2, <1>3, <1>4, <1>5, <2>1, <2>2, <2>3

\* js_stream_process_msg, whatever becomes of the message: the counters stay balanced, the
\* consumer forgets nothing else, and what was evaluated or acknowledged had been delivered.
LEMMA Processing ==
    ASSUME TypeOK, Counts, Reach, AckedWasApplied, NEW m \in Msgs, m.seq <= delivered,
           AckMsg(m) \/ FailMsg(m)
    PROVE  /\ received' \in Nat /\ acked' \in Nat /\ redelivered' \in Nat /\ failed' \in Nat
           /\ received' = acked' + failed' /\ redelivered' <= received'
           /\ lastStreamSeq' \in 0 .. delivered /\ lastWall' \in 0 .. MaxSeq
           /\ evalTime' \in 0 .. MaxSeq /\ everApplied' \subseteq Seqs
           /\ unacked' \subseteq unacked /\ expired' \subseteq unacked'
           /\ UNCHANGED <<lastSeq, delivered>>
           /\ AckedWasApplied'
<1>. m.seq \in Seqs /\ m.seq \in Nat /\ EventTime(m) \in 0 .. MaxSeq
  BY StreamAssumption DEF Msgs, Seqs, EventTime, TypeOK, ConsumerType, PositionType
<1>. Redelivered(m) => redelivered' \in {redelivered, redelivered + 1}
  BY DEF Redelivered
<1>. received = acked + failed /\ redelivered <= received
  BY DEF TypeOK, ConsumerType, PositionType
<1>. USE DEF consumer, applied
<1>1. CASE RejectMsg(m)
  <2>1. /\ received' \in Nat /\ acked' \in Nat /\ redelivered' \in Nat /\ failed' \in Nat
        /\ received' = acked' + failed' /\ redelivered' <= received'
    BY <1>1 DEF RejectMsg, Counts
  <2>2. /\ lastStreamSeq' \in 0 .. delivered /\ lastWall' \in 0 .. MaxSeq
        /\ evalTime' \in 0 .. MaxSeq /\ everApplied' \subseteq Seqs
    BY <1>1 DEF RejectMsg, TypeOK, ConsumerType, PositionType, Reach
  <2>3. /\ unacked' = unacked /\ expired' \subseteq unacked'
        /\ UNCHANGED <<lastSeq, delivered>>
    BY <1>1 DEF RejectMsg, TypeOK, ConsumerType, PositionType
  <2>4. AckedWasApplied'
    BY <1>1, <2>3 DEF RejectMsg, AckedWasApplied
  <2>. QED
    BY <2>1, <2>2, <2>3, <2>4
<1>2. CASE RefuseMsg(m)
  <2>1. /\ received' \in Nat /\ acked' \in Nat /\ redelivered' \in Nat /\ failed' \in Nat
        /\ received' = acked' + failed' /\ redelivered' <= received'
    BY <1>2 DEF RefuseMsg, Counts
  <2>2. /\ lastStreamSeq' \in 0 .. delivered /\ lastWall' \in 0 .. MaxSeq
        /\ evalTime' \in 0 .. MaxSeq /\ everApplied' \subseteq Seqs
    BY <1>2 DEF RefuseMsg, TypeOK, ConsumerType, PositionType, Reach
  <2>3. /\ unacked' = unacked /\ expired' \subseteq unacked'
        /\ UNCHANGED <<lastSeq, delivered>>
    BY <1>2 DEF RefuseMsg, TypeOK, ConsumerType, PositionType
  <2>4. AckedWasApplied'
    BY <1>2, <2>3 DEF RefuseMsg, AckedWasApplied
  <2>. QED
    BY <2>1, <2>2, <2>3, <2>4
<1>3. CASE AckFailsMsg(m)
  <2>1. /\ received' \in Nat /\ acked' \in Nat /\ redelivered' \in Nat /\ failed' \in Nat
        /\ received' = acked' + failed' /\ redelivered' <= received'
    BY <1>3 DEF AckFailsMsg, Counts
  <2>2. /\ lastStreamSeq' \in 0 .. delivered /\ lastWall' \in 0 .. MaxSeq
        /\ evalTime' \in 0 .. MaxSeq /\ everApplied' \subseteq Seqs
    <3>1. lastStreamSeq \in 0 .. delivered /\ lastWall \in 0 .. MaxSeq /\ everApplied \subseteq Seqs
      BY DEF TypeOK, ConsumerType, PositionType, Reach
    <3>. QED
      BY <1>3, <3>1 DEF AckFailsMsg
  <2>3. /\ unacked' = unacked /\ expired' \subseteq unacked'
        /\ UNCHANGED <<lastSeq, delivered>>
    BY <1>3 DEF AckFailsMsg, TypeOK, ConsumerType, PositionType
  <2>4. AckedWasApplied'
    BY <1>3, <2>3 DEF AckFailsMsg, AckedWasApplied
  <2>. QED
    BY <2>1, <2>2, <2>3, <2>4
<1>4. CASE AckMsg(m)
  <2>1. /\ received' \in Nat /\ acked' \in Nat /\ redelivered' \in Nat /\ failed' \in Nat
        /\ received' = acked' + failed' /\ redelivered' <= received'
    BY <1>4 DEF AckMsg, Counts
  <2>2. /\ lastStreamSeq' \in 0 .. delivered /\ lastWall' \in 0 .. MaxSeq
        /\ evalTime' \in 0 .. MaxSeq /\ everApplied' \subseteq Seqs
    BY <1>4 DEF AckMsg, TypeOK, ConsumerType, PositionType
  <2>3. /\ unacked' \in {unacked, unacked \ {m.seq}} /\ expired' \subseteq unacked'
        /\ UNCHANGED <<lastSeq, delivered>>
    BY <1>4 DEF AckMsg, AckSent, TypeOK, ConsumerType, PositionType
  <2>4. AckedWasApplied'
    BY <1>4, <2>3 DEF AckMsg, AckedWasApplied
  <2>. QED
    BY <2>1, <2>2, <2>3, <2>4
<1>. QED
  BY <1>1, <1>2, <1>3, <1>4 DEF FailMsg

-----------------------------------------------------------------------------
(* Every action preserves the invariant, one part after the other.         *)

\* Types and counters.
LEMMA TypeStep ==
    ASSUME TypeOK, Counts, Reach, Handoff, AckedWasApplied, [Next]_vars
    PROVE  TypeOK' /\ Counts'
<1>. USE DEF consumer, counters, slot, catchup, worker, applied, objects, local,
         LoopSteps, CatchupSteps, LiveSteps, WorkerSteps
<1>. USE StreamAssumption, ConfigAssumption, BoundsAssumption
<1>1. CASE StreamPublish
  <2>1. ConsumerType'
    BY <1>1 DEF StreamPublish, TypeOK, ConsumerType
  <2>2. PositionType'
    BY <1>1 DEF StreamPublish, TypeOK, PositionType
  <2>3. FlagType'
    BY <1>1 DEF StreamPublish, TypeOK, FlagType
  <2>4. Counts' /\ (received = acked + failed /\ redelivered <= received)'
    BY <1>1 DEF StreamPublish, TypeOK, Counts
  <2>. QED
    BY <2>1, <2>2, <2>3, <2>4 DEF TypeOK
<1>2. CASE AckWaitExpires
  <2>1. ConsumerType'
    BY <1>2 DEF AckWaitExpires, TypeOK, ConsumerType
  <2>2. PositionType'
    BY <1>2 DEF AckWaitExpires, TypeOK, PositionType
  <2>3. FlagType'
    BY <1>2 DEF AckWaitExpires, TypeOK, FlagType
  <2>4. Counts' /\ (received = acked + failed /\ redelivered <= received)'
    BY <1>2 DEF AckWaitExpires, TypeOK, Counts
  <2>. QED
    BY <2>1, <2>2, <2>3, <2>4 DEF TypeOK
<1>3. CASE LoadHighwater
  <2>1. ConsumerType'
    BY <1>3 DEF LoadHighwater, CatchupFrame, StartFails, TypeOK, ConsumerType
  <2>2. PositionType'
    BY <1>3 DEF LoadHighwater, CatchupFrame, StartFails, TypeOK, ConsumerType, PositionType
  <2>3. FlagType'
    BY <1>3 DEF LoadHighwater, CatchupFrame, StartFails, TypeOK, FlagType
  <2>4. Counts' /\ (received = acked + failed /\ redelivered <= received)'
    BY <1>3 DEF LoadHighwater, CatchupFrame, StartFails, TypeOK, Counts
  <2>. QED
    BY <2>1, <2>2, <2>3, <2>4 DEF TypeOK
<1>4. CASE CatchupLoop
  <2>1. ConsumerType'
    BY <1>4 DEF CatchupLoop, CatchupFrame, TypeOK, ConsumerType
  <2>2. PositionType'
    BY <1>4 DEF CatchupLoop, CatchupFrame, TypeOK, PositionType
  <2>3. FlagType'
    BY <1>4 DEF CatchupLoop, CatchupFrame, TypeOK, FlagType
  <2>4. Counts' /\ (received = acked + failed /\ redelivered <= received)'
    BY <1>4 DEF CatchupLoop, CatchupFrame, TypeOK, Counts
  <2>. QED
    BY <2>1, <2>2, <2>3, <2>4 DEF TypeOK
<1>5. CASE CatchupFetch
  <2>. DEFINE Got(n, list) ==
         /\ batch' = list /\ Deliver(list)
         /\ lpc' = "batch" /\ deliveries + n <= MaxDeliveries
  <2>0. /\ \/ UNCHANGED <<batch, consumer, deliveries>> /\ lpc' \in {"query", "down"}
           \/ \E n \in 1 .. Batch : \E list \in Fetches(n) : Got(n, list)
        /\ UNCHANGED <<restarts, wpc, wmsg, catchupTo, lastStreamSeq, lastWall, pendingMsg, loopMsg,
                       evalTime, everApplied>>
    BY <1>5 DEF CatchupFetch, CatchupFrame, StartFails
  <2>1. ConsumerType'
    <3>1. CASE UNCHANGED <<consumer, deliveries>>
      BY <2>0, <3>1 DEF TypeOK, ConsumerType
    <3>2. ASSUME NEW n \in 1 .. Batch, NEW list \in Fetches(n), Got(n, list) PROVE ConsumerType'
      <4>1. /\ delivered' \in 0 .. MaxSeq /\ unacked' \subseteq Seqs /\ expired' \subseteq unacked'
            /\ deliveries' \in 0 .. MaxDeliveries
        BY <3>2, <2>0, Delivery DEF TypeOK, ConsumerType, Seqs
      <4>. QED
        BY <4>1, <3>2, <2>0 DEF Deliver, TypeOK, ConsumerType
    <3>. QED
      BY <2>0, <3>1, <3>2
  <2>2. PositionType'
    <3>1. batch' \in Seq(Msgs)
      BY <2>0, FetchedList DEF TypeOK, PositionType
    <3>. QED
      BY <2>0, <3>1 DEF TypeOK, PositionType
  <2>3. FlagType'
    BY <1>5 DEF CatchupFetch, CatchupFrame, StartFails, TypeOK, FlagType
  <2>4. Counts' /\ (received = acked + failed /\ redelivered <= received)'
    BY <1>5 DEF CatchupFetch, CatchupFrame, StartFails, TypeOK, Counts
  <2>. QED
    BY <2>1, <2>2, <2>3, <2>4 DEF TypeOK
<1>6. CASE CatchupProcess
  <2>. /\ received' \in Nat /\ acked' \in Nat /\ redelivered' \in Nat /\ failed' \in Nat
       /\ received' = acked' + failed' /\ redelivered' <= received'
       /\ lastStreamSeq' \in 0 .. delivered /\ lastWall' \in 0 .. MaxSeq
       /\ evalTime' \in 0 .. MaxSeq /\ everApplied' \subseteq Seqs
       /\ unacked' \subseteq unacked /\ expired' \subseteq unacked'
       /\ UNCHANGED <<lastSeq, delivered>>
    <3>1. Head(batch) \in Msgs /\ Head(batch).seq <= delivered /\ (AckMsg(Head(batch)) \/ FailMsg(Head(batch)))
      BY <1>6 DEF CatchupProcess, TypeOK, PositionType, Reach
    <3>. QED
      BY <3>1, Processing
  <2>1. ConsumerType'
    BY <1>6 DEF CatchupProcess, CatchupFrame, TypeOK, ConsumerType
  <2>2. PositionType'
    <3>1. batch' \in Seq(Msgs)
      BY <1>6 DEF CatchupProcess, TypeOK, PositionType
    <3>2. lastStreamSeq' \in 0 .. MaxSeq
      BY DEF TypeOK, ConsumerType
    <3>. QED
      BY <1>6, <3>1, <3>2 DEF CatchupProcess, CatchupFrame, TypeOK, PositionType
  <2>3. FlagType'
    BY <1>6 DEF CatchupProcess, CatchupFrame, TypeOK, FlagType
  <2>4. Counts' /\ (received = acked + failed /\ redelivered <= received)'
    BY <1>6 DEF CatchupProcess, CatchupFrame, Counts
  <2>. QED
    BY <2>1, <2>2, <2>3, <2>4 DEF TypeOK
<1>7. CASE CatchupBatchEnd
  <2>1. ConsumerType'
    BY <1>7 DEF CatchupBatchEnd, CatchupFrame, StartFails, TypeOK, ConsumerType
  <2>2. PositionType'
    BY <1>7 DEF CatchupBatchEnd, CatchupFrame, StartFails, TypeOK, PositionType
  <2>3. FlagType'
    BY <1>7 DEF CatchupBatchEnd, CatchupFrame, StartFails, TypeOK, FlagType
  <2>4. Counts' /\ (received = acked + failed /\ redelivered <= received)'
    BY <1>7 DEF CatchupBatchEnd, CatchupFrame, StartFails, TypeOK, Counts
  <2>. QED
    BY <2>1, <2>2, <2>3, <2>4 DEF TypeOK
<1>8. CASE CatchupQuery
  <2>1. ConsumerType'
    BY <1>8 DEF CatchupQuery, CatchupFrame, TypeOK, ConsumerType
  <2>2. PositionType'
    <3>1. lastStreamSeq' \in 0 .. MaxSeq
      <4>1. AckFloor \in 0 .. MaxSeq /\ lastStreamSeq \in 0 .. MaxSeq
        BY AckFloorBounded DEF TypeOK, ConsumerType, PositionType
      <4>2. Max({lastStreamSeq, AckFloor}) \in {lastStreamSeq, AckFloor}
        BY <4>1, MaxOfNats
      <4>. QED
        BY <1>8, <4>1, <4>2 DEF CatchupQuery
    <3>. QED
      BY <1>8, <3>1 DEF CatchupQuery, CatchupFrame, TypeOK, PositionType
  <2>3. FlagType'
    BY <1>8 DEF CatchupQuery, CatchupFrame, TypeOK, FlagType
  <2>4. Counts' /\ (received = acked + failed /\ redelivered <= received)'
    BY <1>8 DEF CatchupQuery, CatchupFrame, TypeOK, Counts
  <2>. QED
    BY <2>1, <2>2, <2>3, <2>4 DEF TypeOK
<1>9. CASE GoLive
  <2>1. ConsumerType'
    BY <1>9 DEF GoLive, StartFails, TypeOK, ConsumerType
  <2>2. PositionType'
    BY <1>9 DEF GoLive, StartFails, TypeOK, PositionType
  <2>3. FlagType'
    BY <1>9 DEF GoLive, StartFails, TypeOK, FlagType
  <2>4. Counts' /\ (received = acked + failed /\ redelivered <= received)'
    BY <1>9 DEF GoLive, StartFails, TypeOK, Counts
  <2>. QED
    BY <2>1, <2>2, <2>3, <2>4 DEF TypeOK
<1>10. CASE WorkerCheck
  <2>1. ConsumerType'
    BY <1>10 DEF WorkerCheck, WorkerFrame, TypeOK, ConsumerType
  <2>2. PositionType'
    BY <1>10 DEF WorkerCheck, WorkerFrame, TypeOK, PositionType
  <2>3. FlagType'
    BY <1>10 DEF WorkerCheck, WorkerFrame, TypeOK, FlagType
  <2>4. Counts' /\ (received = acked + failed /\ redelivered <= received)'
    BY <1>10 DEF WorkerCheck, WorkerFrame, TypeOK, Counts
  <2>. QED
    BY <2>1, <2>2, <2>3, <2>4 DEF TypeOK
<1>11. CASE WorkerFetch
  <2>. DEFINE Got(list) == wmsg' = list[1] /\ Deliver(list) /\ wpc' = "enter" /\ deliveries < MaxDeliveries
  <2>0. /\ \/ UNCHANGED <<wmsg, consumer, deliveries>> /\ wpc' = "check"
           \/ \E list \in Fetches(1) : Got(list)
        /\ UNCHANGED <<restarts, lpc, catchupTo, lastStreamSeq, lastWall, batch, pendingMsg, loopMsg,
                       evalTime, everApplied>>
    BY <1>11 DEF WorkerFetch, WorkerFrame
  <2>1. ConsumerType'
    <3>1. CASE UNCHANGED <<consumer, deliveries>>
      BY <2>0, <3>1 DEF TypeOK, ConsumerType
    <3>2. ASSUME NEW list \in Fetches(1), Got(list) PROVE ConsumerType'
      <4>1. /\ delivered' \in 0 .. MaxSeq /\ unacked' \subseteq Seqs /\ expired' \subseteq unacked'
            /\ deliveries' \in 0 .. MaxDeliveries
        BY <3>2, <2>0, Delivery DEF TypeOK, ConsumerType, Seqs
      <4>. QED
        BY <4>1, <3>2, <2>0 DEF Deliver, TypeOK, ConsumerType
    <3>. QED
      BY <2>0, <3>1, <3>2
  <2>2. PositionType'
    <3>1. wmsg' \in Msgs \cup {NoMsg}
      BY <2>0, FetchedList DEF TypeOK, PositionType
    <3>. QED
      BY <2>0, <3>1 DEF TypeOK, PositionType
  <2>3. FlagType'
    BY <1>11 DEF WorkerFetch, WorkerFrame, TypeOK, FlagType
  <2>4. Counts' /\ (received = acked + failed /\ redelivered <= received)'
    BY <1>11 DEF WorkerFetch, WorkerFrame, TypeOK, Counts
  <2>. QED
    BY <2>1, <2>2, <2>3, <2>4 DEF TypeOK
<1>12. CASE HandoffEnter
  <2>1. ConsumerType'
    BY <1>12 DEF HandoffEnter, WorkerFrame, TypeOK, ConsumerType
  <2>2. PositionType'
    BY <1>12 DEF HandoffEnter, WorkerFrame, TypeOK, PositionType
  <2>3. FlagType'
    BY <1>12 DEF HandoffEnter, WorkerFrame, TypeOK, FlagType
  <2>4. Counts' /\ (received = acked + failed /\ redelivered <= received)'
    BY <1>12 DEF HandoffEnter, WorkerFrame, TypeOK, Counts
  <2>. QED
    BY <2>1, <2>2, <2>3, <2>4 DEF TypeOK
<1>13. CASE HandoffWake
  <2>1. ConsumerType'
    BY <1>13 DEF HandoffWake, WorkerFrame, TypeOK, ConsumerType
  <2>2. PositionType'
    BY <1>13 DEF HandoffWake, WorkerFrame, TypeOK, PositionType
  <2>3. FlagType'
    BY <1>13 DEF HandoffWake, WorkerFrame, TypeOK, FlagType
  <2>4. Counts' /\ (received = acked + failed /\ redelivered <= received)'
    BY <1>13 DEF HandoffWake, WorkerFrame, TypeOK, Counts
  <2>. QED
    BY <2>1, <2>2, <2>3, <2>4 DEF TypeOK
<1>14. CASE OnAsync
  <2>1. ConsumerType'
    BY <1>14 DEF OnAsync, LoopFrame, TypeOK, ConsumerType
  <2>2. PositionType'
    BY <1>14 DEF OnAsync, LoopFrame, TypeOK, PositionType
  <2>3. FlagType'
    BY <1>14 DEF OnAsync, LoopFrame, TypeOK, FlagType
  <2>4. Counts' /\ (received = acked + failed /\ redelivered <= received)'
    BY <1>14 DEF OnAsync, LoopFrame, TypeOK, Counts
  <2>. QED
    BY <2>1, <2>2, <2>3, <2>4 DEF TypeOK
<1>15. CASE LiveProcess
  <2>. /\ received' \in Nat /\ acked' \in Nat /\ redelivered' \in Nat /\ failed' \in Nat
       /\ received' = acked' + failed' /\ redelivered' <= received'
       /\ lastStreamSeq' \in 0 .. delivered /\ lastWall' \in 0 .. MaxSeq
       /\ evalTime' \in 0 .. MaxSeq /\ everApplied' \subseteq Seqs
       /\ unacked' \subseteq unacked /\ expired' \subseteq unacked'
       /\ UNCHANGED <<lastSeq, delivered>>
    <3>1. loopMsg \in Msgs /\ loopMsg.seq <= delivered /\ (AckMsg(loopMsg) \/ FailMsg(loopMsg))
      BY <1>15 DEF LiveProcess, TypeOK, PositionType, Reach, Handoff
    <3>. QED
      BY <3>1, Processing
  <2>1. ConsumerType'
    BY <1>15 DEF LiveProcess, LoopFrame, TypeOK, ConsumerType
  <2>2. PositionType'
    <3>1. lastStreamSeq' \in 0 .. MaxSeq
      BY DEF TypeOK, ConsumerType
    <3>. QED
      BY <1>15, <3>1 DEF LiveProcess, LoopFrame, TypeOK, PositionType
  <2>3. FlagType'
    BY <1>15 DEF LiveProcess, LoopFrame, TypeOK, FlagType
  <2>4. Counts' /\ (received = acked + failed /\ redelivered <= received)'
    <3>1. freed' \in Nat /\ fetched' \in Nat
      BY <1>15 DEF LiveProcess, Counts
    <3>. QED
      BY <3>1 DEF Counts
  <2>. QED
    BY <2>1, <2>2, <2>3, <2>4 DEF TypeOK
<1>16. CASE LiveFinish
  <2>1. ConsumerType'
    BY <1>16 DEF LiveFinish, LoopFrame, TypeOK, ConsumerType
  <2>2. PositionType'
    BY <1>16 DEF LiveFinish, LoopFrame, TypeOK, PositionType
  <2>3. FlagType'
    BY <1>16 DEF LiveFinish, LoopFrame, TypeOK, FlagType
  <2>4. Counts' /\ (received = acked + failed /\ redelivered <= received)'
    BY <1>16 DEF LiveFinish, LoopFrame, TypeOK, Counts
  <2>. QED
    BY <2>1, <2>2, <2>3, <2>4 DEF TypeOK
<1>17. CASE ShutdownBegins
  <2>1. ConsumerType'
    BY <1>17 DEF ShutdownBegins, LoopFrame, TypeOK, ConsumerType
  <2>2. PositionType'
    BY <1>17 DEF ShutdownBegins, LoopFrame, TypeOK, PositionType
  <2>3. FlagType'
    BY <1>17 DEF ShutdownBegins, LoopFrame, TypeOK, FlagType
  <2>4. Counts' /\ (received = acked + failed /\ redelivered <= received)'
    BY <1>17 DEF ShutdownBegins, LoopFrame, TypeOK, Counts
  <2>. QED
    BY <2>1, <2>2, <2>3, <2>4 DEF TypeOK
<1>18. CASE CloseBegin
  <2>1. ConsumerType'
    BY <1>18 DEF CloseBegin, LoopFrame, TypeOK, ConsumerType
  <2>2. PositionType'
    BY <1>18 DEF CloseBegin, LoopFrame, TypeOK, PositionType
  <2>3. FlagType'
    BY <1>18 DEF CloseBegin, LoopFrame, TypeOK, FlagType
  <2>4. Counts' /\ (received = acked + failed /\ redelivered <= received)'
    BY <1>18 DEF CloseBegin, LoopFrame, TypeOK, Counts
  <2>. QED
    BY <2>1, <2>2, <2>3, <2>4 DEF TypeOK
<1>19. CASE CloseJoin
  <2>1. ConsumerType'
    BY <1>19 DEF CloseJoin, LoopFrame, TypeOK, ConsumerType
  <2>2. PositionType'
    BY <1>19 DEF CloseJoin, LoopFrame, TypeOK, PositionType
  <2>3. FlagType'
    BY <1>19 DEF CloseJoin, LoopFrame, TypeOK, FlagType
  <2>4. Counts' /\ (received = acked + failed /\ redelivered <= received)'
    BY <1>19 DEF CloseJoin, LoopFrame, TypeOK, Counts
  <2>. QED
    BY <2>1, <2>2, <2>3, <2>4 DEF TypeOK
<1>20. CASE CloseDestroy
  <2>1. ConsumerType'
    BY <1>20 DEF CloseDestroy, LoopFrame, TypeOK, ConsumerType
  <2>2. PositionType'
    BY <1>20 DEF CloseDestroy, LoopFrame, TypeOK, PositionType
  <2>3. FlagType'
    BY <1>20 DEF CloseDestroy, LoopFrame, TypeOK, FlagType
  <2>4. Counts' /\ (received = acked + failed /\ redelivered <= received)'
    BY <1>20 DEF CloseDestroy, LoopFrame, TypeOK, Counts
  <2>. QED
    BY <2>1, <2>2, <2>3, <2>4 DEF TypeOK
<1>21. CASE OnSignal
  <2>1. ConsumerType'
    BY <1>21 DEF OnSignal, TypeOK, ConsumerType
  <2>2. PositionType'
    BY <1>21 DEF OnSignal, TypeOK, PositionType
  <2>3. FlagType'
    BY <1>21 DEF OnSignal, TypeOK, FlagType
  <2>4. Counts' /\ (received = acked + failed /\ redelivered <= received)'
    BY <1>21 DEF OnSignal, TypeOK, Counts
  <2>. QED
    BY <2>1, <2>2, <2>3, <2>4 DEF TypeOK
<1>22. CASE Crash
  <2>1. ConsumerType'
    BY <1>22 DEF Crash, Reset, TypeOK, ConsumerType
  <2>2. PositionType'
    BY <1>22 DEF Crash, Reset, TypeOK, PositionType
  <2>3. FlagType'
    BY <1>22 DEF Crash, Reset, TypeOK, FlagType
  <2>4. Counts' /\ (received = acked + failed /\ redelivered <= received)'
    BY <1>22 DEF Crash, Reset, TypeOK, Counts
  <2>. QED
    BY <2>1, <2>2, <2>3, <2>4 DEF TypeOK
<1>23. CASE Restart
  <2>1. ConsumerType'
    BY <1>23 DEF Restart, Reset, TypeOK, ConsumerType
  <2>2. PositionType'
    BY <1>23 DEF Restart, Reset, TypeOK, PositionType
  <2>3. FlagType'
    BY <1>23 DEF Restart, Reset, TypeOK, FlagType
  <2>4. Counts' /\ (received = acked + failed /\ redelivered <= received)'
    BY <1>23 DEF Restart, Reset, TypeOK, Counts
  <2>. QED
    BY <2>1, <2>2, <2>3, <2>4 DEF TypeOK
<1>24. CASE UNCHANGED vars
  BY <1>24 DEF vars, TypeOK, ConsumerType, PositionType, FlagType, Counts
<1>. QED
  BY <1>1, <1>2, <1>3, <1>4, <1>5, <1>6, <1>7, <1>8, <1>9, <1>10, <1>11, <1>12, <1>13, <1>14, <1>15, <1>16, <1>17, <1>18, <1>19, <1>20, <1>21, <1>22, <1>23, <1>24
  DEF Next, CatchUpPhase, Worker, Loop, Stopped

\* What a step does to the consumer: nothing, a delivery, or a message that is processed.
LEMMA ConsumerMoves ==
    ASSUME TypeOK, Counts, Reach, Handoff, AckedWasApplied, [Next]_vars
    PROVE  \/ UNCHANGED <<delivered, unacked, everApplied>>
           \/ UNCHANGED everApplied /\ \E n \in Nat \ {0} : \E list \in Fetches(n) : Deliver(list)
           \/ \E m \in Msgs : m.seq <= delivered /\ (AckMsg(m) \/ FailMsg(m))
<1>. USE DEF consumer, counters, slot, catchup, worker, applied, objects, local
<1>1. CASE StreamPublish
  BY <1>1 DEF StreamPublish
<1>2. CASE AckWaitExpires
  BY <1>2 DEF AckWaitExpires
<1>3. CASE LoadHighwater
  BY <1>3 DEF LoadHighwater, CatchupFrame, StartFails
<1>4. CASE CatchupLoop
  BY <1>4 DEF CatchupLoop, CatchupFrame
<1>5. CASE CatchupFetch
  BY <1>5, ConfigAssumption DEF CatchupFetch, CatchupFrame, StartFails
<1>6. CASE CatchupProcess
  <2>1. Head(batch) \in Msgs /\ Head(batch).seq <= delivered
    BY <1>6 DEF CatchupProcess, TypeOK, PositionType, Reach
  <2>. QED
    BY <1>6, <2>1 DEF CatchupProcess
<1>7. CASE CatchupBatchEnd
  BY <1>7 DEF CatchupBatchEnd, CatchupFrame, StartFails
<1>8. CASE CatchupQuery
  BY <1>8 DEF CatchupQuery, CatchupFrame
<1>9. CASE GoLive
  BY <1>9 DEF GoLive, StartFails
<1>10. CASE WorkerCheck
  BY <1>10 DEF WorkerCheck, WorkerFrame
<1>11. CASE WorkerFetch
  BY <1>11 DEF WorkerFetch, WorkerFrame
<1>12. CASE HandoffEnter
  BY <1>12 DEF HandoffEnter, WorkerFrame
<1>13. CASE HandoffWake
  BY <1>13 DEF HandoffWake, WorkerFrame
<1>14. CASE OnAsync
  BY <1>14 DEF OnAsync, LoopFrame
<1>15. CASE LiveProcess
  <2>1. loopMsg \in Msgs /\ loopMsg.seq <= delivered
    BY <1>15 DEF LiveProcess, TypeOK, PositionType, Reach, Handoff
  <2>. QED
    BY <1>15, <2>1 DEF LiveProcess
<1>16. CASE LiveFinish
  BY <1>16 DEF LiveFinish, LoopFrame
<1>17. CASE ShutdownBegins
  BY <1>17 DEF ShutdownBegins, LoopFrame
<1>18. CASE CloseBegin
  BY <1>18 DEF CloseBegin, LoopFrame
<1>19. CASE CloseJoin
  BY <1>19 DEF CloseJoin, LoopFrame
<1>20. CASE CloseDestroy
  BY <1>20 DEF CloseDestroy, LoopFrame
<1>21. CASE OnSignal
  BY <1>21 DEF OnSignal
<1>22. CASE Crash
  BY <1>22 DEF Crash, Reset
<1>23. CASE Restart
  BY <1>23 DEF Restart, Reset
<1>24. CASE UNCHANGED vars
  BY <1>24 DEF vars
<1>. QED
  BY <1>1, <1>2, <1>3, <1>4, <1>5, <1>6, <1>7, <1>8, <1>9, <1>10, <1>11, <1>12, <1>13, <1>14, <1>15, <1>16, <1>17, <1>18, <1>19, <1>20, <1>21, <1>22, <1>23, <1>24
  DEF Next, CatchUpPhase, Worker, Loop, Stopped

\* The durable consumer only moves forward, owes only what it delivered, and forgets only
\* what was evaluated.
LEMMA ConsumerStep ==
    ASSUME TypeOK, Counts, Reach, Handoff, AckedWasApplied, [Next]_vars
    PROVE  /\ delivered' \in delivered .. MaxSeq
           /\ unacked' \subseteq 1 .. delivered'
           /\ AckedWasApplied'
<1>1. CASE UNCHANGED <<delivered, unacked, everApplied>>
  BY <1>1 DEF TypeOK, ConsumerType, Reach, AckedWasApplied
<1>2. CASE UNCHANGED everApplied /\ \E n \in Nat \ {0} : \E list \in Fetches(n) : Deliver(list)
  BY <1>2, Delivery
<1>3. CASE \E m \in Msgs : m.seq <= delivered /\ (AckMsg(m) \/ FailMsg(m))
  <2>1. UNCHANGED delivered /\ unacked' \subseteq unacked /\ AckedWasApplied'
    BY <1>3, Processing
  <2>. QED
    BY <2>1 DEF TypeOK, ConsumerType, Reach
<1>. QED
  BY <1>1, <1>2, <1>3, ConsumerMoves

\* What the process holds stays behind the consumer.
LEMMA ReachStep ==
    ASSUME TypeOK, Counts, Reach, Handoff, AckedWasApplied, [Next]_vars
    PROVE  Reach'
<1>. USE DEF consumer, counters, slot, catchup, worker, applied, objects, local
<1>. SUFFICES (/\ catchupTo <= lastSeq /\ lastStreamSeq <= delivered
               /\ wmsg.seq <= delivered /\ pendingMsg.seq <= delivered /\ loopMsg.seq <= delivered
               /\ \A i \in 1 .. Len(batch) : batch[i].seq <= delivered)'
  BY ConsumerStep DEF Reach
<1>. /\ catchupTo <= lastSeq /\ lastStreamSeq <= delivered
     /\ wmsg.seq <= delivered /\ pendingMsg.seq <= delivered /\ loopMsg.seq <= delivered
     /\ \A i \in 1 .. Len(batch) : batch[i].seq <= delivered
  BY DEF Reach
<1>. /\ delivered \in Nat /\ delivered' \in Nat /\ delivered <= delivered'
     /\ lastStreamSeq \in Nat /\ wmsg.seq \in Nat /\ pendingMsg.seq \in Nat /\ loopMsg.seq \in Nat
     /\ \A i \in 1 .. Len(batch) : batch[i].seq \in Nat
  <2>1. delivered \in Nat /\ delivered' \in Nat /\ delivered <= delivered'
    BY ConsumerStep DEF TypeOK, ConsumerType
  <2>2. \A m \in Msgs \cup {NoMsg} : m.seq \in Nat
    BY DEF Msgs, NoMsg, Seqs
  <2>3. /\ lastStreamSeq \in Nat /\ batch \in Seq(Msgs)
        /\ wmsg \in Msgs \cup {NoMsg} /\ pendingMsg \in Msgs \cup {NoMsg} /\ loopMsg \in Msgs \cup {NoMsg}
    BY DEF TypeOK, PositionType
  <2>. QED
    BY <2>1, <2>2, <2>3
<1>1. CASE StreamPublish
  BY <1>1 DEF StreamPublish, TypeOK, ConsumerType, PositionType
<1>2. CASE AckWaitExpires
  BY <1>2 DEF AckWaitExpires, Reach
<1>3. CASE LoadHighwater
  BY <1>3 DEF LoadHighwater, CatchupFrame, TypeOK, ConsumerType
<1>4. CASE CatchupLoop
  BY <1>4 DEF CatchupLoop, CatchupFrame, Reach
<1>5. CASE CatchupFetch
  <2>1. \A i \in 1 .. Len(batch') : batch'[i].seq <= delivered'
    <3>1. CASE UNCHANGED batch
      BY <3>1
    <3>2. ASSUME NEW n \in 1 .. Batch, NEW list \in Fetches(n), batch' = list, Deliver(list)
          PROVE  \A i \in 1 .. Len(batch') : batch'[i].seq <= delivered'
      <4>1. UNCHANGED everApplied
        BY <1>5 DEF CatchupFetch
      <4>. QED
        BY <3>2, <4>1, FetchedList, Delivery, ConfigAssumption
    <3>. QED
      BY <1>5, <3>1, <3>2 DEF CatchupFetch
  <2>2. UNCHANGED lastSeq
    BY <1>5 DEF CatchupFetch, Deliver
  <2>. QED
    BY <1>5, <2>1, <2>2 DEF CatchupFetch, CatchupFrame
<1>6. CASE CatchupProcess
  <2>1. Head(batch) \in Msgs /\ Head(batch).seq <= delivered /\ (AckMsg(Head(batch)) \/ FailMsg(Head(batch)))
    BY <1>6 DEF CatchupProcess, TypeOK, PositionType, Reach
  <2>2. lastStreamSeq' <= delivered' /\ UNCHANGED <<delivered, lastSeq>>
    BY <2>1, Processing DEF TypeOK, ConsumerType
  <2>3. \A i \in 1 .. Len(batch') : batch'[i].seq <= delivered
    BY <1>6 DEF CatchupProcess, TypeOK, PositionType, Reach
  <2>. QED
    BY <1>6, <2>2, <2>3 DEF CatchupProcess, CatchupFrame
<1>7. CASE CatchupBatchEnd
  BY <1>7 DEF CatchupBatchEnd, CatchupFrame, StartFails, Reach
<1>8. CASE CatchupQuery
  <2>1. lastStreamSeq' <= delivered
    <3>1. /\ AckFloor \in 0 .. MaxSeq /\ lastStreamSeq \in 0 .. MaxSeq
          /\ AckFloor <= delivered /\ lastStreamSeq <= delivered
      BY AckFloorBounded, StreamAssumption DEF TypeOK, ConsumerType, PositionType
    <3>2. Max({lastStreamSeq, AckFloor}) \in {lastStreamSeq, AckFloor}
      BY <3>1, MaxOfNats, StreamAssumption
    <3>. QED
      BY <1>8, <3>1, <3>2 DEF CatchupQuery
  <2>. QED
    BY <1>8, <2>1 DEF CatchupQuery, CatchupFrame
<1>9. CASE GoLive
  BY <1>9 DEF GoLive, StartFails, Reach
<1>10. CASE WorkerCheck
  BY <1>10 DEF WorkerCheck, WorkerFrame, Reach
<1>11. CASE WorkerFetch
  <2>1. wmsg'.seq <= delivered' /\ UNCHANGED lastSeq
    <3>1. CASE UNCHANGED <<wmsg, lastSeq>>
      BY <3>1
    <3>2. ASSUME NEW list \in Fetches(1), wmsg' = list[1], Deliver(list)
          PROVE  wmsg'.seq <= delivered' /\ UNCHANGED lastSeq
      <4>1. UNCHANGED everApplied
        BY <1>11 DEF WorkerFetch, WorkerFrame
      <4>. QED
        <5>1. \A i \in 1 .. 1 : list[i].seq <= delivered'
          BY <3>2, <4>1, Delivery
        <5>. QED
          BY <5>1, <3>2 DEF Deliver
    <3>. QED
      BY <1>11, <3>1, <3>2 DEF WorkerFetch
  <2>. QED
    BY <1>11, <2>1 DEF WorkerFetch, WorkerFrame
<1>12. CASE HandoffEnter
  BY <1>12 DEF HandoffEnter, WorkerFrame, NoMsg, TypeOK, ConsumerType
<1>13. CASE HandoffWake
  BY <1>13 DEF HandoffWake, WorkerFrame, NoMsg, TypeOK, ConsumerType
<1>14. CASE OnAsync
  BY <1>14 DEF OnAsync, LoopFrame, NoMsg, TypeOK, ConsumerType
<1>15. CASE LiveProcess
  <2>1. loopMsg \in Msgs /\ loopMsg.seq <= delivered /\ (AckMsg(loopMsg) \/ FailMsg(loopMsg))
    BY <1>15 DEF LiveProcess, TypeOK, PositionType, Reach, Handoff
  <2>2. lastStreamSeq' <= delivered' /\ UNCHANGED <<delivered, lastSeq>>
    BY <2>1, Processing DEF TypeOK, ConsumerType
  <2>. QED
    BY <1>15, <2>2 DEF LiveProcess, LoopFrame, NoMsg, TypeOK, ConsumerType
<1>16. CASE LiveFinish
  BY <1>16 DEF LiveFinish, LoopFrame, Reach
<1>17. CASE ShutdownBegins
  BY <1>17 DEF ShutdownBegins, LoopFrame, Reach
<1>18. CASE CloseBegin
  BY <1>18 DEF CloseBegin, LoopFrame, Reach
<1>19. CASE CloseJoin
  BY <1>19 DEF CloseJoin, LoopFrame, Reach
<1>20. CASE CloseDestroy
  BY <1>20 DEF CloseDestroy, LoopFrame, NoMsg, TypeOK, ConsumerType
<1>21. CASE OnSignal
  BY <1>21 DEF OnSignal, Reach
<1>22. CASE Crash
  BY <1>22 DEF Crash, Reset, NoMsg, TypeOK, ConsumerType
<1>23. CASE Restart
  BY <1>23 DEF Restart, Reset, NoMsg, TypeOK, ConsumerType
<1>24. CASE UNCHANGED vars
  BY <1>24 DEF vars, Reach
<1>. QED
  BY <1>1, <1>2, <1>3, <1>4, <1>5, <1>6, <1>7, <1>8, <1>9, <1>10, <1>11, <1>12, <1>13, <1>14, <1>15, <1>16, <1>17, <1>18, <1>19, <1>20, <1>21, <1>22, <1>23, <1>24
  DEF Next, CatchUpPhase, Worker, Loop, Stopped

\* The slot changes hands as the two threads expect.
LEMMA HandoffStep ==
    ASSUME TypeOK, Reach, Handoff, [Next]_vars
    PROVE  Handoff'
<1>. USE DEF consumer, counters, slot, catchup, worker, applied, objects, local, NoMsg,
         CatchupSteps
<1>1. CASE StreamPublish
  BY <1>1 DEF StreamPublish, Handoff, TypeOK, PositionType, FlagType
<1>2. CASE AckWaitExpires
  BY <1>2 DEF AckWaitExpires, Handoff, TypeOK, PositionType, FlagType
<1>3. CASE LoadHighwater
  BY <1>3 DEF LoadHighwater, CatchupFrame, StartFails, Handoff, TypeOK, PositionType, FlagType
<1>4. CASE CatchupLoop
  BY <1>4 DEF CatchupLoop, CatchupFrame, Handoff, TypeOK, PositionType, FlagType
<1>5. CASE CatchupFetch
  BY <1>5 DEF CatchupFetch, CatchupFrame, StartFails, Handoff, TypeOK, PositionType, FlagType
<1>6. CASE CatchupProcess
  BY <1>6 DEF CatchupProcess, CatchupFrame, Handoff, TypeOK, PositionType, FlagType
<1>7. CASE CatchupBatchEnd
  BY <1>7 DEF CatchupBatchEnd, CatchupFrame, StartFails, Handoff, TypeOK, PositionType, FlagType
<1>8. CASE CatchupQuery
  BY <1>8 DEF CatchupQuery, CatchupFrame, Handoff, TypeOK, PositionType, FlagType
<1>9. CASE GoLive
  BY <1>9 DEF GoLive, StartFails, Handoff, TypeOK, PositionType, FlagType
<1>10. CASE WorkerCheck
  BY <1>10 DEF WorkerCheck, WorkerFrame, Handoff, TypeOK, PositionType, FlagType
<1>11. CASE WorkerFetch
  <2>1. wpc' = "enter" => wmsg' # NoMsg
    <3>1. \A list \in Fetches(1) : list[1].seq # 0
      BY FetchedList DEF Seqs
    <3>. QED
      BY <1>11, <3>1 DEF WorkerFetch, NoMsg
  <2>. QED
    BY <1>11, <2>1 DEF WorkerFetch, WorkerFrame, Handoff
<1>12. CASE HandoffEnter
  BY <1>12 DEF HandoffEnter, WorkerFrame, Handoff, TypeOK, PositionType, FlagType
<1>13. CASE HandoffWake
  BY <1>13 DEF HandoffWake, WorkerFrame, Handoff, TypeOK, PositionType, FlagType
<1>14. CASE OnAsync
  BY <1>14 DEF OnAsync, LoopFrame, Handoff, TypeOK, PositionType, FlagType
<1>15. CASE LiveProcess
  BY <1>15 DEF LiveProcess, LoopFrame, Handoff, TypeOK, PositionType, FlagType
<1>16. CASE LiveFinish
  BY <1>16 DEF LiveFinish, LoopFrame, Handoff, TypeOK, PositionType, FlagType
<1>17. CASE ShutdownBegins
  BY <1>17 DEF ShutdownBegins, LoopFrame, Handoff, TypeOK, PositionType, FlagType
<1>18. CASE CloseBegin
  BY <1>18 DEF CloseBegin, LoopFrame, Handoff, TypeOK, PositionType, FlagType
<1>19. CASE CloseJoin
  BY <1>19 DEF CloseJoin, LoopFrame, Handoff, TypeOK, PositionType, FlagType
<1>20. CASE CloseDestroy
  BY <1>20 DEF CloseDestroy, LoopFrame, Handoff, TypeOK, PositionType, FlagType
<1>21. CASE OnSignal
  BY <1>21 DEF OnSignal, Handoff, TypeOK, PositionType, FlagType
<1>22. CASE Crash
  BY <1>22 DEF Crash, Reset, Handoff, TypeOK, PositionType, FlagType
<1>23. CASE Restart
  BY <1>23 DEF Restart, Reset, Handoff, TypeOK, PositionType, FlagType
<1>24. CASE UNCHANGED vars
  BY <1>24 DEF vars, Handoff, TypeOK, PositionType, FlagType
<1>. QED
  BY <1>1, <1>2, <1>3, <1>4, <1>5, <1>6, <1>7, <1>8, <1>9, <1>10, <1>11, <1>12, <1>13, <1>14, <1>15, <1>16, <1>17, <1>18, <1>19, <1>20, <1>21, <1>22, <1>23, <1>24
  DEF Next, CatchUpPhase, Worker, Loop, Stopped

\* 1 for a fact that holds, 0 for one that does not.
Held(b) == IF b THEN 1 ELSE 0

\* How many of the three places hold an object.
LEMMA ThreePlaces ==
    ASSUME NEW S \in SUBSET {"worker", "slot", "loop"}
    PROVE  Cardinality(S) = Held("worker" \in S) + Held("slot" \in S) + Held("loop" \in S)
<1>. DEFINE T == S \ {"worker"}
            U == T \ {"slot"}
            V == U \ {"loop"}
<1>0. IsFiniteSet(S)
  <2>1. IsFiniteSet({"worker"} \cup {"slot"})
    BY FS_Singleton, FS_AddElement
  <2>2. IsFiniteSet(({"worker"} \cup {"slot"}) \cup {"loop"})
    BY <2>1, FS_AddElement
  <2>3. S \in SUBSET (({"worker"} \cup {"slot"}) \cup {"loop"})
    OBVIOUS
  <2>. QED
    BY <2>2, <2>3, FS_Subset
<1>7. ASSUME NEW X, NEW x, IsFiniteSet(X)
      PROVE  IsFiniteSet(X \ {x}) /\ Cardinality(X \ {x}) = Cardinality(X) - Held(x \in X)
  BY <1>7, FS_RemoveElement, FS_CardinalityType DEF Held
<1>1. IsFiniteSet(T) /\ Cardinality(T) = Cardinality(S) - Held("worker" \in S)
  BY <1>0, <1>7
<1>2. IsFiniteSet(U) /\ Cardinality(U) = Cardinality(T) - Held("slot" \in T)
  BY <1>1, <1>7
<1>3. IsFiniteSet(V) /\ Cardinality(V) = Cardinality(U) - Held("loop" \in U)
  BY <1>2, <1>7
<1>4. Cardinality(V) = 0
  <2>1. V = {}
    OBVIOUS
  <2>. QED
    BY <2>1, FS_EmptySet
<1>5. ("slot" \in T <=> "slot" \in S) /\ ("loop" \in U <=> "loop" \in S)
  OBVIOUS
<1>6. Cardinality(S) \in Nat /\ Cardinality(T) \in Nat /\ Cardinality(U) \in Nat
  BY <1>0, <1>1, <1>2, FS_CardinalityType
<1>. QED
  BY <1>1, <1>2, <1>3, <1>4, <1>5, <1>6 DEF Held

\* No step loses an object or destroys one twice.
LEMMA OwnerStep ==
    ASSUME TypeOK, Counts, Reach, Handoff, AckedWasApplied, OneOwner, [Next]_vars
    PROVE  OneOwner'
<1>. USE DEF consumer, counters, slot, catchup, worker, applied, objects, local, CatchupSteps
<1>a. Cardinality(Owners) = Held(wpc = "enter") + Held(pendingMsg # NoMsg) + Held(loopMsg # NoMsg)
  <2>1. Owners \in SUBSET {"worker", "slot", "loop"}
    BY DEF Owners
  <2>2. /\ "worker" \in Owners <=> wpc = "enter"
        /\ "slot" \in Owners <=> pendingMsg # NoMsg
        /\ "loop" \in Owners <=> loopMsg # NoMsg
    BY DEF Owners
  <2>. QED
    BY <2>1, <2>2, ThreePlaces DEF Held
<1>b. Cardinality(Owners') = Held(wpc' = "enter") + Held(pendingMsg' # NoMsg) + Held(loopMsg' # NoMsg)
  <2>1. Owners' \in SUBSET {"worker", "slot", "loop"}
    BY DEF Owners
  <2>2. /\ "worker" \in Owners' <=> wpc' = "enter"
        /\ "slot" \in Owners' <=> pendingMsg' # NoMsg
        /\ "loop" \in Owners' <=> loopMsg' # NoMsg
    BY DEF Owners
  <2>. QED
    BY <2>1, <2>2, ThreePlaces DEF Held
<1>c. SUFFICES fetched' = freed' + Held(wpc' = "enter") + Held(pendingMsg' # NoMsg) + Held(loopMsg' # NoMsg)
  BY <1>b, HandoffStep, TypeStep DEF OneOwner, Counts, Held
<1>d. /\ fetched = freed + Held(wpc = "enter") + Held(pendingMsg # NoMsg) + Held(loopMsg # NoMsg)
      /\ fetched \in Nat /\ freed \in Nat
  BY <1>a DEF OneOwner, Counts, Held
<1>. USE DEF Held
<1>1. CASE StreamPublish
  BY <1>1, <1>d DEF StreamPublish
<1>2. CASE AckWaitExpires
  BY <1>2, <1>d DEF AckWaitExpires
<1>3. CASE LoadHighwater
  BY <1>3, <1>d DEF LoadHighwater, CatchupFrame, StartFails
<1>4. CASE CatchupLoop
  BY <1>4, <1>d DEF CatchupLoop, CatchupFrame
<1>5. CASE CatchupFetch
  BY <1>5, <1>d DEF CatchupFetch, CatchupFrame, StartFails
<1>6. CASE CatchupProcess
  BY <1>6, <1>d DEF CatchupProcess, CatchupFrame
<1>7. CASE CatchupBatchEnd
  BY <1>7, <1>d DEF CatchupBatchEnd, CatchupFrame, StartFails
<1>8. CASE CatchupQuery
  BY <1>8, <1>d DEF CatchupQuery, CatchupFrame
<1>9. CASE GoLive
  BY <1>9, <1>d DEF GoLive, StartFails, Handoff
<1>10. CASE WorkerCheck
  BY <1>10, <1>d DEF WorkerCheck, WorkerFrame
<1>11. CASE WorkerFetch
  BY <1>11, <1>d DEF WorkerFetch, WorkerFrame
<1>12. CASE HandoffEnter
  BY <1>12, <1>d DEF HandoffEnter, WorkerFrame, Handoff
<1>13. CASE HandoffWake
  BY <1>13, <1>d DEF HandoffWake, WorkerFrame, Handoff
<1>14. CASE OnAsync
  BY <1>14, <1>d DEF OnAsync, LoopFrame, Handoff, TypeOK, FlagType
<1>15. CASE LiveProcess
  BY <1>15, <1>d DEF LiveProcess, LoopFrame, Handoff
<1>16. CASE LiveFinish
  BY <1>16, <1>d DEF LiveFinish, LoopFrame
<1>17. CASE ShutdownBegins
  BY <1>17, <1>d DEF ShutdownBegins, LoopFrame
<1>18. CASE CloseBegin
  BY <1>18, <1>d DEF CloseBegin, LoopFrame
<1>19. CASE CloseJoin
  BY <1>19, <1>d DEF CloseJoin, LoopFrame
<1>20. CASE CloseDestroy
  BY <1>20, <1>d DEF CloseDestroy, LoopFrame
<1>21. CASE OnSignal
  BY <1>21, <1>d DEF OnSignal
<1>22. CASE Crash
  BY <1>22, <1>d DEF Crash, Reset
<1>23. CASE Restart
  BY <1>23, <1>d DEF Restart, Reset
<1>24. CASE UNCHANGED vars
  BY <1>24, <1>d DEF vars
<1>. QED
  BY <1>1, <1>2, <1>3, <1>4, <1>5, <1>6, <1>7, <1>8, <1>9, <1>10, <1>11, <1>12, <1>13, <1>14, <1>15, <1>16, <1>17, <1>18, <1>19, <1>20, <1>21, <1>22, <1>23, <1>24
  DEF Next, CatchUpPhase, Worker, Loop, Stopped

\* Catch-up gives the next message of a batch an event time that is not behind the last one,
\* nor ahead of both the last acknowledged message and this one.
LEMMA ReplayedTime ==
    ASSUME TypeOK, Reach, Replay, lpc = "batch", batch # <<>>,
           AckMsg(Head(batch)) \/ FailMsg(Head(batch))
    PROVE  /\ evalTime' >= evalTime
           /\ evalTime' <= lastWall' \/ evalTime' <= Head(batch).seq
           /\ AckMsg(Head(batch)) => evalTime' <= lastWall'
<1>. DEFINE m == Head(batch)
<1>1. batch \in Seq(Msgs) /\ lastWall \in Nat /\ evalTime \in Nat
  BY DEF TypeOK, PositionType
<1>2. m = batch[1] /\ 1 \in 1 .. Len(batch) /\ m \in Msgs
  BY <1>1
<1>3. m.seq \in Nat
  BY <1>2 DEF Msgs, Seqs
<1>4. evalTime <= lastWall \/ evalTime <= m.seq
  BY <1>2 DEF Replay
<1>5. EventTime(m) \in {lastWall, m.seq} /\ EventTime(m) >= lastWall /\ EventTime(m) >= m.seq
  BY <1>1, <1>3 DEF EventTime
<1>. HIDE DEF m
<1>6. CASE AckMsg(m)
  BY <1>1, <1>3, <1>4, <1>5, <1>6 DEF AckMsg
<1>7. CASE ~AckMsg(m) /\ FailMsg(m)
  <2>1. /\ evalTime' \in {evalTime, EventTime(m)}
        /\ UNCHANGED lastWall
    BY <1>7 DEF FailMsg, RejectMsg, RefuseMsg, AckFailsMsg, applied
  <2>. QED
    <3>1. evalTime' >= evalTime /\ (evalTime' <= lastWall' \/ evalTime' <= m.seq)
      BY <1>1, <1>3, <1>4, <1>5, <2>1
    <3>. QED
      BY <1>7, <3>1, Zenon DEF m
<1>. QED
  BY <1>6, <1>7 DEF m

\* Catch-up keeps the event time behind what is left to replay.
LEMMA ReplayStep ==
    ASSUME TypeOK, Counts, Reach, Handoff, AckedWasApplied, Replay, [Next]_vars
    PROVE  Replay'
<1>. USE DEF consumer, counters, slot, catchup, worker, applied, objects, local, CatchupSteps
<1>1. CASE StreamPublish
  BY <1>1 DEF StreamPublish, Replay
<1>2. CASE AckWaitExpires
  BY <1>2 DEF AckWaitExpires, Replay
<1>3. CASE LoadHighwater
  BY <1>3 DEF LoadHighwater, CatchupFrame, StartFails, Replay
<1>4. CASE CatchupLoop
  BY <1>4 DEF CatchupLoop, CatchupFrame, Replay
<1>5. CASE CatchupFetch
  <2>1. CASE UNCHANGED batch /\ lpc' \in {"query", "down"}
    BY <1>5, <2>1 DEF CatchupFetch, CatchupFrame, Replay
  <2>2. ASSUME NEW n \in 1 .. Batch, NEW list \in Fetches(n), batch' = list, lpc' = "batch"
        PROVE  Replay'
    <3>1. UNCHANGED <<evalTime, lastWall>> /\ evalTime <= lastWall
      BY <1>5 DEF CatchupFetch, Replay
    <3>2. \A i, j \in 1 .. Len(batch') : i < j => batch'[i].seq <= batch'[j].seq
      BY <2>2, FetchedList, ConfigAssumption
    <3>. QED
      BY <2>2, <3>1, <3>2 DEF Replay
  <2>. QED
    BY <1>5, <2>1, <2>2 DEF CatchupFetch, StartFails
<1>6. CASE CatchupProcess
  <2>1. /\ evalTime' <= lastWall' \/ evalTime' <= Head(batch).seq
        /\ AckMsg(Head(batch)) => evalTime' <= lastWall'
    BY <1>6, ReplayedTime DEF CatchupProcess
  <2>2. lpc = "batch" /\ UNCHANGED lpc /\ (batchOk' => AckMsg(Head(batch)))
    BY <1>6 DEF CatchupProcess
  <2>3. batch \in Seq(Msgs) /\ batch # <<>> /\ batch' = Tail(batch)
    BY <1>6 DEF CatchupProcess, TypeOK, PositionType
  <2>4. \A i \in 1 .. Len(batch') : /\ i + 1 \in 1 .. Len(batch) /\ batch'[i] = batch[i + 1]
                                    /\ Head(batch).seq <= batch'[i].seq
    BY <2>2, <2>3 DEF Replay
  <2>5. \A i \in 1 .. Len(batch) : batch[i].seq \in Nat
    <3>1. \A m \in Msgs : m.seq \in Nat
      BY DEF Msgs, Seqs
    <3>. QED
      BY <2>3, <3>1
  <2>6. Head(batch).seq \in Nat /\ evalTime' \in Nat /\ lastWall' \in Nat
    <3>1. Head(batch) = batch[1] /\ 1 \in 1 .. Len(batch)
      BY <2>3
    <3>2. evalTime' \in 0 .. MaxSeq /\ lastWall' \in 0 .. MaxSeq
      BY TypeStep DEF TypeOK, PositionType
    <3>. QED
      BY <2>5, <3>1, <3>2
  <2>7. \A i \in 1 .. Len(batch') : evalTime' <= lastWall' \/ evalTime' <= batch'[i].seq
    BY <2>1, <2>4, <2>5, <2>6
  <2>8. \A i, j \in 1 .. Len(batch') : i < j => batch'[i].seq <= batch'[j].seq
    <3>. TAKE i, j \in 1 .. Len(batch')
    <3>1. i < j => i + 1 < j + 1
      BY <2>3
    <3>. QED
      BY <2>2, <2>4, <3>1 DEF Replay
  <2>. QED
    BY <2>1, <2>2, <2>7, <2>8 DEF Replay
<1>7. CASE CatchupBatchEnd
  BY <1>7 DEF CatchupBatchEnd, CatchupFrame, StartFails, Replay
<1>8. CASE CatchupQuery
  BY <1>8 DEF CatchupQuery, CatchupFrame, Replay
<1>9. CASE GoLive
  BY <1>9 DEF GoLive, StartFails, Replay
<1>10. CASE WorkerCheck
  BY <1>10 DEF WorkerCheck, WorkerFrame, Replay
<1>11. CASE WorkerFetch
  BY <1>11 DEF WorkerFetch, WorkerFrame, Replay
<1>12. CASE HandoffEnter
  BY <1>12 DEF HandoffEnter, WorkerFrame, Replay
<1>13. CASE HandoffWake
  BY <1>13 DEF HandoffWake, WorkerFrame, Replay
<1>14. CASE OnAsync
  BY <1>14 DEF OnAsync, LoopFrame, Replay
<1>15. CASE LiveProcess
  BY <1>15 DEF LiveProcess, LoopFrame, Replay
<1>16. CASE LiveFinish
  BY <1>16 DEF LiveFinish, LoopFrame, Replay
<1>17. CASE ShutdownBegins
  BY <1>17 DEF ShutdownBegins, LoopFrame, Replay
<1>18. CASE CloseBegin
  BY <1>18 DEF CloseBegin, LoopFrame, Replay
<1>19. CASE CloseJoin
  BY <1>19 DEF CloseJoin, LoopFrame, Replay
<1>20. CASE CloseDestroy
  BY <1>20 DEF CloseDestroy, LoopFrame, Replay
<1>21. CASE OnSignal
  BY <1>21 DEF OnSignal, Replay
<1>22. CASE Crash
  BY <1>22 DEF Crash, Reset, Replay
<1>23. CASE Restart
  BY <1>23 DEF Restart, Reset, Replay
<1>24. CASE UNCHANGED vars
  BY <1>24 DEF vars, Replay
<1>. QED
  BY <1>1, <1>2, <1>3, <1>4, <1>5, <1>6, <1>7, <1>8, <1>9, <1>10, <1>11, <1>12, <1>13, <1>14, <1>15, <1>16, <1>17, <1>18, <1>19, <1>20, <1>21, <1>22, <1>23, <1>24
  DEF Next, CatchUpPhase, Worker, Loop, Stopped

\* Nothing below the high-water mark is passed over: catch-up ends at the mark, or when the
\* consumer has nothing left to deliver (js_stream_pending_zero).
LEMMA CoveredStep ==
    ASSUME TypeOK, Counts, Reach, Handoff, AckedWasApplied, Covered, [Next]_vars
    PROVE  Covered'
<1>. USE DEF consumer, counters, slot, catchup, worker, applied, objects, local, CatchupSteps, LiveSteps
<1>. /\ delivered \in Nat /\ delivered' \in Nat /\ delivered <= delivered'
     /\ Matching \subseteq Nat /\ catchupTo \in Nat
  BY ConsumerStep, StreamAssumption DEF TypeOK, ConsumerType, PositionType
<1>1. CASE StreamPublish
  BY <1>1 DEF StreamPublish, Covered
<1>2. CASE AckWaitExpires
  BY <1>2 DEF AckWaitExpires, Covered
<1>3. CASE LoadHighwater
  BY <1>3 DEF LoadHighwater, CatchupFrame, StartFails, Covered
<1>4. CASE CatchupLoop
  BY <1>4, StreamAssumption DEF CatchupLoop, Covered, Reach, TypeOK, ConsumerType, PositionType
<1>5. CASE CatchupFetch
  BY <1>5 DEF CatchupFetch, CatchupFrame, StartFails, Covered
<1>6. CASE CatchupProcess
  BY <1>6 DEF CatchupProcess, CatchupFrame, Covered
<1>7. CASE CatchupBatchEnd
  BY <1>7 DEF CatchupBatchEnd, CatchupFrame, StartFails, Covered
<1>8. CASE CatchupQuery
  <2>1. /\ lastStreamSeq \in Nat /\ catchupTo \in Nat /\ delivered \in Nat /\ lastSeq \in Nat
        /\ lastStreamSeq <= delivered /\ catchupTo <= lastSeq
        /\ UNCHANGED <<catchupTo, delivered>>
    BY <1>8 DEF CatchupQuery, Reach, TypeOK, ConsumerType, PositionType
  <2>2. CASE lastStreamSeq >= catchupTo
    BY <2>1, <2>2, StreamAssumption DEF Covered
  <2>3. CASE lpc' = "loop"
    BY <2>3 DEF Covered
  <2>4. CASE NumPending = 0
    <3>1. IsFiniteSet(New)
      <4>1. New \in SUBSET (1 .. MaxSeq)
        BY StreamAssumption DEF New
      <4>2. IsFiniteSet(1 .. MaxSeq)
        BY StreamAssumption, FS_Interval
      <4>. QED
        BY <4>1, <4>2, FS_Subset
    <3>2. New = {}
      BY <2>4, <3>1, FS_EmptySet DEF NumPending
    <3>. QED
      BY <2>1, <3>2, StreamAssumption DEF Covered, New
  <2>. QED
    BY <1>8, <2>2, <2>3, <2>4 DEF CatchupQuery
<1>9. CASE GoLive
  BY <1>9 DEF GoLive, StartFails, Covered
<1>10. CASE WorkerCheck
  BY <1>10 DEF WorkerCheck, WorkerFrame, Covered
<1>11. CASE WorkerFetch
  BY <1>11 DEF WorkerFetch, WorkerFrame, Covered
<1>12. CASE HandoffEnter
  BY <1>12 DEF HandoffEnter, WorkerFrame, Covered
<1>13. CASE HandoffWake
  BY <1>13 DEF HandoffWake, WorkerFrame, Covered
<1>14. CASE OnAsync
  BY <1>14 DEF OnAsync, LoopFrame, Covered
<1>15. CASE LiveProcess
  BY <1>15 DEF LiveProcess, LoopFrame, Covered
<1>16. CASE LiveFinish
  BY <1>16 DEF LiveFinish, LoopFrame, Covered
<1>17. CASE ShutdownBegins
  BY <1>17 DEF ShutdownBegins, LoopFrame, Covered
<1>18. CASE CloseBegin
  BY <1>18 DEF CloseBegin, LoopFrame, Covered
<1>19. CASE CloseJoin
  BY <1>19 DEF CloseJoin, LoopFrame, Covered
<1>20. CASE CloseDestroy
  BY <1>20 DEF CloseDestroy, LoopFrame, Covered
<1>21. CASE OnSignal
  BY <1>21 DEF OnSignal, Covered
<1>22. CASE Crash
  BY <1>22 DEF Crash, Reset, Covered
<1>23. CASE Restart
  <2>1. CatchUp => lpc' = "highwater"
    BY <1>23 DEF Restart
  <2>. QED
    BY <2>1 DEF Covered
<1>24. CASE UNCHANGED vars
  BY <1>24 DEF vars, Covered
<1>. QED
  BY <1>1, <1>2, <1>3, <1>4, <1>5, <1>6, <1>7, <1>8, <1>9, <1>10, <1>11, <1>12, <1>13, <1>14, <1>15, <1>16, <1>17, <1>18, <1>19, <1>20, <1>21, <1>22, <1>23, <1>24
  DEF Next, CatchUpPhase, Worker, Loop, Stopped

-----------------------------------------------------------------------------
(* The invariant, and the properties of the runs.                          *)

\* A starting process holds nothing, so its state satisfies Inv.
LEMMA InitInv == Init => Inv
<1>. SUFFICES ASSUME Init PROVE Inv
  OBVIOUS
<1>. USE DEF Init, Fresh, NoMsg
<1>1. ConsumerType
  BY BoundsAssumption, StreamAssumption DEF ConsumerType
<1>2. PositionType
  BY StreamAssumption DEF PositionType, LoopSteps, CatchupSteps, LiveSteps, WorkerSteps
<1>3. FlagType
  BY DEF FlagType
<1>4. TypeOK /\ Counts
  BY <1>1, <1>2, <1>3 DEF TypeOK, Counts
<1>5. Reach
  BY StreamAssumption DEF Reach
<1>6. Handoff /\ Replay
  BY DEF Handoff, Replay, CatchupSteps
<1>7. AckedWasApplied
  BY DEF AckedWasApplied
<1>8. OneOwner
  <2>1. Owners = {}
    BY DEF Owners
  <2>. QED
    BY <2>1, FS_EmptySet DEF OneOwner
<1>9. Covered
  BY StreamAssumption DEF Covered, LiveSteps
<1>. QED
  BY <1>4, <1>5, <1>6, <1>7, <1>8, <1>9 DEF Inv

\* One step of a thread, the stream or the environment, from a state in which Inv holds,
\* leads to another.
LEMMA StepInv == Inv /\ [Next]_vars => Inv'
  BY TypeStep, ConsumerStep, ReachStep, HandoffStep, OwnerStep, ReplayStep, CoveredStep DEF Inv

\* Inv holds in every reachable state.
THEOREM Invariance == Spec => []Inv
  BY InitInv, StepInv, PTL DEF Spec

\* Type correctness; js_stream_process_msg counts every message once.
THEOREM TypeCorrect == Spec => []TypeOK
  BY Invariance, PTL DEF Inv

\* Whatever crashes, is lost or is delivered twice, the consumer forgets a message only when
\* some process has evaluated it (js_stream_process_msg acknowledges last).
THEOREM AcksAfterEvaluation == Spec => []AckedWasApplied
  BY Invariance, PTL DEF Inv

\* A fetched natsMsg has one owner until it is destroyed, once, by the worker, the callback
\* or close (js_stream_handoff_msg, on_js_async, js_stream_close).
THEOREM MessagesHaveOneOwner == Spec => []OneOwner
  BY Invariance, PTL DEF Inv

\* When the listener opens, catch-up has skipped no message up to the high-water mark
\* (js_stream_catch_up).
THEOREM CatchUpSkipsNothing == Spec => []NothingSkipped
<1>1. Inv => NothingSkipped
  <2>. SUFFICES ASSUME Inv, CatchUp, lpc \in {"live"} \cup LiveSteps, NEW s \in Matching, s <= catchupTo
                PROVE  s <= delivered /\ (s \in everApplied \/ s \in unacked)
    BY DEF NothingSkipped
  <2>1. s <= delivered
    BY DEF Inv, Covered
  <2>2. s \in 1 .. delivered
    BY <2>1, StreamAssumption DEF Inv, TypeOK, ConsumerType
  <2>. QED
    BY <2>1, <2>2 DEF Inv, AckedWasApplied
<1>. QED
  BY <1>1, Invariance, PTL

\* During the catch-up of one stream the event times it gives to the handler never run backwards,
\* although messages are redelivered late (event_time_from_msg).
THEOREM StreamTime == Spec => StreamTimeMonotone
<1>1. Inv /\ [Next]_vars => [(lpc \in CatchupSteps /\ lpc' # "down") => evalTime' >= evalTime]_vars
  <2>. SUFFICES ASSUME Inv, Next, lpc \in CatchupSteps, lpc' # "down"
                PROVE  evalTime' >= evalTime
    OBVIOUS
  <2>1. CASE CatchupProcess
    BY <2>1, ReplayedTime DEF CatchupProcess, Inv
  <2>2. CASE UNCHANGED evalTime
    BY <2>2 DEF Inv, TypeOK, PositionType
  <2>3. wpc = "none"
    BY DEF Inv, Handoff
  <2>4. Next => CatchupProcess \/ UNCHANGED evalTime
    BY <2>3
    DEF Next, CatchUpPhase, Worker, Loop, Stopped, StreamPublish, AckWaitExpires, LoadHighwater,
        CatchupLoop, CatchupFetch, CatchupBatchEnd, CatchupQuery, GoLive, WorkerCheck, WorkerFetch,
        HandoffEnter, HandoffWake, OnAsync, LiveProcess, LiveFinish, ShutdownBegins, CloseBegin,
        CloseJoin, CloseDestroy, OnSignal, Crash, Restart, CatchupSteps, local, applied, vars
  <2>. QED
    BY <2>1, <2>2, <2>4
<1>. QED
  BY <1>1, Invariance, PTL DEF Spec, StreamTimeMonotone
=============================================================================
