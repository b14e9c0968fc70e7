----------------------------- MODULE ImportQueue -----------------------------
(***************************************************************************)
(* What the importer (module Importer) promises to the two sides of it: a  *)
(* bounded first-in first-out queue that may refuse a message on the way   *)
(* in, may lose the oldest one to an allocation failure on the way out,    *)
(* hands one message at a time to the handler, and is emptied by close     *)
(* after which nothing is accepted or handed out any more.                 *)
(***************************************************************************)
EXTENDS Integers, Sequences

CONSTANTS Capacity,   \* messages the queue may hold
          LastMsg     \* messages are numbered 1 .. LastMsg in arrival order

VARIABLES q,          \* accepted messages, oldest first
          out,        \* the message the handler is working on, 0 when none
          newest,     \* the latest message that arrived
          shut        \* close has emptied the queue

qvars == <<q, out, newest, shut>>

Init == q = <<>> /\ out = 0 /\ newest = 0 /\ shut = FALSE

\* A message arrives; whether it is accepted is decided later.
Arrive == newest < LastMsg /\ newest' = newest + 1 /\ UNCHANGED <<q, out, shut>>

\* Only the latest arrival can be accepted, at the tail, and only once.
Accept ==
    /\ ~shut /\ newest > 0 /\ Len(q) < Capacity
    /\ \A i \in 1 .. Len(q) : q[i] < newest
    /\ out < newest
    /\ q' = Append(q, newest)
    /\ UNCHANGED <<out, newest, shut>>

\* The oldest message goes to the handler, which must be free.
HandOut ==
    /\ ~shut /\ q # <<>> /\ out = 0
    /\ out' = Head(q) /\ q' = Tail(q)
    /\ UNCHANGED <<newest, shut>>

Finish == out # 0 /\ out' = 0 /\ UNCHANGED <<q, newest, shut>>

\* The oldest message is given up.
Lose == ~shut /\ q # <<>> /\ q' = Tail(q) /\ UNCHANGED <<out, newest, shut>>

Shut == ~shut /\ out = 0 /\ shut' = TRUE /\ q' = <<>> /\ UNCHANGED <<out, newest>>

Next == Arrive \/ Accept \/ HandOut \/ Finish \/ Lose \/ Shut

Spec == Init /\ [][Next]_qvars
=============================================================================
