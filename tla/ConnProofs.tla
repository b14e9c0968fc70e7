----------------------------- MODULE ConnProofs -----------------------------
(***************************************************************************)
(* Machine-checked proofs about module Conn, for any limit on pending      *)
(* output and any number of items and handshake records.                   *)
(*                                                                         *)
(* The functions of conn.c are operators from a connection to the set of   *)
(* connections they may leave behind, so the proof follows the calls: Good *)
(* is what holds of a connection at any point within a callback, and every *)
(* operator preserves it; Settled is what holds between callbacks, and     *)
(* mb_conn_kick_write, with which they end, establishes it.                *)
(*                                                                         *)
(* The second half is about the parser, for all byte sequences.  What its  *)
(* recursive functions compute is proved by induction, which is a lemma    *)
(* here (Induction, from the least element of a set of numbers): Recursion *)
(* gives a recursive function its values and Stays an invariant of them;   *)
(* Descent, Ascent and TensExists do so for the loop of process_rx, which  *)
(* advances by whole operations, and for the digits of a number.           *)
(***************************************************************************)
EXTENDS Conn, SequenceTheorems, FiniteSetTheorems, WellFoundedInduction, TLAPS

\* What the stage of the TLS upgrade says about the buffers.
Upgrade(c) ==
    /\ c.tls = "off" => c.tlsPlain = <<>> /\ c.tlsOut = <<>>
    /\ c.tls = "info" => /\ c.tlsPlain = <<>> /\ c.tlsOut = <<>> /\ ~c.subscribed
                         /\ \A i \in 1 .. Len(c.out) : c.out[i] = 1
                         /\ c.writePending => c.out = <<>>
    /\ c.tls = "handshake" => c.tlsPlain = <<>> /\ c.out = <<>> /\ ~c.subscribed

\* The write in flight and its buffer.
Busy(c) == ~c.closing => (c.writePending <=> c.inFlight # <<>>)

\* The stream s is everything up to n, or some beginning of it.
Whole(s, n) == InOrder(s) /\ UpTo(s, n) /\ HasAll(s, n)
Sent(s, n) == InOrder(s) /\ UpTo(s, n)

\* Output is in order on the wire, with the write in flight, which may still complete after
\* uv_close, and, on an open connection, with all that waits.
Ordered(c, w) ==
    /\ ~c.closing => Whole(Stream(c, w), c.produced)
    /\ Sent(Items(w), c.produced)
    /\ c.writePending => Sent(Items(w) \o Items(c.inFlight), c.produced)

Veiled(c, w) == c.tls # "off" => Hidden(w) /\ Hidden(c.inFlight) /\ Hidden(c.tlsOut)

\* The most that TLS adds to n items, and that it has added no more.
Over(n) == RecordOverhead * n
Framed(c) == ~c.closing => /\ c.outFraming <= Over(Len(c.tlsOut))
                           /\ c.flightFraming <= Over(Len(c.inFlight))

Good(c, w) == /\ c \in ConnType /\ w \in Seq(StreamItem)
              /\ Upgrade(c) /\ Busy(c) /\ Framed(c) /\ Ordered(c, w) /\ Veiled(c, w)

\* Operations are executed on a connection without TLS or after the handshake.
Live(c) == c.tls \in {"off", "ready"}

\* Between callbacks.
Settled(c) ==
    ~c.closing =>
        /\ Pending(c) <= MaxConnPending + c.flightFraming
        /\ ~c.writePending =>
            /\ c.tlsOut = <<>>
            /\ c.tls \in {"off", "info"} => c.out = <<>>
            /\ c.tls = "ready" /\ ~c.wants => c.out = <<>> /\ c.tlsPlain = <<>>

Inv == Good(conn, wire) /\ Settled(conn) /\ serverClosing \in BOOLEAN

-----------------------------------------------------------------------------
(* Streams.                                                                *)

\* The beginning of a stream in order is in order.
LEMMA SentPrefix ==
    ASSUME NEW s \in Seq(Nat), NEW r \in Seq(Nat), NEW n \in Nat, Sent(s \o r, n)
    PROVE  Sent(s, n)
<1>1. /\ s \o r \in Seq(Nat) /\ Len(s \o r) = Len(s) + Len(r) /\ Len(s) \in Nat /\ Len(r) \in Nat
      /\ \A i \in 1 .. Len(s) : (s \o r)[i] = s[i]
  OBVIOUS
<1>2. UpTo(s, n)
  BY <1>1 DEF Sent, UpTo
<1>3. InOrder(s)
  <2>. SUFFICES ASSUME NEW i \in 1 .. Len(s)
                PROVE  /\ \A m \in 1 .. s[i] - 1 : \E j \in 1 .. i - 1 : s[j] = m
                       /\ s[i] # 0 => \A j \in 1 .. i - 1 : s[j] < s[i]
    BY DEF InOrder
  <2>1. i \in 1 .. Len(s \o r) /\ \A j \in 1 .. i - 1 : j \in 1 .. Len(s)
    BY <1>1
  <2>2. /\ \A m \in 1 .. (s \o r)[i] - 1 : \E j \in 1 .. i - 1 : (s \o r)[j] = m
        /\ (s \o r)[i] # 0 => \A j \in 1 .. i - 1 : (s \o r)[j] < (s \o r)[i]
    BY <2>1 DEF Sent, InOrder
  <2>. QED
    BY <1>1, <2>1, <2>2
<1>. QED
  BY <1>2, <1>3 DEF Sent

\* What was appended since does not matter to what was sent.
LEMMA SentGrows ==
    ASSUME NEW s \in Seq(Nat), NEW n \in Nat, Sent(s, n)
    PROVE  Sent(s, n + 1)
<1>1. UpTo(s, n + 1)
  BY DEF Sent, UpTo
<1>. QED
  BY <1>1 DEF Sent

\* The next item extends a whole stream.
LEMMA WholeAppend ==
    ASSUME NEW s \in Seq(Nat), NEW n \in Nat, Whole(s, n)
    PROVE  Whole(Append(s, n + 1), n + 1)
<1>. DEFINE z == Append(s, n + 1)
<1>1. /\ z \in Seq(Nat) /\ Len(z) = Len(s) + 1 /\ Len(s) \in Nat /\ z[Len(s) + 1] = n + 1
      /\ \A i \in 1 .. Len(s) : z[i] = s[i] /\ s[i] \in 0 .. n
  BY DEF Whole, UpTo
<1>. HIDE DEF z
<1>2. \A m \in 1 .. n : \E i \in 1 .. Len(s) : z[i] = m
  BY <1>1 DEF Whole, HasAll
<1>3. UpTo(z, n + 1)
  <2>. SUFFICES ASSUME NEW i \in 1 .. Len(s) + 1 PROVE z[i] \in 0 .. n + 1
    BY <1>1 DEF UpTo
  <2>1. i \in 1 .. Len(s) \/ i = Len(s) + 1
    BY <1>1
  <2>. QED
    BY <1>1, <2>1, SMTT(30)
<1>4. HasAll(z, n + 1)
  <2>. SUFFICES ASSUME NEW m \in 1 .. n + 1 PROVE \E i \in 1 .. Len(s) + 1 : z[i] = m
    BY <1>1 DEF HasAll
  <2>1. CASE m = n + 1
    <3>1. Len(s) + 1 \in 1 .. Len(s) + 1
      BY <1>1
    <3>. QED
      BY <1>1, <2>1, <3>1
  <2>2. CASE m \in 1 .. n
    <3>1. PICK i \in 1 .. Len(s) : z[i] = m
      BY <1>2, <2>2
    <3>2. i \in 1 .. Len(s) + 1
      BY <1>1
    <3>. QED
      BY <3>1, <3>2
  <2>. QED
    BY <2>1, <2>2
<1>5. InOrder(z)
  <2>. SUFFICES ASSUME NEW i \in 1 .. Len(s) + 1
                PROVE  /\ \A m \in 1 .. z[i] - 1 : \E j \in 1 .. i - 1 : z[j] = m
                       /\ z[i] # 0 => \A j \in 1 .. i - 1 : z[j] < z[i]
    BY <1>1 DEF InOrder
  <2>1. CASE i \in 1 .. Len(s)
    <3>1. /\ \A m \in 1 .. s[i] - 1 : \E j \in 1 .. i - 1 : s[j] = m
          /\ s[i] # 0 => \A j \in 1 .. i - 1 : s[j] < s[i]
      BY <2>1 DEF Whole, InOrder
    <3>2. \A j \in 1 .. i - 1 : j \in 1 .. Len(s)
      BY <1>1, <2>1
    <3>. QED
      BY <1>1, <2>1, <3>1, <3>2
  <2>2. CASE i = Len(s) + 1
    <3>1. i - 1 = Len(s) /\ z[i] - 1 = n
      BY <1>1, <2>2
    <3>2. \A j \in 1 .. Len(s) : z[j] < n + 1
      <4>. SUFFICES ASSUME NEW j \in 1 .. Len(s) PROVE z[j] < n + 1
        OBVIOUS
      <4>1. z[j] \in 0 .. n
        BY <1>1
      <4>. QED
        BY <4>1
    <3>. QED
      BY <1>1, <1>2, <2>2, <3>1, <3>2
  <2>. QED
    BY <1>1, <2>1, <2>2
<1>. QED
  BY <1>3, <1>4, <1>5 DEF Whole, z

\* So does a handshake record.
LEMMA WholeHandshake ==
    ASSUME NEW s \in Seq(Nat), NEW n \in Nat, Whole(s, n)
    PROVE  Whole(Append(s, 0), n)
<1>. DEFINE z == Append(s, 0)
<1>1. /\ z \in Seq(Nat) /\ Len(z) = Len(s) + 1 /\ Len(s) \in Nat /\ z[Len(s) + 1] = 0
      /\ \A i \in 1 .. Len(s) : z[i] = s[i] /\ s[i] \in 0 .. n
  BY DEF Whole, UpTo
<1>. HIDE DEF z
<1>2. UpTo(z, n)
  <2>. SUFFICES ASSUME NEW i \in 1 .. Len(s) + 1 PROVE z[i] \in 0 .. n
    BY <1>1 DEF UpTo
  <2>1. i \in 1 .. Len(s) \/ i = Len(s) + 1
    BY <1>1
  <2>. QED
    BY <1>1, <2>1, SMTT(30)
<1>3. HasAll(z, n)
  <2>. SUFFICES ASSUME NEW m \in 1 .. n PROVE \E i \in 1 .. Len(s) + 1 : z[i] = m
    BY <1>1 DEF HasAll
  <2>1. PICK i \in 1 .. Len(s) : s[i] = m
    BY DEF Whole, HasAll
  <2>2. i \in 1 .. Len(s) + 1
    BY <1>1
  <2>. QED
    BY <1>1, <2>1, <2>2
<1>4. InOrder(z)
  <2>. SUFFICES ASSUME NEW i \in 1 .. Len(s) + 1
                PROVE  /\ \A m \in 1 .. z[i] - 1 : \E j \in 1 .. i - 1 : z[j] = m
                       /\ z[i] # 0 => \A j \in 1 .. i - 1 : z[j] < z[i]
    BY <1>1 DEF InOrder
  <2>1. CASE i \in 1 .. Len(s)
    <3>1. /\ \A m \in 1 .. s[i] - 1 : \E j \in 1 .. i - 1 : s[j] = m
          /\ s[i] # 0 => \A j \in 1 .. i - 1 : s[j] < s[i]
      BY <2>1 DEF Whole, InOrder
    <3>2. \A j \in 1 .. i - 1 : j \in 1 .. Len(s)
      BY <1>1, <2>1
    <3>. QED
      BY <1>1, <2>1, <3>1, <3>2
  <2>2. CASE i = Len(s) + 1
    BY <1>1, <2>2
  <2>. QED
    BY <1>1, <2>1, <2>2
<1>. QED
  BY <1>2, <1>3, <1>4 DEF Whole, z

-----------------------------------------------------------------------------
(* Items of entries.                                                       *)

\* The items of a buffer are numbers, one for each entry.
LEMMA ItemsSeq ==
    ASSUME NEW s \in Seq(StreamItem)
    PROVE  Items(s) \in Seq(Nat) /\ Len(Items(s)) = Len(s) /\ \A i \in 1 .. Len(s) : Items(s)[i] = s[i].item
<1>1. \A i \in 1 .. Len(s) : s[i] \in StreamItem
  OBVIOUS
<1>2. \A i \in 1 .. Len(s) : s[i].item \in Nat
  BY <1>1 DEF StreamItem
<1>. QED
  BY <1>2 DEF Items

\* A concatenation, element by element.
LEMMA Joined ==
    ASSUME NEW s \in Seq(Nat), NEW r \in Seq(Nat)
    PROVE  /\ s \o r \in Seq(Nat) /\ Len(s \o r) = Len(s) + Len(r) /\ Len(s) \in Nat /\ Len(r) \in Nat
           /\ \A i \in 1 .. Len(s) : (s \o r)[i] = s[i]
           /\ \A i \in Len(s) + 1 .. Len(s) + Len(r) : (s \o r)[i] = r[i - Len(s)]
  OBVIOUS

\* Items of a concatenation.
LEMMA ItemsConcat ==
    ASSUME NEW s \in Seq(StreamItem), NEW r \in Seq(StreamItem)
    PROVE  Items(s \o r) = Items(s) \o Items(r)
<1>1. s \o r \in Seq(StreamItem) /\ Len(s \o r) = Len(s) + Len(r)
  OBVIOUS
<1>2. /\ Items(s) \in Seq(Nat) /\ Len(Items(s)) = Len(s) /\ Items(r) \in Seq(Nat) /\ Len(Items(r)) = Len(r)
      /\ Items(s \o r) \in Seq(Nat) /\ Len(Items(s \o r)) = Len(s) + Len(r)
  BY <1>1, ItemsSeq
<1>3. \A i \in 1 .. Len(s) + Len(r) : Items(s \o r)[i] = (Items(s) \o Items(r))[i]
  <2>. SUFFICES ASSUME NEW i \in 1 .. Len(s) + Len(r) PROVE Items(s \o r)[i] = (Items(s) \o Items(r))[i]
    OBVIOUS
  <2>1. Items(s \o r)[i] = (s \o r)[i].item
    BY <1>1, ItemsSeq
  <2>2. CASE i \in 1 .. Len(s)
    BY <1>2, <2>1, <2>2, ItemsSeq
  <2>3. CASE i \in Len(s) + 1 .. Len(s) + Len(r)
    <3>1. i - Len(s) \in 1 .. Len(r) /\ (s \o r)[i] = r[i - Len(s)]
      BY <2>3
    <3>2. (Items(s) \o Items(r))[i] = Items(r)[i - Len(s)]
      <4>1. \A k \in Len(Items(s)) + 1 .. Len(Items(s)) + Len(Items(r)) :
                (Items(s) \o Items(r))[k] = Items(r)[k - Len(Items(s))]
        BY <1>2, Joined, Zenon
      <4>. QED
        BY <1>2, <2>3, <4>1
    <3>. QED
      BY <2>1, <3>1, <3>2, ItemsSeq
  <2>4. i \in 1 .. Len(s) \/ i \in Len(s) + 1 .. Len(s) + Len(r)
    BY LenProperties
  <2>. QED
    BY <2>2, <2>3, <2>4
<1>4. Items(s) \o Items(r) \in Seq(Nat) /\ Len(Items(s) \o Items(r)) = Len(s) + Len(r)
  BY <1>2, Joined
<1>. QED
  BY <1>2, <1>3, <1>4, SeqEqual

\* Putting items into entries and taking them out again.
LEMMA ItemsOfEntries ==
    ASSUME NEW s \in Seq(Nat)
    PROVE  /\ Clear(s) \in Seq(StreamItem) /\ Items(Clear(s)) = s /\ Len(Clear(s)) = Len(s)
           /\ Sealed(s) \in Seq(StreamItem) /\ Items(Sealed(s)) = s /\ Len(Sealed(s)) = Len(s)
           /\ Hidden(Sealed(s))
           /\ (\A i \in 1 .. Len(s) : s[i] = 1) => Hidden(Clear(s))
<1>1. Clear(s) \in Seq(StreamItem) /\ Len(Clear(s)) = Len(s) /\ \A i \in 1 .. Len(s) : Clear(s)[i].item = s[i]
  BY DEF Clear, StreamItem
<1>2. Sealed(s) \in Seq(StreamItem) /\ Len(Sealed(s)) = Len(s) /\ \A i \in 1 .. Len(s) : Sealed(s)[i].item = s[i]
  BY DEF Sealed, StreamItem
<1>3. Items(Clear(s)) = s
  <2>1. Items(Clear(s)) \in Seq(Nat) /\ Len(Items(Clear(s))) = Len(s) /\ \A i \in 1 .. Len(s) : Items(Clear(s))[i] = s[i]
    BY <1>1, ItemsSeq
  <2>. QED
    BY <2>1, SeqEqual
<1>4. Items(Sealed(s)) = s
  <2>1. Items(Sealed(s)) \in Seq(Nat) /\ Len(Items(Sealed(s))) = Len(s) /\ \A i \in 1 .. Len(s) : Items(Sealed(s))[i] = s[i]
    BY <1>2, ItemsSeq
  <2>. QED
    BY <2>1, SeqEqual
<1>5. Hidden(Sealed(s))
  <2>1. \A i \in 1 .. Len(s) : Sealed(s)[i].enc
    BY DEF Sealed
  <2>. QED
    BY <1>2, <2>1 DEF Hidden
<1>6. (\A i \in 1 .. Len(s) : s[i] = 1) => Hidden(Clear(s))
  BY <1>1 DEF Hidden
<1>. QED
  BY <1>1, <1>2, <1>3, <1>4, <1>5, <1>6

\* An empty buffer, and one more handshake record.
LEMMA ItemsEnds ==
    /\ Items(<<>>) = <<>> /\ Hidden(<<>>)
    /\ \A s \in Seq(StreamItem) : /\ Append(s, Handshake) \in Seq(StreamItem)
                                  /\ Items(Append(s, Handshake)) = Append(Items(s), 0)
                                  /\ Hidden(s) => Hidden(Append(s, Handshake))
<1>1. Items(<<>>) = <<>> /\ Hidden(<<>>)
  BY DEF Items, Hidden
<1>2. ASSUME NEW s \in Seq(StreamItem)
      PROVE  /\ Append(s, Handshake) \in Seq(StreamItem)
             /\ Items(Append(s, Handshake)) = Append(Items(s), 0)
             /\ Hidden(s) => Hidden(Append(s, Handshake))
  <2>. DEFINE z == Append(s, Handshake)
  <2>1. Handshake \in StreamItem /\ Handshake.item = 0
    BY DEF Handshake, StreamItem
  <2>2. z \in Seq(StreamItem) /\ Len(z) = Len(s) + 1 /\ z[Len(s) + 1] = Handshake /\ \A i \in 1 .. Len(s) : z[i] = s[i]
    BY <2>1
  <2>. HIDE DEF z
  <2>3. Items(z) \in Seq(Nat) /\ Len(Items(z)) = Len(s) + 1 /\ \A i \in 1 .. Len(s) + 1 : Items(z)[i] = z[i].item
    BY <2>2, ItemsSeq
  <2>4. Items(s) \in Seq(Nat) /\ Len(Items(s)) = Len(s) /\ \A i \in 1 .. Len(s) : Items(s)[i] = s[i].item
    BY ItemsSeq
  <2>5. /\ Append(Items(s), 0) \in Seq(Nat) /\ Len(Append(Items(s), 0)) = Len(s) + 1
        /\ Append(Items(s), 0)[Len(s) + 1] = 0 /\ \A i \in 1 .. Len(s) : Append(Items(s), 0)[i] = s[i].item
    BY <2>4
  <2>6. \A i \in 1 .. Len(s) + 1 : i \in 1 .. Len(s) \/ i = Len(s) + 1
    BY LenProperties
  <2>7. Items(z) = Append(Items(s), 0)
    <3>1. \A i \in 1 .. Len(s) + 1 : Items(z)[i] = Append(Items(s), 0)[i]
      BY <2>1, <2>2, <2>3, <2>5, <2>6
    <3>. QED
      BY <2>3, <2>5, <3>1, SeqEqual
  <2>8. Hidden(s) => Hidden(z)
    BY <2>1, <2>2, <2>6 DEF Hidden
  <2>. QED
    BY <2>2, <2>7, <2>8 DEF z
<1>. QED
  BY <1>1, <1>2

-----------------------------------------------------------------------------
(* The stream of a connection.                                             *)

\* Concatenation and Append, by names that the backends do not expand.
Join(s, r) == s \o r
Plus(s, x) == Append(s, x)

\* It is a sequence again,
LEMMA JoinSeq ==
    ASSUME NEW s \in Seq(Nat), NEW r \in Seq(Nat)
    PROVE  Join(s, r) \in Seq(Nat)
  BY Joined DEF Join

\* the empty sequence changes nothing,
LEMMA JoinEmpty ==
    ASSUME NEW s \in Seq(Nat)
    PROVE  Join(s, <<>>) = s /\ Join(<<>>, s) = s
<1>. DEFINE N == Nat
<1>1. s \in Seq(N)
  OBVIOUS
<1>. HIDE DEF N
<1>. QED
  BY <1>1, ConcatEmptySeq DEF Join

\* it is associative,
LEMMA JoinAssoc ==
    ASSUME NEW s \in Seq(Nat), NEW r \in Seq(Nat), NEW t \in Seq(Nat)
    PROVE  Join(Join(s, r), t) = Join(s, Join(r, t))
<1>. DEFINE N == Nat
<1>1. s \in Seq(N) /\ r \in Seq(N) /\ t \in Seq(N)
  OBVIOUS
<1>. HIDE DEF N
<1>. QED
  BY <1>1, ConcatAssociative, SMTT(30) DEF Join

\* and appending to its end is appending to it.
LEMMA JoinAppend ==
    ASSUME NEW s \in Seq(Nat), NEW r \in Seq(Nat), NEW x \in Nat
    PROVE  Join(s, Plus(r, x)) = Plus(Join(s, r), x)
<1>. DEFINE N == Nat
            u == <<x>>
            v == s \o r
<1>1. s \in Seq(N) /\ r \in Seq(N) /\ x \in N /\ u \in Seq(N)
  OBVIOUS
<1>2. v \in Seq(N)
  BY Joined
<1>. HIDE DEF N
<1>3. Append(r, x) = r \o u /\ Append(v, x) = v \o u
  BY <1>1, <1>2, AppendIsConcat
<1>. HIDE DEF u
<1>4. (s \o r) \o u = s \o (r \o u)
  BY <1>1, ConcatAssociative
<1>. QED
  BY <1>3, <1>4 DEF Join, Plus

\* The five parts of a stream and the whole.
Layers(a, b, d, e, f) == Join(Join(Join(Join(a, b), d), e), f)

\* The parts are sequences of numbers.
LEMMA StreamType ==
    ASSUME NEW c \in ConnType, NEW w \in Seq(StreamItem)
    PROVE  /\ c.inFlight \in Seq(StreamItem) /\ c.tlsOut \in Seq(StreamItem) /\ c.produced \in Nat
           /\ Items(w) \in Seq(Nat) /\ Items(c.inFlight) \in Seq(Nat) /\ Items(c.tlsOut) \in Seq(Nat)
           /\ c.tlsPlain \in Seq(Nat) /\ c.out \in Seq(Nat) /\ Stream(c, w) \in Seq(Nat)
           /\ Stream(c, w) = Layers(Items(w), Items(c.inFlight), Items(c.tlsOut), c.tlsPlain, c.out)
<1>1. /\ c.inFlight \in Seq(StreamItem) /\ c.tlsOut \in Seq(StreamItem) /\ c.produced \in Nat
      /\ c.tlsPlain \in Seq(Nat) /\ c.out \in Seq(Nat)
  BY DEF ConnType
<1>2. Items(w) \in Seq(Nat) /\ Items(c.inFlight) \in Seq(Nat) /\ Items(c.tlsOut) \in Seq(Nat)
  BY <1>1, ItemsSeq
<1>3. Stream(c, w) = Layers(Items(w), Items(c.inFlight), Items(c.tlsOut), c.tlsPlain, c.out)
  BY DEF Stream, Layers, Join
<1>4. Stream(c, w) \in Seq(Nat)
  BY <1>1, <1>2, <1>3, JoinSeq DEF Layers
<1>. QED
  BY <1>1, <1>2, <1>3, <1>4

\* The first two parts and the rest.
LEMMA PartsSplit ==
    ASSUME NEW a \in Seq(Nat), NEW b \in Seq(Nat), NEW d \in Seq(Nat), NEW e \in Seq(Nat),
           NEW f \in Seq(Nat)
    PROVE  Layers(a, b, d, e, f) = Join(Join(a, b), Join(d, Join(e, f)))
<1>1. /\ Join(a, b) \in Seq(Nat) /\ Join(Join(a, b), d) \in Seq(Nat)
      /\ Join(e, f) \in Seq(Nat) /\ Join(d, Join(e, f)) \in Seq(Nat)
  BY JoinSeq
<1>. QED
  BY <1>1, JoinAssoc DEF Layers

\* What moves from one part to the one before it leaves the whole as it is.
LEMMA PartsMove ==
    ASSUME NEW a \in Seq(Nat), NEW b \in Seq(Nat), NEW d \in Seq(Nat), NEW e \in Seq(Nat),
           NEW f \in Seq(Nat)
    PROVE  /\ Layers(a, <<>>, <<>>, <<>>, f) = Layers(a, f, <<>>, <<>>, <<>>)
           /\ Layers(a, <<>>, d, e, f) = Layers(a, d, <<>>, e, f)
           /\ Layers(Join(a, b), <<>>, d, e, f) = Layers(a, b, d, e, f)
<1>1. Join(a, b) \in Seq(Nat) /\ Join(a, f) \in Seq(Nat) /\ Join(a, d) \in Seq(Nat)
  BY JoinSeq
<1>2. \A s \in Seq(Nat) : Join(s, <<>>) = s
  BY JoinEmpty
<1>. QED
  BY <1>1, <1>2 DEF Layers

\* What is appended to the last part is appended to the whole.
LEMMA PartsAppend ==
    ASSUME NEW a \in Seq(Nat), NEW b \in Seq(Nat), NEW d \in Seq(Nat), NEW e \in Seq(Nat),
           NEW f \in Seq(Nat), NEW x \in Nat
    PROVE  Layers(a, b, d, e, Plus(f, x)) = Plus(Layers(a, b, d, e, f), x)
<1>1. Join(Join(Join(a, b), d), e) \in Seq(Nat)
  BY JoinSeq
<1>. QED
  BY <1>1, JoinAppend DEF Layers

\* So is what is appended to the third when nothing follows it.
LEMMA PartsRecord ==
    ASSUME NEW a \in Seq(Nat), NEW b \in Seq(Nat), NEW d \in Seq(Nat), NEW x \in Nat, NEW n, n = <<>>
    PROVE  Layers(a, b, Plus(d, x), n, n) = Plus(Layers(a, b, d, n, n), x)
<1>1. Join(a, b) \in Seq(Nat) /\ Join(Join(a, b), d) \in Seq(Nat)
  BY JoinSeq
<1>2. Join(Join(a, b), Plus(d, x)) = Plus(Join(Join(a, b), d), x)
  BY <1>1, JoinAppend
<1>3. \A s \in Seq(Nat) : Join(Join(s, n), n) = s
  BY JoinEmpty
<1>4. Plus(Join(Join(a, b), d), x) \in Seq(Nat)
  BY <1>1 DEF Plus
<1>. QED
  BY <1>1, <1>2, <1>3, <1>4 DEF Layers

\* What is on the wire and in flight begins the stream.
LEMMA FlightFirst ==
    ASSUME NEW c \in ConnType, NEW w \in Seq(StreamItem), NEW n \in Nat, Sent(Stream(c, w), n)
    PROVE  Sent(Items(w) \o Items(c.inFlight), n)
<1>. DEFINE a == Join(Items(w), Items(c.inFlight))
            r == Join(Items(c.tlsOut), Join(c.tlsPlain, c.out))
<1>1. a \in Seq(Nat) /\ r \in Seq(Nat) /\ Stream(c, w) = Join(a, r)
  <2>. DEFINE i == Items(w)
              j == Items(c.inFlight)
              k == Items(c.tlsOut)
              p == c.tlsPlain
              q == c.out
  <2>1. Stream(c, w) = Layers(i, j, k, p, q)
    BY StreamType
  <2>2. i \in Seq(Nat) /\ j \in Seq(Nat) /\ k \in Seq(Nat) /\ p \in Seq(Nat) /\ q \in Seq(Nat)
    BY StreamType
  <2>. HIDE DEF i, j, k, p, q
  <2>3. Layers(i, j, k, p, q) = Join(Join(i, j), Join(k, Join(p, q)))
    BY <2>2, PartsSplit
  <2>4. Join(i, j) \in Seq(Nat) /\ Join(k, Join(p, q)) \in Seq(Nat)
    BY <2>2, JoinSeq
  <2>. QED
    BY <2>1, <2>3, <2>4 DEF i, j, k, p, q
<1>. HIDE DEF a, r
<1>2. Sent(a, n)
  BY <1>1, SentPrefix DEF Join
<1>. QED
  BY <1>2 DEF a, Join

-----------------------------------------------------------------------------
(* The functions of conn.c.                                                *)

\* What TLS adds to several pieces, it adds to each.
LEMMA Overs ==
    /\ Over(0) = 0
    /\ \A n \in Nat : Over(n) \in Nat
    /\ \A m \in Nat, n \in Nat : Over(m + n) = Over(m) + Over(n)
<1>1. \A o \in Nat, m \in Nat, n \in Nat : o * n \in Nat /\ o * 0 = 0 /\ o * (m + n) = o * m + o * n
  BY SMT
<1>. QED
  BY <1>1, OverheadAssumption DEF Over

\* The numbers of a connection, and that an empty buffer has no framing.
LEMMA Numbers ==
    ASSUME NEW w, NEW c, Good(c, w)
    PROVE  /\ c.flightFraming \in Nat /\ c.outFraming \in Nat
           /\ Len(c.out) \in Nat /\ Len(c.inFlight) \in Nat /\ Len(c.tlsOut) \in Nat /\ Len(c.tlsPlain) \in Nat
           /\ ~c.closing /\ c.inFlight = <<>> => c.flightFraming = 0
           /\ ~c.closing /\ c.tlsOut = <<>> => c.outFraming = 0
<1>1. /\ c.flightFraming \in Nat /\ c.outFraming \in Nat
      /\ c.out \in Seq(Nat) /\ c.inFlight \in Seq(StreamItem) /\ c.tlsOut \in Seq(StreamItem) /\ c.tlsPlain \in Seq(Nat)
  BY DEF Good, ConnType
<1>2. Len(c.out) \in Nat /\ Len(c.inFlight) \in Nat /\ Len(c.tlsOut) \in Nat /\ Len(c.tlsPlain) \in Nat
  BY <1>1
<1>3. Len(<<>>) = 0
  OBVIOUS
<1>4. ASSUME ~c.closing, c.inFlight = <<>> PROVE c.flightFraming = 0
  <2>1. c.flightFraming <= 0
    BY <1>3, <1>4, Overs DEF Good, Framed
  <2>. QED
    BY <1>1, <2>1
<1>5. ASSUME ~c.closing, c.tlsOut = <<>> PROVE c.outFraming = 0
  <2>1. c.outFraming <= 0
    BY <1>3, <1>5, Overs DEF Good, Framed
  <2>. QED
    BY <1>1, <2>1
<1>. QED
  BY <1>1, <1>2, <1>4, <1>5

\* A connection whose buffers stay as they are.
LEMMA Unmoved ==
    ASSUME NEW w, NEW c, NEW d \in ConnType, Good(c, w),
           d.tls = c.tls, d.closing <=> c.closing, d.writePending <=> c.writePending,
           d.out = c.out, d.inFlight = c.inFlight, d.tlsPlain = c.tlsPlain, d.tlsOut = c.tlsOut,
           d.flightFraming = c.flightFraming, d.outFraming = c.outFraming,
           d.produced = c.produced, d.subscribed => c.subscribed \/ Live(c)
    PROVE  Good(d, w)
<1>1. Upgrade(d)
  BY DEF Good, Upgrade, Live
<1>2. Busy(d) /\ Framed(d)
  BY DEF Good, Busy, Framed
<1>3. Ordered(d, w)
  <2>1. Stream(d, w) = Stream(c, w)
    BY DEF Stream
  <2>. QED
    BY <2>1 DEF Good, Ordered
<1>4. Veiled(d, w)
  BY DEF Good, Veiled
<1>. QED
  BY <1>1, <1>2, <1>3, <1>4 DEF Good

\* mb_conn_begin_close.
LEMMA Closing ==
    ASSUME NEW w, NEW c, Good(c, w)
    PROVE  Good(ConnBeginClose(c), w) /\ ConnBeginClose(c).closing /\ ConnBeginClose(c).tls = c.tls
<1>. DEFINE d == ConnBeginClose(c)
<1>1. CASE c.closing
  BY <1>1 DEF ConnBeginClose
<1>2. CASE ~c.closing
  <2>1. c \in ConnType
    BY DEF Good
  <2>2. /\ d \in ConnType /\ d.closing /\ ~d.subscribed /\ d.tls = c.tls /\ (d.writePending <=> c.writePending)
        /\ d.out = c.out /\ d.inFlight = c.inFlight /\ d.tlsPlain = c.tlsPlain /\ d.tlsOut = c.tlsOut
        /\ d.produced = c.produced
    BY <1>2, <2>1 DEF ConnBeginClose, ConnType
  <2>. HIDE DEF d
  <2>3. Upgrade(d)
    BY <2>2 DEF Good, Upgrade
  <2>4. Busy(d) /\ Framed(d)
    BY <2>2 DEF Busy, Framed
  <2>5. Ordered(d, w)
    BY <2>2 DEF Good, Ordered
  <2>6. Veiled(d, w)
    BY <2>2 DEF Good, Veiled
  <2>7. Good(d, w)
    BY <2>2, <2>3, <2>4, <2>5, <2>6 DEF Good
  <2>. QED
    BY <2>2, <2>7 DEF d
<1>. QED
  BY <1>1, <1>2

\* Appending to out, open or closed, when operations are executed.
LEMMA Appending ==
    ASSUME NEW w, NEW c, Good(c, w), Live(c)
    PROVE  Good(Append1(c), w) /\ Live(Append1(c))
<1>1. c \in ConnType /\ w \in Seq(StreamItem)
  BY DEF Good
<1>2. c.out \in Seq(Nat) /\ c.produced \in Nat
  BY <1>1, StreamType
<1>. DEFINE o == Append(c.out, c.produced + 1)
            p == c.produced + 1
            d == [c EXCEPT !.out = o, !.produced = p]
<1>3. o \in Seq(Nat) /\ p \in Nat /\ d = Append1(c)
  BY <1>2 DEF Append1
<1>. HIDE DEF o, p
<1>4. /\ d \in ConnType /\ (d.closing <=> c.closing) /\ (d.subscribed <=> c.subscribed) /\ d.tls = c.tls
      /\ (d.writePending <=> c.writePending)
      /\ d.out = o /\ d.inFlight = c.inFlight /\ d.tlsPlain = c.tlsPlain /\ d.tlsOut = c.tlsOut
      /\ d.produced = p /\ d.flightFraming = c.flightFraming /\ d.outFraming = c.outFraming
  BY <1>1, <1>3 DEF ConnType
<1>. HIDE DEF d
<1>5. Live(d)
  BY <1>4 DEF Live
<1>6. Upgrade(d)
  BY <1>4 DEF Good, Upgrade, Live
<1>7. Busy(d) /\ Framed(d)
  BY <1>4 DEF Good, Busy, Framed
<1>8. Ordered(d, w)
  <2>1. ~d.closing => Whole(Stream(d, w), d.produced)
    <3>1. Stream(d, w) = Plus(Stream(c, w), p)
      <4>. DEFINE a == Items(w)
                  b == Items(c.inFlight)
                  f == Items(c.tlsOut)
                  g == c.tlsPlain
                  h == c.out
      <4>1. a \in Seq(Nat) /\ b \in Seq(Nat) /\ f \in Seq(Nat) /\ g \in Seq(Nat) /\ h \in Seq(Nat)
        BY <1>1, StreamType
      <4>2. Stream(c, w) = Layers(a, b, f, g, h)
        BY <1>1, StreamType
      <4>3. Stream(d, w) = Layers(a, b, f, g, o)
        BY <1>1, <1>4, StreamType
      <4>4. o = Plus(h, p)
        BY DEF o, p, Plus
      <4>. HIDE DEF a, b, f, g, h
      <4>5. Layers(a, b, f, g, Plus(h, p)) = Plus(Layers(a, b, f, g, h), p)
        BY <1>3, <4>1, PartsAppend
      <4>. QED
        BY <4>2, <4>3, <4>4, <4>5
    <3>2. Stream(c, w) \in Seq(Nat)
      BY <1>1, StreamType
    <3>3. ~d.closing => Whole(Stream(c, w), c.produced)
      BY <1>4 DEF Good, Ordered
    <3>. QED
      BY <1>2, <1>4, <3>1, <3>2, <3>3, WholeAppend DEF p, Plus
  <2>2. Sent(Items(w), d.produced)
    <3>1. Items(w) \in Seq(Nat) /\ Sent(Items(w), c.produced)
      BY <1>1, StreamType DEF Good, Ordered
    <3>. QED
      BY <1>2, <1>4, <3>1, SentGrows DEF p
  <2>3. ASSUME d.writePending PROVE Sent(Items(w) \o Items(d.inFlight), d.produced)
    <3>1. Items(w) \o Items(c.inFlight) \in Seq(Nat) /\ Sent(Items(w) \o Items(c.inFlight), c.produced)
      BY <1>1, Joined, <1>4, <2>3, StreamType DEF Good, Ordered
    <3>. QED
      BY <1>2, <1>4, <3>1, SentGrows DEF p
  <2>. QED
    BY <2>1, <2>2, <2>3 DEF Ordered
<1>9. Veiled(d, w)
  BY <1>4 DEF Good, Veiled
<1>. QED
  BY <1>1, <1>4, <1>5, <1>6, <1>7, <1>8, <1>9, <1>3 DEF Good

-----------------------------------------------------------------------------
(* Writing.                                                                *)

\* An open connection whose output moved from one buffer to another.
LEMMA Moved ==
    ASSUME NEW w, NEW c, NEW d \in ConnType, Good(c, w), ~c.closing,
           d.produced = c.produced, Stream(d, w) = Stream(c, w), Upgrade(d), Busy(d), Framed(d), Veiled(d, w)
    PROVE  Good(d, w)
<1>1. w \in Seq(StreamItem) /\ Whole(Stream(d, w), d.produced) /\ Sent(Items(w), d.produced)
  BY DEF Good, Ordered
<1>2. d.produced \in Nat
  BY <1>1, StreamType
<1>3. Sent(Stream(d, w), d.produced)
  BY <1>1 DEF Whole, Sent
<1>4. Sent(Items(w) \o Items(d.inFlight), d.produced)
  BY <1>1, <1>2, <1>3, FlightFirst
<1>5. Ordered(d, w)
  BY <1>1, <1>4 DEF Ordered
<1>. QED
  BY <1>1, <1>5 DEF Good

\* A closed connection that had no write in flight.
LEMMA ClosedNow ==
    ASSUME NEW w, NEW c, NEW d \in ConnType, Good(c, w), d.closing, ~d.writePending, d.produced = c.produced,
           Upgrade(d), Veiled(d, w)
    PROVE  Good(d, w) /\ Settled(d)
<1>1. Ordered(d, w)
  BY DEF Good, Ordered
<1>2. Busy(d) /\ Framed(d) /\ Settled(d)
  BY DEF Busy, Framed, Settled
<1>. QED
  BY <1>1, <1>2 DEF Good

\* write_socket_from without TLS, and for INFO.
LEMMA WriteOut ==
    ASSUME NEW w, NEW c, Good(c, w), ~c.closing, ~c.writePending, c.tls \in {"off", "info"},
           Pending(c) <= MaxConnPending, NEW d \in WriteFrom(c, "out", Clear(c.out))
    PROVE  Good(d, w) /\ Settled(d) /\ d.tls = c.tls
<1>. DEFINE b == Clear(c.out)
            e == [c EXCEPT !.inFlight = b, !.out = <<>>, !.flightFraming = c.outFraming, !.outFraming = 0]
            g == [e EXCEPT !.writePending = TRUE]
            h == [e EXCEPT !.closing = TRUE, !.reading = FALSE, !.subscribed = FALSE]
<1>1. c \in ConnType /\ w \in Seq(StreamItem)
  BY DEF Good
<1>2. /\ c.out \in Seq(Nat) /\ c.inFlight \in Seq(StreamItem) /\ c.inFlight = <<>> /\ c.tlsOut = <<>> /\ c.tlsPlain = <<>>
      /\ c.tls = "info" => ~c.subscribed /\ \A i \in 1 .. Len(c.out) : c.out[i] = 1
  BY <1>1, StreamType DEF Good, Busy, Upgrade
<1>3. b \in Seq(StreamItem) /\ Items(b) = c.out /\ Len(b) = Len(c.out) /\ (c.tls = "info" => Hidden(b))
  BY <1>2, ItemsOfEntries
<1>. HIDE DEF b
<1>0. /\ c.flightFraming = 0 /\ c.outFraming = 0 /\ MaxConnPending \in Nat
      /\ Len(c.out) \in Nat
  BY <1>2, Numbers, ConnBoundsAssumption
<1>4. CASE b = <<>>
  <2>1. d = c
    BY <1>4 DEF WriteFrom, b
  <2>2. c.out = <<>>
    BY <1>2, <1>3, <1>4
  <2>3. Settled(c)
    <3>1. MaxConnPending + c.flightFraming = MaxConnPending
      BY <1>0
    <3>. QED
      BY <1>2, <2>2, <3>1 DEF Settled
  <2>. QED
    BY <2>1, <2>3
<1>5. CASE b # <<>>
  <2>1. d \in {g, ConnBeginClose(e)}
    BY <1>5 DEF WriteFrom, b
  <2>2. ~e.closing
    BY <1>1 DEF ConnType
  <2>3. ConnBeginClose(e) = h
    BY <2>2 DEF ConnBeginClose
  <2>4. /\ g \in ConnType /\ ~g.closing /\ g.writePending /\ g.tls = c.tls /\ g.out = <<>> /\ g.inFlight = b
        /\ g.tlsPlain = <<>> /\ g.tlsOut = <<>> /\ g.produced = c.produced /\ (g.subscribed <=> c.subscribed)
        /\ g.flightFraming = 0 /\ g.outFraming = 0
    BY <1>0, <1>1, <1>2, <1>3 DEF ConnType
  <2>5. /\ h \in ConnType /\ h.closing /\ ~h.writePending /\ h.tls = c.tls /\ h.out = <<>> /\ h.inFlight = b
        /\ h.tlsPlain = <<>> /\ h.tlsOut = <<>> /\ h.produced = c.produced /\ ~h.subscribed
    BY <1>0, <1>1, <1>2, <1>3 DEF ConnType
  <2>. HIDE DEF e, g, h
  <2>6. Hidden(<<>>)
    BY ItemsEnds
  <2>7. CASE d = g
    <3>1. Stream(d, w) = Stream(c, w)
      <4>. DEFINE a == Items(w)
                  f == c.out
      <4>1. a \in Seq(Nat) /\ f \in Seq(Nat)
        BY <1>1, StreamType
      <4>2. Stream(d, w) = Layers(a, f, <<>>, <<>>, <<>>)
        <5>1. Items(d.inFlight) = f /\ Items(d.tlsOut) = <<>> /\ d.tlsPlain = <<>> /\ d.out = <<>>
          BY <1>3, <2>4, <2>7, ItemsEnds
        <5>2. d \in ConnType
          BY <2>4, <2>7
        <5>. HIDE DEF f
        <5>. QED
          BY <1>1, <5>1, <5>2, StreamType
      <4>3. Stream(c, w) = Layers(a, <<>>, <<>>, <<>>, f)
        BY <1>1, <1>2, StreamType, ItemsEnds
      <4>. HIDE DEF a, f
      <4>. QED
        BY <4>1, <4>2, <4>3, PartsMove
    <3>2. Upgrade(d)
      BY <1>2, <2>4, <2>7 DEF Upgrade
    <3>3. Busy(d) /\ Framed(d)
      <4>1. Len(<<>>) = 0 /\ Len(b) \in Nat
        BY <1>3
      <4>2. 0 <= Over(0) /\ 0 <= Over(Len(b))
        BY <4>1, Overs
      <4>. QED
        BY <1>5, <2>4, <2>7, <4>1, <4>2 DEF Busy, Framed
    <3>4. Veiled(d, w)
      BY <1>3, <2>4, <2>6, <2>7 DEF Good, Veiled
    <3>5. Settled(d)
      <4>1. Pending(d) = Pending(c)
        <5>1. Len(c.out) \in Nat /\ Len(b) = Len(c.out) /\ Len(<<>>) = 0
          BY <1>2, <1>3
        <5>2. Pending(c) = Len(c.out) + (0 + 0) + (0 + 0) + 0
          BY <1>0, <1>2, <5>1 DEF Pending
        <5>3. Pending(d) = 0 + (Len(b) + 0) + (0 + 0) + 0
          BY <2>4, <2>7, <5>1 DEF Pending
        <5>. QED
          BY <5>1, <5>2, <5>3
      <4>2. Pending(d) <= MaxConnPending + d.flightFraming
        BY <1>0, <2>4, <2>7, <4>1
      <4>. QED
        BY <2>4, <2>7, <4>2 DEF Settled
    <3>. QED
      BY <2>4, <2>7, <3>1, <3>2, <3>3, <3>4, <3>5, Moved
  <2>8. CASE d = h
    <3>1. Upgrade(d)
      BY <1>2, <2>5, <2>8 DEF Upgrade
    <3>2. Veiled(d, w)
      BY <1>3, <2>5, <2>6, <2>8 DEF Good, Veiled
    <3>. QED
      BY <2>5, <2>8, <3>1, <3>2, ClosedNow
  <2>. QED
    BY <2>1, <2>3, <2>7, <2>8
<1>. QED
  BY <1>4, <1>5

\* write_socket_from with TLS records.
LEMMA WriteTls ==
    ASSUME NEW w, NEW c, Good(c, w), ~c.closing, ~c.writePending, c.tls \in {"handshake", "ready"},
           Pending(c) <= MaxConnPending + c.outFraming,
           c.tls = "ready" /\ c.tlsOut = <<>> /\ ~c.wants => c.out = <<>> /\ c.tlsPlain = <<>>,
           NEW d \in WriteFrom(c, "tlsOut", c.tlsOut)
    PROVE  Good(d, w) /\ Settled(d) /\ d.tls = c.tls
<1>. DEFINE b == c.tlsOut
            e == [c EXCEPT !.inFlight = b, !.tlsOut = <<>>, !.flightFraming = c.outFraming, !.outFraming = 0]
            g == [e EXCEPT !.writePending = TRUE]
            h == [e EXCEPT !.closing = TRUE, !.reading = FALSE, !.subscribed = FALSE]
<1>1. c \in ConnType /\ w \in Seq(StreamItem)
  BY DEF Good
<1>2. /\ c.out \in Seq(Nat) /\ c.tlsPlain \in Seq(Nat) /\ c.inFlight = <<>>
      /\ c.tls = "handshake" => c.out = <<>> /\ c.tlsPlain = <<>> /\ ~c.subscribed
  BY <1>1, StreamType DEF Good, Busy, Upgrade
<1>3. b \in Seq(StreamItem) /\ Hidden(b) /\ Items(b) \in Seq(Nat)
  BY <1>1, StreamType DEF Good, Veiled
<1>. HIDE DEF b
<1>0. /\ c.flightFraming = 0 /\ c.outFraming \in Nat /\ (b = <<>> => c.outFraming = 0) /\ MaxConnPending \in Nat
      /\ c.outFraming <= Over(Len(b))
  BY <1>2, Numbers, ConnBoundsAssumption DEF b, Good, Framed
<1>4. CASE b = <<>>
  <2>1. d = c
    BY <1>4 DEF WriteFrom, b
  <2>2. Settled(c)
    <3>1. MaxConnPending + c.flightFraming = MaxConnPending + c.outFraming
      BY <1>0, <1>4
    <3>. QED
      BY <1>4, <3>1 DEF Settled, b
  <2>. QED
    BY <2>1, <2>2
<1>5. CASE b # <<>>
  <2>1. d \in {g, ConnBeginClose(e)}
    BY <1>5 DEF WriteFrom, b
  <2>2. ~e.closing
    BY <1>1 DEF ConnType
  <2>3. ConnBeginClose(e) = h
    BY <2>2 DEF ConnBeginClose
  <2>4. /\ g \in ConnType /\ ~g.closing /\ g.writePending /\ g.tls = c.tls /\ g.out = c.out /\ g.inFlight = b
        /\ g.tlsPlain = c.tlsPlain /\ g.tlsOut = <<>> /\ g.produced = c.produced /\ (g.subscribed <=> c.subscribed)
        /\ g.flightFraming = c.outFraming /\ g.outFraming = 0
    BY <1>0, <1>1, <1>2, <1>3 DEF ConnType
  <2>5. /\ h \in ConnType /\ h.closing /\ ~h.writePending /\ h.tls = c.tls /\ h.out = c.out /\ h.inFlight = b
        /\ h.tlsPlain = c.tlsPlain /\ h.tlsOut = <<>> /\ h.produced = c.produced /\ ~h.subscribed
    BY <1>0, <1>1, <1>2, <1>3 DEF ConnType
  <2>. HIDE DEF e, g, h
  <2>6. Hidden(<<>>)
    BY ItemsEnds
  <2>7. CASE d = g
    <3>1. Stream(d, w) = Stream(c, w)
      <4>. DEFINE a == Items(w)
                  f == Items(b)
                  p == c.tlsPlain
                  q == c.out
      <4>1. a \in Seq(Nat) /\ f \in Seq(Nat) /\ p \in Seq(Nat) /\ q \in Seq(Nat)
        BY <1>1, <1>3, StreamType
      <4>2. Stream(d, w) = Layers(a, f, <<>>, p, q)
        <5>1. Items(d.inFlight) = f /\ Items(d.tlsOut) = <<>> /\ d.tlsPlain = p /\ d.out = q
          BY <2>4, <2>7, ItemsEnds
        <5>2. d \in ConnType
          BY <2>4, <2>7
        <5>. HIDE DEF f, p, q
        <5>. QED
          BY <1>1, <5>1, <5>2, StreamType
      <4>3. Stream(c, w) = Layers(a, <<>>, f, p, q)
        BY <1>1, <1>2, StreamType, ItemsEnds DEF b
      <4>. HIDE DEF a, f, p, q
      <4>. QED
        BY <4>1, <4>2, <4>3, PartsMove
    <3>2. Upgrade(d)
      BY <1>2, <2>4, <2>7 DEF Upgrade
    <3>3. Busy(d) /\ Framed(d)
      <4>1. Len(<<>>) = 0
        OBVIOUS
      <4>2. 0 <= Over(0)
        BY Overs
      <4>. QED
        BY <1>0, <1>5, <2>4, <2>7, <4>1, <4>2 DEF Busy, Framed
    <3>4. Veiled(d, w)
      BY <1>3, <2>4, <2>6, <2>7 DEF Good, Veiled
    <3>5. Settled(d)
      <4>1. Pending(d) = Pending(c)
        <5>1. Len(c.out) \in Nat /\ Len(c.tlsPlain) \in Nat /\ Len(b) \in Nat /\ Len(<<>>) = 0
          BY <1>2, <1>3
        <5>. QED
          <6>1. Pending(c) = Len(c.out) + (0 + 0) + (Len(b) + c.outFraming) + Len(c.tlsPlain)
            BY <1>0, <1>2, <5>1 DEF Pending, b
          <6>2. Pending(d) = Len(c.out) + (Len(b) + c.outFraming) + (0 + 0) + Len(c.tlsPlain)
            BY <2>4, <2>7, <5>1 DEF Pending
          <6>. QED
            BY <1>0, <5>1, <6>1, <6>2
      <4>2. Pending(d) <= MaxConnPending + d.flightFraming
        BY <2>4, <2>7, <4>1
      <4>. QED
        BY <2>4, <2>7, <4>2 DEF Settled
    <3>. QED
      BY <2>4, <2>7, <3>1, <3>2, <3>3, <3>4, <3>5, Moved
  <2>8. CASE d = h
    <3>1. Upgrade(d)
      BY <1>2, <2>5, <2>8 DEF Upgrade
    <3>2. Veiled(d, w)
      BY <1>3, <2>5, <2>6, <2>8 DEF Good, Veiled
    <3>. QED
      BY <2>5, <2>8, <3>1, <3>2, ClosedNow
  <2>. QED
    BY <2>1, <2>3, <2>7, <2>8
<1>. QED
  BY <1>4, <1>5

\* The first k elements of a sequence, and the others.
Begin(s, k) == SubSeq(s, 1, k)
Rest(s, k) == SubSeq(s, k + 1, Len(s))

\* A sequence cut in two.
LEMMA CutAt ==
    ASSUME NEW s \in Seq(Nat), NEW k \in Nat, k <= Len(s)
    PROVE  /\ Begin(s, k) \in Seq(Nat) /\ Len(Begin(s, k)) = k
           /\ Rest(s, k) \in Seq(Nat) /\ Len(Rest(s, k)) + k = Len(s)
           /\ Join(Begin(s, k), Rest(s, k)) = s
           /\ \A i \in 1 .. k : Begin(s, k)[i] = s[i]
<1>. DEFINE N == Nat
<1>1. s \in Seq(N) /\ Len(s) \in Nat
  OBVIOUS
<1>2. Begin(s, k) \in Seq(Nat) /\ Len(Begin(s, k)) = k
  BY <1>1 DEF Begin
<1>3. Rest(s, k) \in Seq(Nat) /\ Len(Rest(s, k)) + k = Len(s)
  BY <1>1 DEF Rest
<1>4. \A i \in 1 .. k : Begin(s, k)[i] = s[i]
  BY <1>1 DEF Begin
<1>. HIDE DEF N
<1>5. 1 \in 1 .. Len(s) + 1 /\ k \in 1 - 1 .. Len(s) /\ Len(s) \in k .. Len(s)
  BY <1>1
<1>6. SubSeq(s, 1, k) \o SubSeq(s, k + 1, Len(s)) = SubSeq(s, 1, Len(s))
  BY <1>1, <1>5, ConcatAdjacentSubSeq
<1>7. SubSeq(s, 1, Len(s)) = s
  BY <1>1, SubSeqFull
<1>8. Join(Begin(s, k), Rest(s, k)) = s
  BY <1>6, <1>7 DEF Join, Begin, Rest
<1>. QED
  BY <1>2, <1>3, <1>4, <1>8

\* What SSL_write takes of the two buffers that wait, when it stops within the first.
LEMMA TakenFirst ==
    ASSUME NEW p \in Seq(Nat), NEW q \in Seq(Nat), NEW k \in Nat, k < Len(p)
    PROVE  /\ Begin(Join(p, q), k) \in Seq(Nat) /\ Len(Begin(Join(p, q), k)) = k
           /\ Join(Begin(Join(p, q), k), Join(Rest(p, k), q)) = Join(p, q)
<1>. DEFINE m == Join(p, q)
            x == Begin(p, k)
            y == Rest(p, k)
            z == Begin(m, k)
<1>1. m \in Seq(Nat) /\ Len(m) = Len(p) + Len(q) /\ Len(p) \in Nat /\ Len(q) \in Nat
  BY Joined DEF Join
<1>2. \A i \in 1 .. Len(p) : m[i] = p[i]
  BY Joined DEF Join
<1>3. k <= Len(p) /\ \A i \in 1 .. k : i \in 1 .. Len(p)
  BY <1>1
<1>. HIDE DEF m
<1>4. k <= Len(m)
  BY <1>1
<1>5. z \in Seq(Nat) /\ Len(z) = k /\ \A i \in 1 .. k : z[i] = m[i]
  BY <1>1, <1>4, CutAt
<1>6. x \in Seq(Nat) /\ Len(x) = k /\ \A i \in 1 .. k : x[i] = p[i]
  BY <1>3, CutAt
<1>7. y \in Seq(Nat) /\ Join(x, y) = p
  BY <1>3, CutAt
<1>. HIDE DEF x, y, z
<1>8. \A i \in 1 .. k : z[i] = x[i]
  BY <1>2, <1>3, <1>5, <1>6
<1>9. z = x
  BY <1>5, <1>6, <1>8, SeqEqual
<1>10. Join(Join(x, y), q) = Join(x, Join(y, q))
  BY <1>6, <1>7, JoinAssoc
<1>11. Join(z, Join(y, q)) = m
  BY <1>7, <1>9, <1>10 DEF m
<1>. QED
  BY <1>5, <1>11 DEF y, z, m

\* What it takes, and what it leaves in the two buffers.
LEMMA Taken ==
    ASSUME NEW p \in Seq(Nat), NEW q \in Seq(Nat), NEW k \in Nat, k <= Len(Join(p, q))
    PROVE  \E t, p2, q2 \in Seq(Nat) :
              /\ t = Begin(Join(p, q), k)
              /\ p2 = (IF k < Len(p) THEN Rest(p, k) ELSE Rest(Join(p, q), k))
              /\ q2 = (IF k < Len(p) THEN q ELSE <<>>)
              /\ Join(t, Join(p2, q2)) = Join(p, q)
              /\ Len(t) = k /\ Len(p2) + Len(q2) + k = Len(p) + Len(q)
<1>. DEFINE m == Join(p, q)
            t == Begin(m, k)
<1>1. m \in Seq(Nat) /\ Len(m) = Len(p) + Len(q) /\ Len(p) \in Nat /\ Len(q) \in Nat
  BY Joined DEF Join
<1>2. CASE k < Len(p)
  <2>. DEFINE y == Rest(p, k)
  <2>1. t \in Seq(Nat) /\ Len(t) = k
    BY <1>2, TakenFirst
  <2>2. Join(t, Join(y, q)) = m
    BY <1>2, TakenFirst
  <2>3. k <= Len(p)
    BY <1>1, <1>2
  <2>4. y \in Seq(Nat) /\ Len(y) + k = Len(p)
    BY <2>3, CutAt
  <2>5. Len(y) + Len(q) + k = Len(p) + Len(q)
    <3>1. Len(y) \in Nat
      BY <2>4
    <3>2. \A a, b, e \in Nat : a + k = b => a + e + k = b + e
      OBVIOUS
    <3>. HIDE DEF y, m
    <3>. QED
      BY <1>1, <2>4, <3>1, <3>2
  <2>. HIDE DEF t, y, m
  <2>6. y = (IF k < Len(p) THEN Rest(p, k) ELSE Rest(Join(p, q), k)) /\ q = (IF k < Len(p) THEN q ELSE <<>>)
    BY <1>2 DEF y
  <2>7. t = Begin(Join(p, q), k) /\ m = Join(p, q)
    BY DEF t, m
  <2>. QED
    BY <2>1, <2>2, <2>4, <2>5, <2>6, <2>7
<1>3. CASE ~(k < Len(p))
  <2>. DEFINE y == Rest(m, k)
              e == <<>>
  <2>1. k <= Len(m)
    OBVIOUS
  <2>. HIDE DEF m
  <2>2. t \in Seq(Nat) /\ Len(t) = k
    BY <1>1, <2>1, CutAt
  <2>3. y \in Seq(Nat) /\ Len(y) + k = Len(m)
    BY <1>1, <2>1, CutAt
  <2>4. Join(t, y) = m
    BY <1>1, <2>1, CutAt
  <2>. HIDE DEF t, y
  <2>5. Join(y, e) = y /\ e \in Seq(Nat) /\ Len(e) = 0
    BY <2>3, JoinEmpty
  <2>6. y = (IF k < Len(p) THEN Rest(p, k) ELSE Rest(Join(p, q), k)) /\ e = (IF k < Len(p) THEN q ELSE <<>>)
    BY <1>3 DEF y, m
  <2>7. t = Begin(Join(p, q), k) /\ m = Join(p, q)
    BY DEF t, m
  <2>. HIDE DEF e
  <2>8. Len(y) + Len(e) + k = Len(p) + Len(q)
    <3>1. Len(y) \in Nat
      BY <2>3
    <3>. QED
      BY <1>1, <2>3, <2>5, <3>1
  <2>9. Join(t, Join(y, e)) = m
    BY <2>4, <2>5
  <2>. QED
    BY <2>2, <2>3, <2>5, <2>6, <2>7, <2>8, <2>9
<1>. QED
  BY <1>2, <1>3

\* Records after others.
LEMMA HiddenConcat ==
    ASSUME NEW s \in Seq(StreamItem), NEW r \in Seq(StreamItem), Hidden(s), Hidden(r)
    PROVE  Hidden(s \o r) /\ s \o r \in Seq(StreamItem) /\ Len(s \o r) = Len(s) + Len(r)
<1>1. s \o r \in Seq(StreamItem) /\ Len(s \o r) = Len(s) + Len(r)
  OBVIOUS
<1>2. \A i \in 1 .. Len(s) + Len(r) :
        (\E j \in 1 .. Len(s) : (s \o r)[i] = s[j]) \/ (\E j \in 1 .. Len(r) : (s \o r)[i] = r[j])
  <2>. SUFFICES ASSUME NEW i \in 1 .. Len(s) + Len(r)
                PROVE  (\E j \in 1 .. Len(s) : (s \o r)[i] = s[j]) \/ (\E j \in 1 .. Len(r) : (s \o r)[i] = r[j])
    OBVIOUS
  <2>1. CASE i \in 1 .. Len(s)
    BY <2>1
  <2>2. CASE i \in Len(s) + 1 .. Len(s) + Len(r)
    <3>1. i - Len(s) \in 1 .. Len(r) /\ (s \o r)[i] = r[i - Len(s)]
      BY <2>2
    <3>. QED
      BY <3>1
  <2>3. i \in 1 .. Len(s) \/ i \in Len(s) + 1 .. Len(s) + Len(r)
    BY LenProperties
  <2>. QED
    BY <2>1, <2>2, <2>3
<1>3. Hidden(s \o r)
  <2>. DEFINE z == s \o r
  <2>1. Len(z) = Len(s) + Len(r)
    BY <1>1
  <2>2. \A i \in 1 .. Len(s) + Len(r) :
          (\E j \in 1 .. Len(s) : z[i] = s[j]) \/ (\E j \in 1 .. Len(r) : z[i] = r[j])
    BY <1>2
  <2>. HIDE DEF z
  <2>3. Hidden(z)
    BY <2>1, <2>2 DEF Hidden
  <2>. QED
    BY <2>3 DEF z
<1>. QED
  BY <1>1, <1>3

\* SSL_write took t, made records longer by r of it, and left p and q.
Takes(c, t, r, p, q, y, d) ==
    /\ r \in Nat /\ r <= Over(Len(t))
    /\ t \in Seq(Nat) /\ p \in Seq(Nat) /\ q \in Seq(Nat)
    /\ Join(t, Join(p, q)) = Join(c.tlsPlain, c.out)
    /\ Len(p) + Len(q) + Len(t) = Len(c.tlsPlain) + Len(c.out)
    /\ y \in BOOLEAN /\ (y <=> Len(t) < Len(c.tlsPlain) + Len(c.out))
    /\ d = [c EXCEPT !.tlsOut = c.tlsOut \o Sealed(t), !.outFraming = c.outFraming + r,
                     !.tlsPlain = p, !.out = q, !.wants = y]

\* tls_encrypt_pending then.
LEMMA Encrypted ==
    ASSUME NEW w, NEW c, Good(c, w), ~c.closing, ~c.writePending, c.tls = "ready",
           NEW t, NEW r, NEW p, NEW q, NEW y, NEW d, Takes(c, t, r, p, q, y, d), Pending(c) <= MaxConnPending
    PROVE  /\ Good(d, w) /\ d.tls = "ready" /\ ~d.writePending /\ ~d.closing
           /\ Pending(d) <= MaxConnPending + d.outFraming
           /\ d.tlsOut = <<>> /\ ~d.wants => d.out = <<>> /\ d.tlsPlain = <<>>
<1>. DEFINE x == c.tlsOut \o Sealed(t)
            f == Items(c.tlsOut)
<1>1. c \in ConnType /\ w \in Seq(StreamItem)
  BY DEF Good
<1>2. t \in Seq(Nat) /\ p \in Seq(Nat) /\ q \in Seq(Nat) /\ y \in BOOLEAN /\ r \in Nat /\ r <= Over(Len(t))
  BY DEF Takes
<1>0. c.outFraming \in Nat /\ c.flightFraming \in Nat /\ c.outFraming + r \in Nat
  BY <1>2, Numbers
<1>3. c.tlsOut \in Seq(StreamItem) /\ c.inFlight = <<>> /\ Hidden(c.tlsOut) /\ c.tlsPlain \in Seq(Nat) /\ c.out \in Seq(Nat)
  BY <1>1, StreamType DEF Good, Busy, Veiled
<1>4. Sealed(t) \in Seq(StreamItem) /\ Items(Sealed(t)) = t /\ Len(Sealed(t)) = Len(t) /\ Hidden(Sealed(t))
  BY <1>2, ItemsOfEntries
<1>5. x \in Seq(StreamItem) /\ Len(x) = Len(c.tlsOut) + Len(t) /\ Hidden(x)
  BY <1>3, <1>4, HiddenConcat
<1>6. Items(x) = Join(f, t)
  BY <1>3, <1>4, ItemsConcat DEF Join
<1>. HIDE DEF x
<1>7. d = [c EXCEPT !.tlsOut = x, !.outFraming = c.outFraming + r, !.tlsPlain = p, !.out = q, !.wants = y]
  BY DEF x, Takes
<1>8. /\ d \in ConnType /\ ~d.closing /\ ~d.writePending /\ d.tls = "ready" /\ d.out = q /\ d.inFlight = <<>>
      /\ d.tlsPlain = p /\ d.tlsOut = x /\ d.produced = c.produced /\ (d.wants <=> y)
      /\ d.outFraming = c.outFraming + r /\ d.flightFraming = c.flightFraming
  BY <1>0, <1>1, <1>3, <1>5, <1>7, <1>2 DEF ConnType
<1>9. Stream(d, w) = Stream(c, w)
  <2>. DEFINE a == Items(w)
              u == Items(<<>>)
              g == c.tlsPlain
              h == c.out
  <2>1. a \in Seq(Nat) /\ f \in Seq(Nat) /\ g \in Seq(Nat) /\ h \in Seq(Nat)
    BY <1>1, StreamType
  <2>2. u = <<>>
    BY ItemsEnds
  <2>3. Stream(d, w) = Layers(a, u, Join(f, t), p, q)
    BY <1>1, <1>6, <1>8, StreamType
  <2>4. Stream(c, w) = Layers(a, u, f, g, h)
    BY <1>1, <1>3, StreamType
  <2>. HIDE DEF a, f, u, g, h
  <2>5. u \in Seq(Nat)
    BY <2>2
  <2>6. Join(a, u) \in Seq(Nat) /\ Join(f, t) \in Seq(Nat) /\ Join(p, q) \in Seq(Nat)
    BY <1>2, <2>1, <2>5, JoinSeq
  <2>7. Layers(a, u, Join(f, t), p, q) = Join(Join(a, u), Join(Join(f, t), Join(p, q)))
    BY <1>2, <2>1, <2>5, <2>6, PartsSplit, SMTT(30)
  <2>8. Layers(a, u, f, g, h) = Join(Join(a, u), Join(f, Join(g, h)))
    BY <2>1, <2>5, PartsSplit
  <2>9. Join(Join(f, t), Join(p, q)) = Join(f, Join(t, Join(p, q)))
    BY <1>2, <2>1, <2>6, JoinAssoc
  <2>10. Join(t, Join(p, q)) = Join(g, h)
    BY DEF g, h, Takes
  <2>. QED
    BY <2>3, <2>4, <2>7, <2>8, <2>9, <2>10
<1>10. Good(d, w)
  <2>1. Upgrade(d)
    BY <1>8 DEF Upgrade
  <2>2. Busy(d)
    BY <1>8 DEF Busy
  <2>3. Veiled(d, w)
    BY <1>5, <1>8, ItemsEnds DEF Good, Veiled
  <2>4. Framed(d)
    <3>1. Len(c.tlsOut) \in Nat /\ Len(t) \in Nat
      BY <1>2, <1>3
    <3>2. Over(Len(x)) = Over(Len(c.tlsOut)) + Over(Len(t)) /\ Over(Len(c.tlsOut)) \in Nat /\ Over(Len(t)) \in Nat
      BY <1>5, <3>1, Overs
    <3>3. c.outFraming <= Over(Len(c.tlsOut)) /\ c.flightFraming <= Over(Len(c.inFlight))
      BY DEF Good, Framed
    <3>4. c.outFraming + r <= Over(Len(x))
      BY <1>0, <1>2, <3>2, <3>3
    <3>. QED
      BY <1>3, <1>8, <3>3, <3>4 DEF Framed
  <2>. QED
    BY <1>8, <1>9, <2>1, <2>2, <2>3, <2>4, Moved
<1>11. /\ Len(t) \in Nat /\ Len(p) \in Nat /\ Len(q) \in Nat /\ Len(c.tlsPlain) \in Nat /\ Len(c.out) \in Nat
       /\ Len(c.tlsOut) \in Nat
  BY <1>3, <1>2
<1>12. /\ Len(d.out) \in Nat /\ Len(d.tlsPlain) \in Nat /\ Len(c.inFlight) = 0 /\ Len(d.inFlight) = 0
       /\ Len(d.tlsOut) = Len(c.tlsOut) + Len(t)
       /\ Len(d.tlsPlain) + Len(d.out) + Len(t) = Len(c.tlsPlain) + Len(c.out)
  <2>1. Len(<<>>) = 0
    OBVIOUS
  <2>. QED
    BY <1>3, <1>5, <1>8, <1>11, <2>1, Zenon DEF Takes
<1>13. /\ Pending(d) <= MaxConnPending + d.outFraming
       /\ Len(d.tlsOut) = 0 /\ ~(Len(t) < Len(c.tlsPlain) + Len(c.out)) => Len(d.tlsPlain) = 0 /\ Len(d.out) = 0
  <2>. DEFINE k == Len(t)
              a == Len(c.out)
              b == Len(c.tlsPlain)
              e == Len(c.tlsOut)
              g == Len(d.out)
              h == Len(d.tlsPlain)
              i == Len(d.tlsOut)
              o == c.outFraming
  <2>0. c.flightFraming = 0 /\ d.flightFraming = 0 /\ d.outFraming = o + r /\ o \in Nat /\ MaxConnPending \in Nat
    BY <1>0, <1>3, <1>8, Numbers, ConnBoundsAssumption
  <2>1. /\ k \in Nat /\ a \in Nat /\ b \in Nat /\ e \in Nat /\ g \in Nat /\ h \in Nat
        /\ i = e + k /\ h + g + k = b + a
    BY <1>11, <1>12
  <2>2. Pending(c) = a + (0 + 0) + (e + o) + b /\ Pending(d) = g + (0 + 0) + (i + (o + r)) + h
    BY <1>12, <2>0, Zenon DEF Pending
  <2>. HIDE DEF k, a, b, e, g, h, i, o
  <2>3. Pending(d) <= MaxConnPending + d.outFraming
    BY <1>2, <2>0, <2>1, <2>2
  <2>4. i = 0 /\ ~(k < b + a) => h = 0 /\ g = 0
    BY <2>1
  <2>. QED
    BY <2>3, <2>4 DEF k, a, b, e, g, h, i
<1>14. ASSUME d.tlsOut = <<>>, ~d.wants PROVE d.out = <<>> /\ d.tlsPlain = <<>>
  <2>1. Len(d.tlsOut) = 0
    BY <1>14
  <2>2. Len(d.tlsPlain) = 0 /\ Len(d.out) = 0
    BY <1>8, <1>13, <1>14, <2>1 DEF Takes
  <2>. QED
    BY <1>8, <1>2, <2>2
<1>. QED
  BY <1>8, <1>10, <1>13, <1>14

\* tls_encrypt_pending.
LEMMA Encrypting ==
    ASSUME NEW w, NEW c, Good(c, w), ~c.closing, ~c.writePending, c.tls = "ready",
           Pending(c) <= MaxConnPending, NEW d \in Encrypt(c)
    PROVE  /\ Good(d, w) /\ d.tls = "ready" /\ ~d.writePending
           /\ ~d.closing => /\ Pending(d) <= MaxConnPending + d.outFraming
                            /\ d.tlsOut = <<>> /\ ~d.wants => d.out = <<>> /\ d.tlsPlain = <<>>
<1>1. c \in ConnType /\ w \in Seq(StreamItem)
  BY DEF Good
<1>2. CASE d = ConnBeginClose(c)
  <2>1. d.writePending <=> c.writePending
    BY <1>1, <1>2 DEF ConnBeginClose, ConnType
  <2>. QED
    BY <1>2, <2>1, Closing
<1>3. CASE d # ConnBeginClose(c)
  <2>. DEFINE p == c.tlsPlain
              q == c.out
              m == Join(p, q)
  <2>1. p \in Seq(Nat) /\ q \in Seq(Nat)
    BY <1>1, StreamType
  <2>. DEFINE taken(k, r) ==
            [c EXCEPT !.tlsOut = c.tlsOut \o Sealed(Begin(m, k)),
                      !.outFraming = c.outFraming + r,
                      !.tlsPlain = IF k < Len(p) THEN Rest(p, k) ELSE Rest(m, k),
                      !.out = IF k < Len(p) THEN q ELSE <<>>,
                      !.wants = k < Len(m)]
              some(k) == {taken(k, r) : r \in 0 .. RecordOverhead * k}
  <2>12. Encrypt(c) = {ConnBeginClose(c)} \cup UNION {some(k) : k \in 0 .. Len(m)}
    BY DEF Encrypt, Join, Begin, Rest
  <2>. HIDE DEF taken, some
  <2>13. d \in UNION {some(k) : k \in 0 .. Len(m)}
    BY <1>3, <2>12, Zenon
  <2>14. PICK k \in 0 .. Len(m) : d \in some(k)
    BY <2>13, Zenon
  <2>2. PICK r \in 0 .. RecordOverhead * k :
            d = [c EXCEPT !.tlsOut = c.tlsOut \o Sealed(Begin(m, k)),
                          !.outFraming = c.outFraming + r,
                          !.tlsPlain = IF k < Len(p) THEN Rest(p, k) ELSE Rest(m, k),
                          !.out = IF k < Len(p) THEN q ELSE <<>>,
                          !.wants = k < Len(m)]
    BY <2>14, Zenon DEF taken, some
  <2>3. Len(p) \in Nat /\ Len(q) \in Nat /\ Len(m) = Len(p) + Len(q)
    BY <2>1, Joined DEF Join
  <2>. HIDE DEF p, q
  <2>4. m \in Seq(Nat)
    BY <2>1, JoinSeq
  <2>. HIDE DEF m
  <2>5. k \in Nat /\ k <= Len(m)
    BY <2>4
  <2>6. PICK t \in Seq(Nat), p2 \in Seq(Nat), q2 \in Seq(Nat) :
            /\ t = Begin(m, k)
            /\ p2 = (IF k < Len(p) THEN Rest(p, k) ELSE Rest(m, k))
            /\ q2 = (IF k < Len(p) THEN q ELSE <<>>)
            /\ Join(t, Join(p2, q2)) = m
            /\ Len(t) = k /\ Len(p2) + Len(q2) + k = Len(p) + Len(q)
    BY <2>1, <2>5, Taken DEF m
  <2>. DEFINE y == k < Len(m)
  <2>7. d = [c EXCEPT !.tlsOut = c.tlsOut \o Sealed(t), !.outFraming = c.outFraming + r,
                      !.tlsPlain = p2, !.out = q2, !.wants = y]
    BY <2>2, <2>6
  <2>11. r \in Nat /\ r <= Over(Len(t))
    <3>1. Over(k) \in Nat /\ r \in 0 .. Over(k)
      BY <2>5, Overs DEF Over
    <3>. QED
      BY <2>6, <3>1
  <2>8. y \in BOOLEAN /\ (y <=> Len(t) < Len(c.tlsPlain) + Len(c.out))
    BY <2>3, <2>6 DEF p, q
  <2>9. Join(t, Join(p2, q2)) = Join(c.tlsPlain, c.out) /\ Len(p2) + Len(q2) + Len(t) = Len(c.tlsPlain) + Len(c.out)
    BY <2>6 DEF m, p, q
  <2>. HIDE DEF y
  <2>10. Takes(c, t, r, p2, q2, y, d)
    BY <2>7, <2>8, <2>9, <2>11, Zenon DEF Takes
  <2>. QED
    BY <2>10, Encrypted
<1>. QED
  BY <1>2, <1>3

\* mb_conn_kick_write: what it leaves behind may wait for the next callback.
LEMMA Kicking ==
    ASSUME NEW w, NEW c, Good(c, w), NEW d \in KickWrite(c)
    PROVE  Good(d, w) /\ Settled(d) /\ d.tls = c.tls
<1>1. c.tls \in {"off", "info", "handshake", "ready"}
  BY DEF Good, ConnType
<1>2. CASE c.closing
  BY <1>2 DEF KickWrite, Settled
<1>3. CASE ~c.closing /\ Pending(c) > MaxConnPending
  <2>1. d = ConnBeginClose(c)
    BY <1>3 DEF KickWrite
  <2>. QED
    BY <2>1, Closing DEF Settled
<1>4. ASSUME ~c.closing, ~(Pending(c) > MaxConnPending)
      PROVE  /\ Pending(c) <= MaxConnPending
             /\ Pending(c) <= MaxConnPending + c.flightFraming /\ Pending(c) <= MaxConnPending + c.outFraming
  <2>1. Pending(c) \in Int /\ c.flightFraming \in Nat /\ c.outFraming \in Nat
    <3>1. \A i, j, k, l, m, n \in Nat : i + (j + k) + (l + m) + n \in Int
      OBVIOUS
    <3>. QED
      BY <3>1, Numbers, Zenon DEF Pending
  <2>2. MaxConnPending \in Int
    BY ConnBoundsAssumption
  <2>. QED
    BY <1>4, <2>1, <2>2
<1>5. CASE ~c.closing /\ ~(Pending(c) > MaxConnPending) /\ c.writePending
  <2>1. d = c
    BY <1>5 DEF KickWrite
  <2>. QED
    BY <1>4, <1>5, <2>1 DEF Settled
<1>6. CASE ~c.closing /\ ~(Pending(c) > MaxConnPending) /\ ~c.writePending /\ c.tls \in {"off", "info"}
  <2>1. d \in WriteFrom(c, "out", Clear(c.out))
    BY <1>6 DEF KickWrite
  <2>. QED
    BY <1>4, <1>6, <2>1, WriteOut
<1>7. CASE ~c.closing /\ ~(Pending(c) > MaxConnPending) /\ ~c.writePending /\ c.tls = "handshake"
  <2>1. d \in WriteFrom(c, "tlsOut", c.tlsOut)
    BY <1>7 DEF KickWrite
  <2>. QED
    BY <1>4, <1>7, <2>1, WriteTls
<1>8. CASE ~c.closing /\ ~(Pending(c) > MaxConnPending) /\ ~c.writePending /\ c.tls = "ready"
  <2>1. PICK e \in Encrypt(c) : d \in WriteFrom(e, "tlsOut", e.tlsOut)
    BY <1>8 DEF KickWrite
  <2>2. /\ Good(e, w) /\ e.tls = "ready" /\ ~e.writePending
        /\ ~e.closing => /\ Pending(e) <= MaxConnPending + e.outFraming
                         /\ e.tlsOut = <<>> /\ ~e.wants => e.out = <<>> /\ e.tlsPlain = <<>>
    BY <1>4, <1>8, Encrypting
  <2>3. CASE e.closing
    <3>1. d = e
      BY <2>1, <2>3 DEF WriteFrom
    <3>. QED
      BY <1>8, <2>2, <2>3, <3>1 DEF Settled
  <2>4. CASE ~e.closing
    BY <1>8, <2>1, <2>2, <2>4, WriteTls
  <2>. QED
    BY <2>3, <2>4
<1>. QED
  BY <1>1, <1>2, <1>3, <1>5, <1>6, <1>7, <1>8

\* A callback that ends with a kick.
LEMMA KickingAll ==
    ASSUME NEW w, NEW cs, \A c \in cs : Good(c, w), NEW d \in KickAll(cs)
    PROVE  Good(d, w) /\ Settled(d)
<1>1. PICK c \in cs : d \in KickWrite(c)
  BY DEF KickAll
<1>. QED
  BY <1>1, Kicking

-----------------------------------------------------------------------------
(* Operations.                                                             *)

\* What an operation leaves behind.
Fine(d, w) == Good(d, w) /\ Live(d)

\* mb_conn_begin_close and appending, when operations are executed.
LEMMA Steps ==
    ASSUME NEW w, NEW c, Fine(c, w)
    PROVE  /\ Fine(ConnBeginClose(c), w) /\ Fine(Append1(c), w) /\ \A d \in WriteErr(c) : Fine(d, w)
           /\ Fine([c EXCEPT !.authorized = TRUE], w)
           /\ \A b \in BOOLEAN : Fine([c EXCEPT !.subscribed = b], w)
<1>1. Good(c, w) /\ Live(c) /\ c \in ConnType
  BY DEF Fine, Good
<1>2. Fine(ConnBeginClose(c), w)
  BY <1>1, Closing DEF Fine, Live
<1>3. Fine(Append1(c), w)
  BY <1>1, Appending DEF Fine
<1>4. Fine([c EXCEPT !.authorized = TRUE], w)
  <2>. DEFINE d == [c EXCEPT !.authorized = TRUE]
  <2>1. /\ d \in ConnType /\ d.tls = c.tls /\ (d.closing <=> c.closing) /\ (d.writePending <=> c.writePending)
        /\ d.out = c.out /\ d.inFlight = c.inFlight /\ d.tlsPlain = c.tlsPlain /\ d.tlsOut = c.tlsOut
        /\ d.produced = c.produced /\ (d.subscribed => c.subscribed)
        /\ d.flightFraming = c.flightFraming /\ d.outFraming = c.outFraming
    BY <1>1 DEF ConnType
  <2>. HIDE DEF d
  <2>2. Good(d, w)
    BY <1>1, <2>1, Unmoved
  <2>. QED
    BY <1>1, <2>1, <2>2 DEF Fine, Live, d
<1>5. ASSUME NEW b \in BOOLEAN PROVE Fine([c EXCEPT !.subscribed = b], w)
  <2>. DEFINE d == [c EXCEPT !.subscribed = b]
  <2>1. /\ d \in ConnType /\ d.tls = c.tls /\ (d.closing <=> c.closing) /\ (d.writePending <=> c.writePending)
        /\ d.out = c.out /\ d.inFlight = c.inFlight /\ d.tlsPlain = c.tlsPlain /\ d.tlsOut = c.tlsOut
        /\ d.produced = c.produced /\ d.flightFraming = c.flightFraming /\ d.outFraming = c.outFraming
    BY <1>1 DEF ConnType
  <2>. HIDE DEF d
  <2>2. Good(d, w)
    BY <1>1, <2>1, Unmoved
  <2>. QED
    BY <1>1, <2>1, <2>2 DEF Fine, Live, d
<1>. QED
  BY <1>2, <1>3, <1>4, <1>5 DEF WriteErr

\* deliver_to_sub, and the kick at the end of a publish.
LEMMA Delivering ==
    ASSUME NEW w, NEW c, Fine(c, w), NEW d \in ConnDeliver(c)
    PROVE  Fine(d, w) /\ (c.subscribed => Settled(d))
<1>1. CASE ~c.subscribed
  BY <1>1 DEF ConnDeliver
<1>2. CASE d = ConnBeginClose(c)
  <2>1. d.closing
    BY <1>2, Closing DEF Fine
  <2>. QED
    BY <1>2, <2>1, Steps DEF Settled
<1>3. CASE d \in KickWrite(Append1(c))
  <2>1. Fine(Append1(c), w)
    BY Steps
  <2>2. Good(d, w) /\ Settled(d) /\ d.tls = Append1(c).tls
    BY <1>3, <2>1, Kicking DEF Fine
  <2>. QED
    BY <2>1, <2>2 DEF Fine, Live
<1>. QED
  BY <1>1, <1>2, <1>3 DEF ConnDeliver

\* The switch of handle_op.
LEMMA Executing ==
    ASSUME NEW w, NEW c, Fine(c, w), NEW op \in {"connectGood", "connectBad", "ping", "sub", "unsub", "pub"},
           NEW d \in Execute(c, op)
    PROVE  Fine(d, w)
<1>1. CASE op \in {"connectGood", "connectBad"}
  BY <1>1 DEF Execute
<1>2. CASE op = "ping"
  <2>1. d \in {Append1(c), ConnBeginClose(c)}
    BY <1>2 DEF Execute
  <2>. QED
    BY <2>1, Steps
<1>3. CASE op = "sub"
  <2>. DEFINE s == [c EXCEPT !.subscribed = TRUE]
              u == [c EXCEPT !.subscribed = FALSE]
  <2>1. \/ d \in {s, Append1(s)}
        \/ \E e \in {c, u, Append1(u)} : d \in WriteErr(e)
    BY <1>3 DEF Execute
  <2>2. Fine(s, w) /\ Fine(u, w)
    BY Steps
  <2>. HIDE DEF s, u
  <2>3. Fine(Append1(s), w) /\ Fine(Append1(u), w)
    BY <2>2, Steps
  <2>. QED
    BY <2>1, <2>2, <2>3, Steps
<1>4. CASE op = "unsub"
  <2>1. d \in {c, [c EXCEPT !.subscribed = FALSE]}
    BY <1>4 DEF Execute
  <2>. QED
    BY <2>1, Steps
<1>5. CASE op = "pub"
  <2>1. d \in WriteErr(c) \/ d \in ConnDeliver(c) \/ \E e \in ConnDeliver(c) : d \in WriteErr(e)
    BY <1>5 DEF Execute
  <2>2. \A e \in ConnDeliver(c) : Fine(e, w)
    BY Delivering
  <2>. QED
    BY <2>1, <2>2, Steps
<1>. QED
  BY <1>1, <1>2, <1>3, <1>4, <1>5

\* handle_op, and process_rx for input that is no operation.
LEMMA Handling ==
    ASSUME NEW w, NEW c, Fine(c, w), NEW op \in Ops, NEW d \in HandleOp(c, op)
    PROVE  Fine(d, w)
<1>1. CASE \E e \in WriteErr(c) : d = ConnBeginClose(e)
  BY <1>1, Steps
<1>2. CASE d \in WriteErr(c)
  BY <1>2, Steps
<1>3. CASE d = [c EXCEPT !.authorized = TRUE]
  BY <1>3, Steps
<1>4. CASE op \notin {"malformed", "unknown"} /\ d \in Execute(c, op)
  <2>1. op \in {"connectGood", "connectBad", "ping", "sub", "unsub", "pub"}
    BY <1>4 DEF Ops
  <2>. QED
    BY <1>4, <2>1, Executing
<1>. QED
  BY <1>1, <1>2, <1>3, <1>4, Zenon DEF HandleOp, AuthViolation

\* The loop of process_rx.
LEMMA Processing ==
    ASSUME NEW w, NEW c, Fine(c, w), NEW ops \in Ops \X (Ops \cup {"end"}), NEW d \in ProcessRx(c, ops)
    PROVE  Fine(d, w)
<1>1. ops[1] \in Ops /\ ops[2] \in Ops \cup {"end"}
  OBVIOUS
<1>2. \A e : Fine(e, w) => \A op \in Ops \cup {"end"} : \A f \in NextOp(e, op) : Fine(f, w)
  BY Handling DEF NextOp
<1>3. PICK e \in NextOp(c, ops[1]) : d \in NextOp(e, ops[2])
  BY DEF ProcessRx
<1>. QED
  BY <1>1, <1>2, <1>3

-----------------------------------------------------------------------------
(* TLS.                                                                    *)

\* A handshake record goes out.
LEMMA Answering ==
    ASSUME NEW w, NEW c, Good(c, w), c.tls = "handshake",
           NEW d, d = [c EXCEPT !.tlsOut = Append(@, Handshake), !.flights = @ + 1]
    PROVE  Good(d, w) /\ d.tls = "handshake"
<1>. DEFINE x == Append(c.tlsOut, Handshake)
            f == Items(c.tlsOut)
<1>1. c \in ConnType /\ w \in Seq(StreamItem)
  BY DEF Good
<1>2. /\ c.tlsOut \in Seq(StreamItem) /\ c.tlsPlain = <<>> /\ c.out = <<>> /\ ~c.subscribed /\ Hidden(c.tlsOut)
      /\ c.flights + 1 \in Nat
  BY <1>1, StreamType DEF Good, Upgrade, Veiled, ConnType
<1>3. x \in Seq(StreamItem) /\ Items(x) = Plus(f, 0) /\ Hidden(x)
  BY <1>2, ItemsEnds DEF Plus
<1>4. d = [c EXCEPT !.tlsOut = x, !.flights = c.flights + 1]
  OBVIOUS
<1>. HIDE DEF x
<1>5. /\ d \in ConnType /\ (d.closing <=> c.closing) /\ (d.writePending <=> c.writePending) /\ d.tls = "handshake"
      /\ d.out = <<>> /\ d.inFlight = c.inFlight /\ d.tlsPlain = <<>> /\ d.tlsOut = x /\ d.produced = c.produced
      /\ ~d.subscribed /\ d.flightFraming = c.flightFraming /\ d.outFraming = c.outFraming
  BY <1>1, <1>2, <1>3, <1>4 DEF ConnType
<1>6. Ordered(d, w)
  <2>1. ASSUME ~d.closing PROVE Whole(Stream(d, w), d.produced)
    <3>. DEFINE a == Items(w)
                b == Items(c.inFlight)
    <3>1. a \in Seq(Nat) /\ b \in Seq(Nat) /\ f \in Seq(Nat) /\ Stream(c, w) \in Seq(Nat) /\ c.produced \in Nat
      BY <1>1, StreamType
    <3>2. Stream(c, w) = Layers(a, b, f, <<>>, <<>>)
      BY <1>1, <1>2, StreamType
    <3>3. Stream(d, w) = Layers(a, b, Plus(f, 0), <<>>, <<>>)
      BY <1>1, <1>3, <1>5, StreamType
    <3>. HIDE DEF a, b, f
    <3>4. Stream(d, w) = Plus(Stream(c, w), 0)
      <4>. DEFINE n == <<>>
                  x0 == 0
      <4>1. n = <<>> /\ x0 \in Nat /\ x0 = 0
        OBVIOUS
      <4>. HIDE DEF n, x0
      <4>2. Layers(a, b, Plus(f, x0), n, n) = Plus(Layers(a, b, f, n, n), x0)
        BY <3>1, <4>1, PartsRecord, SMTT(30)
      <4>. QED
        BY <3>2, <3>3, <4>1, <4>2
    <3>5. Whole(Stream(c, w), c.produced)
      BY <1>5, <2>1 DEF Good, Ordered
    <3>. QED
      BY <1>5, <3>1, <3>4, <3>5, WholeHandshake DEF Plus
  <2>. QED
    BY <1>5, <2>1 DEF Good, Ordered
<1>7. Upgrade(d)
  BY <1>5 DEF Upgrade
<1>8. Busy(d) /\ Framed(d)
  <2>1. Len(x) = Len(c.tlsOut) + 1 /\ Len(c.tlsOut) \in Nat
    BY <1>2 DEF x
  <2>2. Over(Len(x)) = Over(Len(c.tlsOut)) + Over(1) /\ Over(Len(c.tlsOut)) \in Nat /\ Over(1) \in Nat
    BY <2>1, Overs
  <2>3. c.outFraming <= Over(Len(c.tlsOut)) => c.outFraming <= Over(Len(x))
    BY <2>2, Numbers
  <2>. QED
    BY <1>5, <2>3 DEF Good, Busy, Framed
<1>9. Veiled(d, w)
  BY <1>3, <1>5 DEF Good, Veiled
<1>. QED
  BY <1>1, <1>5, <1>6, <1>7, <1>8, <1>9 DEF Good

\* The handshake is done.
LEMMA Readying ==
    ASSUME NEW w, NEW c, Good(c, w), c.tls = "handshake", NEW d, d = [c EXCEPT !.tls = "ready"]
    PROVE  Fine(d, w)
<1>1. c \in ConnType /\ w \in Seq(StreamItem)
  BY DEF Good
<1>2. /\ d \in ConnType /\ (d.closing <=> c.closing) /\ (d.writePending <=> c.writePending) /\ d.tls = "ready"
      /\ d.out = c.out /\ d.inFlight = c.inFlight /\ d.tlsPlain = c.tlsPlain /\ d.tlsOut = c.tlsOut /\ d.produced = c.produced
      /\ d.flightFraming = c.flightFraming /\ d.outFraming = c.outFraming
  BY <1>1 DEF ConnType
<1>3. Ordered(d, w)
  <2>1. Stream(d, w) = Stream(c, w)
    BY <1>2 DEF Stream
  <2>. QED
    BY <1>2, <2>1 DEF Good, Ordered
<1>4. Upgrade(d) /\ Live(d)
  BY <1>2 DEF Upgrade, Live
<1>5. Busy(d) /\ Framed(d)
  BY <1>2 DEF Good, Busy, Framed
<1>6. Veiled(d, w)
  BY <1>2 DEF Good, Veiled
<1>. QED
  BY <1>1, <1>2, <1>3, <1>4, <1>5, <1>6 DEF Good, Fine

\* tls_feed_encrypted during the handshake.
LEMMA Feeding ==
    ASSUME NEW w, NEW c, Good(c, w), c.tls = "handshake", NEW ops \in Ops \X (Ops \cup {"end"}),
           NEW d \in FeedHandshake(c, ops)
    PROVE  Good(d, w)
<1>. DEFINE g == IF c.flights < MaxFlights THEN [c EXCEPT !.tlsOut = Append(@, Handshake), !.flights = @ + 1] ELSE c
<1>1. Good(g, w) /\ g.tls = "handshake"
  <2>1. CASE c.flights < MaxFlights
    BY <2>1, Answering
  <2>2. CASE ~(c.flights < MaxFlights)
    BY <2>2
  <2>. QED
    BY <2>1, <2>2
<1>2. d \in {c, g, ConnBeginClose(c), ConnBeginClose(g)} \/ d \in ProcessRx([g EXCEPT !.tls = "ready"], ops)
  BY DEF FeedHandshake
<1>. HIDE DEF g
<1>3. CASE d \in {c, g, ConnBeginClose(c), ConnBeginClose(g)}
  BY <1>1, <1>3, Closing
<1>4. CASE d \in ProcessRx([g EXCEPT !.tls = "ready"], ops)
  <2>1. Fine([g EXCEPT !.tls = "ready"], w)
    BY <1>1, Readying
  <2>. QED
    BY <1>4, <2>1, Processing DEF Fine
<1>. QED
  BY <1>2, <1>3, <1>4

\* tls_start, once INFO was written.
LEMMA Starting ==
    ASSUME NEW w, NEW c, Good(c, w), c.tls = "info", c.out = <<>>, NEW d \in TlsStart(c)
    PROVE  Good(d, w) /\ Settled(d)
<1>. DEFINE g == [c EXCEPT !.tls = "handshake", !.reading = TRUE]
<1>1. c \in ConnType /\ w \in Seq(StreamItem)
  BY DEF Good
<1>2. c.tlsPlain = <<>> /\ ~c.subscribed
  BY DEF Good, Upgrade
<1>3. /\ g \in ConnType /\ (g.closing <=> c.closing) /\ (g.writePending <=> c.writePending) /\ g.tls = "handshake"
      /\ g.out = c.out /\ g.inFlight = c.inFlight /\ g.tlsPlain = c.tlsPlain /\ g.tlsOut = c.tlsOut /\ g.produced = c.produced
      /\ ~g.subscribed /\ g.flightFraming = c.flightFraming /\ g.outFraming = c.outFraming
  BY <1>1, <1>2 DEF ConnType
<1>4. d = ConnBeginClose(c) \/ d \in KickAll({g, ConnBeginClose(g)})
  BY DEF TlsStart, DriveHandshake
<1>. HIDE DEF g
<1>5. Good(g, w)
  <2>1. Ordered(g, w)
    <3>1. Stream(g, w) = Stream(c, w)
      BY <1>3 DEF Stream
    <3>. QED
      BY <1>3, <3>1 DEF Good, Ordered
  <2>2. Upgrade(g)
    BY <1>2, <1>3 DEF Upgrade
  <2>3. Busy(g) /\ Framed(g)
    BY <1>3 DEF Good, Busy, Framed
  <2>4. Veiled(g, w)
    BY <1>3 DEF Good, Veiled
  <2>. QED
    BY <1>1, <1>3, <2>1, <2>2, <2>3, <2>4 DEF Good
<1>6. CASE d = ConnBeginClose(c)
  BY <1>6, Closing DEF Settled
<1>7. CASE d \in KickAll({g, ConnBeginClose(g)})
  <2>1. \A e \in {g, ConnBeginClose(g)} : Good(e, w)
    BY <1>5, Closing
  <2>. QED
    BY <1>7, <2>1, KickingAll
<1>. QED
  BY <1>4, <1>6, <1>7

-----------------------------------------------------------------------------
(* Completed writes.                                                       *)

\* The whole buffer was written.
LEMMA Writing ==
    ASSUME NEW w, NEW c, Good(c, w), c.writePending, ~c.closing
    PROVE  /\ Good(Written(c), w \o c.inFlight) /\ Written(c).tls = c.tls
           /\ Written(c).tls = "info" => Written(c).out = <<>>
<1>. DEFINE d == Written(c)
            z == w \o c.inFlight
<1>1. c \in ConnType /\ w \in Seq(StreamItem) /\ c.inFlight \in Seq(StreamItem)
  BY DEF Good, ConnType
<1>2. z \in Seq(StreamItem) /\ Items(z) = Join(Items(w), Items(c.inFlight))
  BY <1>1, ItemsConcat DEF Join
<1>3. c.tls # "off" => Hidden(z)
  BY <1>1, HiddenConcat DEF Good, Veiled
<1>4. /\ d \in ConnType /\ ~d.closing /\ ~d.writePending /\ d.tls = c.tls /\ d.out = c.out /\ d.inFlight = <<>>
      /\ d.tlsPlain = c.tlsPlain /\ d.tlsOut = c.tlsOut /\ d.produced = c.produced /\ (d.subscribed <=> c.subscribed)
      /\ d.flightFraming = 0 /\ d.outFraming = c.outFraming
  <2>. DEFINE n == <<>>
              g == [c EXCEPT !.inFlight = n, !.flightFraming = 0, !.writePending = FALSE]
  <2>1. n \in Seq(StreamItem) /\ d = g
    BY DEF Written
  <2>. HIDE DEF n
  <2>2. /\ g \in ConnType /\ ~g.closing /\ ~g.writePending /\ g.tls = c.tls /\ g.out = c.out /\ g.inFlight = n
        /\ g.tlsPlain = c.tlsPlain /\ g.tlsOut = c.tlsOut /\ g.produced = c.produced /\ (g.subscribed <=> c.subscribed)
        /\ g.flightFraming = 0 /\ g.outFraming = c.outFraming
    BY <1>1, <2>1 DEF ConnType
  <2>. QED
    BY <2>1, <2>2 DEF n
<1>5. Sent(Items(z), d.produced)
  BY <1>2, <1>4 DEF Good, Ordered, Join
<1>. HIDE DEF d, z
<1>6. Stream(d, z) = Stream(c, w)
  <2>. DEFINE a == Items(w)
              b == Items(c.inFlight)
              f == Items(c.tlsOut)
              p == c.tlsPlain
              q == c.out
  <2>1. a \in Seq(Nat) /\ b \in Seq(Nat) /\ f \in Seq(Nat) /\ p \in Seq(Nat) /\ q \in Seq(Nat)
    BY <1>1, StreamType
  <2>2. Stream(c, w) = Layers(a, b, f, p, q)
    BY <1>1, StreamType
  <2>3. Stream(d, z) = Layers(Join(a, b), <<>>, f, p, q)
    <3>1. Stream(d, z) = Layers(Items(z), Items(d.inFlight), Items(d.tlsOut), d.tlsPlain, d.out)
      BY <1>2, <1>4, StreamType
    <3>2. Items(d.inFlight) = <<>>
      BY <1>4, ItemsEnds
    <3>. QED
      BY <1>2, <1>4, <3>1, <3>2
  <2>. HIDE DEF a, b, f, p, q
  <2>. QED
    BY <2>1, <2>2, <2>3, PartsMove
<1>7. Ordered(d, z)
  BY <1>4, <1>5, <1>6 DEF Good, Ordered
<1>8. Upgrade(d) /\ (d.tls = "info" => d.out = <<>>)
  BY <1>4 DEF Good, Upgrade
<1>9. Busy(d) /\ Framed(d)
  <2>1. Len(<<>>) = 0 /\ 0 <= Over(0)
    BY Overs
  <2>. QED
    BY <1>4, <2>1 DEF Good, Busy, Framed
<1>10. Veiled(d, z)
  BY <1>3, <1>4, ItemsEnds DEF Good, Veiled
<1>11. Good(d, z)
  BY <1>2, <1>4, <1>7, <1>8, <1>9, <1>10 DEF Good
<1>. QED
  BY <1>4, <1>8, <1>11 DEF d, z

\* A part of the buffer was written, and no more will be.
LEMMA Failing ==
    ASSUME NEW w, NEW c, Good(c, w), c.writePending, NEW k \in 0 .. Len(c.inFlight)
    PROVE  /\ Good(ConnBeginClose([c EXCEPT !.writePending = FALSE]), w \o SubSeq(c.inFlight, 1, k))
           /\ ConnBeginClose([c EXCEPT !.writePending = FALSE]).closing
<1>. DEFINE e == [c EXCEPT !.writePending = FALSE]
            d == ConnBeginClose(e)
            s == c.inFlight
            x == SubSeq(s, 1, k)
            y == SubSeq(s, k + 1, Len(s))
            z == w \o x
<1>1. c \in ConnType /\ w \in Seq(StreamItem) /\ s \in Seq(StreamItem) /\ c.produced \in Nat
  BY DEF Good, ConnType
<1>2. /\ d \in ConnType /\ d.closing /\ ~d.writePending /\ d.tls = c.tls /\ d.out = c.out /\ d.inFlight = c.inFlight
      /\ d.tlsPlain = c.tlsPlain /\ d.tlsOut = c.tlsOut /\ d.produced = c.produced /\ (d.subscribed => c.subscribed)
  BY <1>1 DEF ConnType, ConnBeginClose
<1>3. x \in Seq(StreamItem) /\ y \in Seq(StreamItem) /\ Len(x) = k
  BY <1>1
<1>4. \A i \in 1 .. k : x[i] = s[i] /\ i \in 1 .. Len(s)
  BY <1>1
<1>5. x \o y = s
  <2>1. 1 \in 1 .. Len(s) + 1 /\ k \in 1 - 1 .. Len(s) /\ Len(s) \in k .. Len(s)
    BY <1>1
  <2>2. x \o y = SubSeq(s, 1, Len(s))
    BY <1>1, <2>1, ConcatAdjacentSubSeq
  <2>. QED
    BY <1>1, <2>2, SubSeqFull
<1>. HIDE DEF d, e, s, x, y
<1>6. z \in Seq(StreamItem) /\ Items(z) = Join(Items(w), Items(x)) /\ Items(s) = Join(Items(x), Items(y))
  <2>1. z \in Seq(StreamItem)
    BY <1>1, <1>3
  <2>2. Items(z) = Join(Items(w), Items(x))
    BY <1>1, <1>3, ItemsConcat DEF Join
  <2>3. Items(x \o y) = Items(x) \o Items(y)
    BY <1>3, ItemsConcat
  <2>. QED
    BY <1>5, <2>1, <2>2, <2>3 DEF Join
<1>. HIDE DEF z
<1>7. Sent(Items(z), c.produced)
  <2>. DEFINE a == Items(w)
              f == Items(x)
              g == Items(y)
              h == Items(z)
  <2>1. a \in Seq(Nat) /\ f \in Seq(Nat) /\ g \in Seq(Nat) /\ h \in Seq(Nat)
    BY <1>1, <1>3, <1>6, ItemsSeq
  <2>2. Sent(Join(a, Join(f, g)), c.produced)
    BY <1>6 DEF Good, Ordered, Join, s
  <2>3. h = Join(a, f)
    BY <1>6
  <2>. HIDE DEF a, f, g, h
  <2>4. Join(Join(a, f), g) = Join(a, Join(f, g))
    BY <2>1, JoinAssoc
  <2>5. Sent(Join(h, g), c.produced)
    BY <2>2, <2>3, <2>4
  <2>6. Sent(h, c.produced)
    BY <1>1, <2>1, <2>5, SentPrefix DEF Join
  <2>. QED
    BY <2>6 DEF h
<1>8. c.tls # "off" => Hidden(z)
  <2>1. Hidden(s) => Hidden(x)
    BY <1>3, <1>4 DEF Hidden
  <2>. QED
    BY <1>1, <1>3, <2>1, HiddenConcat DEF Good, Veiled, s, z
<1>9. Ordered(d, z)
  BY <1>2, <1>7 DEF Ordered
<1>10. Upgrade(d)
  BY <1>2 DEF Good, Upgrade
<1>11. Busy(d) /\ Framed(d)
  BY <1>2 DEF Busy, Framed
<1>12. Veiled(d, z)
  BY <1>2, <1>8 DEF Good, Veiled
<1>13. Good(d, z)
  BY <1>2, <1>6, <1>9, <1>10, <1>11, <1>12 DEF Good
<1>. QED
  BY <1>2, <1>13 DEF d, e, z, x, s

\* write_cb after a successful write.
LEMMA After ==
    ASSUME NEW w, NEW c, Good(c, w), c.tls = "info" => c.out = <<>>, NEW d \in AfterWrite(c)
    PROVE  Good(d, w) /\ Settled(d)
<1>1. CASE c.tls = "info"
  BY <1>1, Starting DEF AfterWrite
<1>2. CASE c.tls = "handshake"
  <2>1. d \in KickAll({c, ConnBeginClose(c)})
    BY <1>2 DEF AfterWrite, DriveHandshake
  <2>2. \A e \in {c, ConnBeginClose(c)} : Good(e, w)
    BY Closing
  <2>. QED
    BY <2>1, <2>2, KickingAll
<1>3. CASE c.tls \notin {"info", "handshake"}
  <2>1. d \in KickWrite(c)
    BY <1>3 DEF AfterWrite
  <2>. QED
    BY <2>1, Kicking
<1>. QED
  BY <1>1, <1>2, <1>3

-----------------------------------------------------------------------------
(* The invariant.                                                          *)

\* mb_conn_create: a connection with INFO in out.
LEMMA Beginning ==
    ASSUME NEW tls \in BOOLEAN
    PROVE  Good(Fresh(tls), <<>>)
<1>. DEFINE c == Fresh(tls)
<1>1. /\ c \in ConnType /\ ~c.closing /\ ~c.writePending /\ ~c.subscribed /\ c.tls \in {"off", "info"}
      /\ c.out = <<1>> /\ c.inFlight = <<>> /\ c.tlsPlain = <<>> /\ c.tlsOut = <<>> /\ c.produced = 1
      /\ c.flightFraming = 0 /\ c.outFraming = 0
  BY AuthAssumption DEF Fresh, ConnType, StreamItem
<1>2. Stream(c, <<>>) = <<1>>
  <2>1. Stream(c, <<>>) = <<>> \o <<>> \o <<>> \o <<>> \o <<1>>
    BY <1>1, ItemsEnds DEF Stream
  <2>. QED
    BY <2>1
<1>. HIDE DEF c
<1>3. Whole(<<1>>, 1)
  BY DEF Whole, InOrder, UpTo, HasAll
<1>4. Sent(<<>>, 1) /\ Items(<<>>) = <<>> /\ Hidden(<<>>)
  BY ItemsEnds DEF Sent, InOrder, UpTo
<1>5. Ordered(c, <<>>)
  BY <1>1, <1>2, <1>3, <1>4 DEF Ordered
<1>6. Upgrade(c)
  BY <1>1 DEF Upgrade
<1>7. Busy(c) /\ Framed(c)
  <2>1. Len(<<>>) = 0 /\ 0 <= Over(0)
    BY Overs
  <2>. QED
    BY <1>1, <2>1 DEF Busy, Framed
<1>8. Veiled(c, <<>>)
  BY <1>1, <1>4 DEF Veiled
<1>9. <<>> \in Seq(StreamItem)
  OBVIOUS
<1>. QED
  BY <1>1, <1>5, <1>6, <1>7, <1>8, <1>9 DEF Good, c

\* A new connection satisfies the invariant.
LEMMA InitInv == ConnInit => Inv
<1>. SUFFICES ASSUME ConnInit PROVE Inv
  OBVIOUS
<1>1. PICK tls \in TLS : conn \in KickWrite(Fresh(tls)) \cup {ConnBeginClose(Fresh(tls))}
  BY DEF ConnInit
<1>2. tls \in BOOLEAN
  BY TLSAssumption
<1>3. Good(Fresh(tls), wire)
  BY <1>2, Beginning DEF ConnInit
<1>4. Good(conn, wire) /\ Settled(conn)
  <2>1. CASE conn \in KickWrite(Fresh(tls))
    BY <1>3, <2>1, Kicking
  <2>2. CASE conn = ConnBeginClose(Fresh(tls))
    BY <1>3, <2>2, Closing DEF Settled
  <2>. QED
    BY <1>1, <2>1, <2>2
<1>. QED
  BY <1>4 DEF Inv, ConnInit

\* Every callback preserves it.
LEMMA NextInv == Inv /\ [ConnNext]_connVars => Inv'
<1>. SUFFICES ASSUME Inv, [ConnNext]_connVars PROVE Inv'
  OBVIOUS
<1>1. Good(conn, wire) /\ Settled(conn) /\ serverClosing \in BOOLEAN
  BY DEF Inv
<1>. SUFFICES Good(conn', wire') /\ Settled(conn') /\ serverClosing' \in BOOLEAN
  BY DEF Inv, Good, ConnType, Upgrade, Busy, Framed, Over, Ordered, Veiled, Settled, Whole, Sent, Stream, Items,
         InOrder, UpTo, HasAll, Hidden, Pending
<1>2. CASE ReadCb
  <2>1. wire' = wire /\ serverClosing' = serverClosing
    BY <1>2 DEF ReadCb
  <2>2. PICK ops \in Ops \X (Ops \cup {"end"}) :
            conn' \in KickAll(IF conn.tls = "handshake" THEN FeedHandshake(conn, ops) ELSE ProcessRx(conn, ops))
    BY <1>2 DEF ReadCb
  <2>3. CASE conn.tls = "handshake"
    <3>1. \A c \in FeedHandshake(conn, ops) : Good(c, wire)
      BY <1>1, <2>3, Feeding
    <3>. QED
      BY <1>1, <2>1, <2>2, <2>3, <3>1, KickingAll
  <2>4. CASE conn.tls # "handshake"
    <3>1. Fine(conn, wire)
      BY <1>1, <1>2, <2>4 DEF ReadCb, Fine, Live, Good, ConnType
    <3>2. \A c \in ProcessRx(conn, ops) : Good(c, wire)
      BY <3>1, Processing DEF Fine
    <3>. QED
      BY <1>1, <2>1, <2>2, <2>4, <3>2, KickingAll
  <2>. QED
    BY <2>3, <2>4
<1>3. CASE ReadEnds
  BY <1>1, <1>3, Closing DEF ReadEnds, Settled
<1>4. CASE WriteCb
  <2>1. /\ conn.writePending /\ ~conn.closing /\ wire' = wire \o conn.inFlight /\ conn' \in AfterWrite(Written(conn))
        /\ serverClosing' = serverClosing
    BY <1>4 DEF WriteCb
  <2>2. Good(Written(conn), wire') /\ (Written(conn).tls = "info" => Written(conn).out = <<>>)
    BY <1>1, <2>1, Writing
  <2>. QED
    BY <1>1, <2>1, <2>2, After
<1>5. CASE WriteFails
  <2>1. PICK k \in 0 .. Len(conn.inFlight) : wire' = wire \o SubSeq(conn.inFlight, 1, k)
    BY <1>5 DEF WriteFails
  <2>2. conn.writePending /\ conn' = ConnBeginClose([conn EXCEPT !.writePending = FALSE]) /\ serverClosing' = serverClosing
    BY <1>5 DEF WriteFails
  <2>3. Good(conn', wire') /\ conn'.closing
    BY <1>1, <2>1, <2>2, Failing
  <2>. QED
    BY <1>1, <2>2, <2>3 DEF Settled
<1>6. CASE OtherPublish
  <2>1. conn.subscribed /\ conn' \in ConnDeliver(conn) /\ wire' = wire /\ serverClosing' = serverClosing
    BY <1>6 DEF OtherPublish
  <2>2. Fine(conn, wire)
    BY <1>1, <2>1 DEF Fine, Live, Good, Upgrade, ConnType
  <2>3. Fine(conn', wire) /\ Settled(conn')
    BY <2>1, <2>2, Delivering
  <2>. QED
    BY <1>1, <2>1, <2>3 DEF Fine
<1>7. CASE CloseCb
  <2>. DEFINE d == [conn EXCEPT !.freed = TRUE]
  <2>1. conn' = d /\ conn.closing /\ wire' = wire /\ serverClosing' = serverClosing
    BY <1>7 DEF CloseCb
  <2>2. conn \in ConnType
    BY <1>1 DEF Good
  <2>3. /\ d \in ConnType /\ d.tls = conn.tls /\ (d.closing <=> conn.closing) /\ (d.writePending <=> conn.writePending)
        /\ d.out = conn.out /\ d.inFlight = conn.inFlight /\ d.tlsPlain = conn.tlsPlain /\ d.tlsOut = conn.tlsOut
        /\ d.produced = conn.produced /\ (d.subscribed => conn.subscribed)
        /\ d.flightFraming = conn.flightFraming /\ d.outFraming = conn.outFraming
    BY <2>2 DEF ConnType
  <2>. HIDE DEF d
  <2>4. Good(d, wire)
    BY <1>1, <2>3, Unmoved
  <2>. QED
    BY <1>1, <2>1, <2>3, <2>4 DEF Settled
<1>8. CASE OnSignal
  BY <1>1, <1>8 DEF OnSignal
<1>9. CASE ServerClose
  BY <1>1, <1>9, Closing DEF ServerClose, Settled
<1>10. CASE Done
  BY <1>1, <1>10 DEF Done, connVars
<1>11. CASE UNCHANGED connVars
  BY <1>1, <1>11 DEF connVars
<1>. QED
  BY <1>2, <1>3, <1>4, <1>5, <1>6, <1>7, <1>8, <1>9, <1>10, <1>11 DEF ConnNext

\* The inductive invariant of conn.c: what Good and Settled say of a connection holds
\* between any two callbacks.
THEOREM Invariance == ConnSpec => []Inv
  BY InitInv, NextInv, PTL DEF ConnSpec

\* Type correctness of module Conn.
THEOREM TypeCorrect == ConnSpec => []ConnTypeOK
<1>1. Inv => ConnTypeOK
  BY DEF Inv, Good, ConnTypeOK
<1>. QED
  BY <1>1, Invariance, PTL

\* The client's byte stream is what was appended, once and in order, through write_cb, the
\* partial encryptions and the TLS upgrade; after a close it is a prefix; and with TLS only
\* INFO and the handshake leave in the clear.
THEOREM StreamIsIntact == ConnSpec => []StreamIntact
<1>1. Inv => StreamIntact
  BY DEF Inv, Good, Ordered, Veiled, Whole, Sent, StreamIntact
<1>. QED
  BY <1>1, Invariance, PTL

\* Between callbacks an open connection holds at most MB_MAX_PENDING and what TLS added to the
\* write in flight, which is bounded by what that write carries: close_if_slow_consumer measures
\* all four buffers on every path that appends, before anything is encrypted.
THEOREM PendingIsBounded == ConnSpec => []PendingBounded
<1>1. Inv => PendingBounded
  BY DEF Inv, Good, Framed, Over, Settled, PendingBounded
<1>. QED
  BY <1>1, Invariance, PTL

\* No output waits without a write that will take it along, unless OpenSSL keeps it back:
\* every callback that appends or completes a write ends in mb_conn_kick_write.
THEOREM OutputNotStalled == ConnSpec => []NoStalledOutput
<1>1. Inv => NoStalledOutput
  BY DEF Inv, Settled, NoStalledOutput
<1>. QED
  BY <1>1, Invariance, PTL

-----------------------------------------------------------------------------
(* Numbers and recursion.                                                  *)

\* Every set of numbers that is not empty has a least one.
LEMMA LeastNumber ==
  ASSUME NEW P, P \subseteq Nat, P # {}
  PROVE  \E m \in P : \A k \in P : ~(k < m)
<1>1. \E x \in P : \A y \in P : ~ (<<y, x>> \in OpToRel(<,Nat))
  BY NatLessThanWellFounded, WFMin
<1> QED BY <1>1 DEF OpToRel

\* Induction, over a set of numbers.
LEMMA Induction ==
  ASSUME NEW P, NEW N \in Nat, 0 \in P, \A n \in 1 .. N : n - 1 \in P => n \in P
  PROVE  0 .. N \subseteq P
<1>1. SUFFICES ASSUME (0 .. N) \ P # {} PROVE FALSE
  OBVIOUS
<1>2. PICK m \in (0 .. N) \ P : \A k \in (0 .. N) \ P : ~(k < m)
  <2>1. (0 .. N) \ P \subseteq Nat
    OBVIOUS
  <2> QED BY <1>1, <2>1, LeastNumber, Zenon
<1>3. m \in 1 .. N /\ m - 1 \in 0 .. N /\ m - 1 < m
  BY <1>2
<1> QED BY <1>2, <1>3

\* LineLen is the number of bytes before the first "\n".
LEMMA LineLenProps ==
  ASSUME NEW S, NEW b \in Seq(S)
  PROVE  /\ LineLen(b) \in 0 .. Len(b)
         /\ \A i \in 1 .. LineLen(b) : b[i] # "LF"
         /\ LineLen(b) < Len(b) => b[LineLen(b) + 1] = "LF"
<1> DEFINE I == {i \in 1 .. Len(b) : b[i] = "LF"}
<1>1. Len(b) \in Nat /\ DOMAIN b = 1 .. Len(b)
  OBVIOUS
<1>2. "LF" \in ToSet(b) <=> I # {}
  BY <1>1 DEF ToSet
<1>3. CASE I = {}
  <2>1. LineLen(b) = Len(b)
    BY <1>2, <1>3 DEF LineLen
  <2> QED BY <1>1, <1>3, <2>1
<1>4. CASE I # {}
  <2>1. PICK z \in I : \A k \in I : ~(k < z)
    <3>1. I \subseteq Nat
      OBVIOUS
    <3> HIDE DEF I
    <3> QED BY <1>4, <3>1, LeastNumber
  <2>2. \E x \in I : \A y \in I : x =< y
    BY <2>1
  <2>3. Min(I) \in I /\ \A y \in I : Min(I) =< y
    <3> HIDE DEF I
    <3> QED BY <2>2 DEF Min
  <2>4. LineLen(b) = Min(I) - 1
    <3>1. SelectInSeq(b, LAMBDA c : c = "LF") = Min(I)
      BY <1>4 DEF SelectInSeq
    <3> QED BY <1>2, <1>4, <3>1 DEF LineLen
  <2> DEFINE m == Min(I)
  <2>5. m \in 1 .. Len(b) /\ b[m] = "LF" /\ \A y \in I : m =< y
    BY <2>3
  <2>6. LineLen(b) = m - 1
    BY <2>4
  <2> HIDE DEF m
  <2> QED BY <1>1, <2>5, <2>6
<1> QED BY <1>3, <1>4

\* What a concatenation has of its left part.
LEMMA Concat ==
  ASSUME NEW S, NEW b \in Seq(S), NEW x \in Seq(S)
  PROVE  /\ b \o x \in Seq(S) /\ Len(b \o x) = Len(b) + Len(x) /\ Len(b) \in Nat /\ Len(x) \in Nat
         /\ \A i \in 1 .. Len(b) : (b \o x)[i] = b[i]
         /\ \A m \in Nat, n \in 0 .. Len(b) : m >= 1 => SubSeq(b \o x, m, n) = SubSeq(b, m, n)
OBVIOUS

\* And what follows a position of it.
LEMMA ConcatRest ==
  ASSUME NEW S, NEW b \in Seq(S), NEW x \in Seq(S), NEW k \in 1 .. Len(b) + 1
  PROVE  SubSeq(b \o x, k, Len(b \o x)) = SubSeq(b, k, Len(b)) \o x
<1> DEFINE l == SubSeq(b \o x, k, Len(b \o x))
           m == SubSeq(b, k, Len(b))
           r == m \o x
<1>1. /\ b \o x \in Seq(S) /\ Len(b \o x) = Len(b) + Len(x) /\ Len(b) \in Nat /\ Len(x) \in Nat
      /\ \A i \in 1 .. Len(b) + Len(x) : (b \o x)[i] = IF i <= Len(b) THEN b[i] ELSE x[i - Len(b)]
  OBVIOUS
<1>2. l \in Seq(S) /\ Len(l) = Len(b) + Len(x) - k + 1 /\ \A i \in 1 .. Len(l) : l[i] = (b \o x)[k + i - 1]
  BY <1>1
<1>3. m \in Seq(S) /\ Len(m) = Len(b) - k + 1 /\ \A i \in 1 .. Len(m) : m[i] = b[k + i - 1]
  BY <1>1
<1>4. r \in Seq(S) /\ Len(r) = Len(m) + Len(x)
      /\ \A i \in 1 .. Len(m) + Len(x) : r[i] = IF i <= Len(m) THEN m[i] ELSE x[i - Len(m)]
  BY <1>3
<1> HIDE DEF l, m, r
<1>5. Len(l) = Len(r)
  BY <1>1, <1>2, <1>3, <1>4
<1>6. ASSUME NEW i \in 1 .. Len(l) PROVE l[i] = r[i]
  <2>1. k + i - 1 \in 1 .. Len(b) + Len(x) /\ i \in 1 .. Len(m) + Len(x)
    BY <1>1, <1>2, <1>3
  <2>2. l[i] = IF k + i - 1 <= Len(b) THEN b[k + i - 1] ELSE x[k + i - 1 - Len(b)]
    BY <1>1, <1>2, <2>1
  <2>3. CASE i <= Len(m)
    BY <1>1, <1>3, <1>4, <2>1, <2>2, <2>3
  <2>4. CASE ~(i <= Len(m))
    <3>1. i - Len(m) = k + i - 1 - Len(b)
      BY <1>1, <1>3
    <3> QED BY <1>1, <1>3, <1>4, <2>1, <2>2, <2>4, <3>1
  <2> QED BY <2>3, <2>4
<1>7. l = r
  BY <1>2, <1>4, <1>5, <1>6, SeqEqual
<1> QED BY <1>7 DEF l, r, m

\* More bytes do not move the end of a line.
LEMMA LineLenExtends ==
  ASSUME NEW S, NEW b \in Seq(S), NEW x \in Seq(S)
  PROVE  /\ LineLen(b) < Len(b) => LineLen(b \o x) = LineLen(b)
         /\ LineLen(b) = Len(b) => LineLen(b \o x) >= Len(b)
<1> DEFINE m == LineLen(b)
           n == LineLen(b \o x)
           bx == b \o x
<1>1. bx \in Seq(S) /\ Len(bx) = Len(b) + Len(x) /\ Len(b) \in Nat /\ Len(x) \in Nat
      /\ \A i \in 1 .. Len(b) : bx[i] = b[i]
  BY Concat
<1>2. m \in 0 .. Len(b) /\ (\A i \in 1 .. m : b[i] # "LF") /\ (m < Len(b) => b[m + 1] = "LF")
  BY LineLenProps
<1>3. n \in 0 .. Len(bx) /\ (\A i \in 1 .. n : bx[i] # "LF") /\ (n < Len(bx) => bx[n + 1] = "LF")
  BY <1>1, LineLenProps
<1> HIDE DEF m, n, bx
<1>4. m < Len(b) => n = m
  <2>1. SUFFICES ASSUME m < Len(b) PROVE n = m
    OBVIOUS
  <2>2. ~(n > m)
    <3>1. bx[m + 1] = "LF"
      BY <1>1, <1>2, <2>1
    <3> QED BY <1>2, <1>3, <3>1
  <2>3. ~(n < m)
    BY <1>1, <1>2, <1>3
  <2> QED BY <1>2, <1>3, <2>2, <2>3
<1>5. m = Len(b) => n >= Len(b)
  BY <1>1, <1>2, <1>3
<1> QED BY <1>4, <1>5 DEF m, n, bx

\* g is the recursive function of 0 .. N with g[0] = s0 whose n-th value F gives from the one before.
IsRun(g, N, s0, F) == g = [n \in 0 .. N |-> IF n = 0 THEN s0 ELSE F[<<n, g[n - 1]>>]]

\* There is one, if F leads from every value in T[n - 1] to one in T[n].
LEMMA Recursion ==
  ASSUME NEW N \in Nat, NEW T, NEW F, NEW s0 \in T[0],
         \A n \in 1 .. N : \A s \in T[n - 1] : F[<<n, s>>] \in T[n]
  PROVE  \E g : IsRun(g, N, s0, F) /\ \A n \in 0 .. N : g[n] \in T[n]
<1> DEFINE Runs(g, m) == /\ g = [n \in 0 .. m |-> IF n = 0 THEN s0 ELSE F[<<n, g[n - 1]>>]]
                         /\ \A n \in 0 .. m : g[n] \in T[n]
           P == {m \in Nat : \E g : Runs(g, m)}
<1>1. 0 \in P
  <2>1. Runs([n \in 0 .. 0 |-> s0], 0)
    OBVIOUS
  <2> QED BY <2>1
<1>2. ASSUME NEW m \in 1 .. N, m - 1 \in P PROVE m \in P
  <2>1. PICK g : Runs(g, m - 1)
    BY <1>2
  <2> DEFINE h == [n \in 0 .. m |-> IF n = m THEN F[<<m, g[m - 1]>>] ELSE g[n]]
  <2>2. \A n \in 0 .. m - 1 : g[n] = (IF n = 0 THEN s0 ELSE F[<<n, g[n - 1]>>]) /\ g[n] \in T[n]
    <3> HIDE DEF P
    <3> QED BY <2>1
  <2>3. \A n \in 0 .. m - 1 : n \in 0 .. m /\ n # m /\ (n # 0 => n - 1 \in 0 .. m - 1) /\ h[n] = g[n]
    OBVIOUS
  <2>4. h[m] = F[<<m, g[m - 1]>>] /\ m # 0 /\ m - 1 \in 0 .. m - 1
    OBVIOUS
  <2> HIDE DEF Runs, P
  <2>5. h = [n \in 0 .. m |-> IF n = 0 THEN s0 ELSE F[<<n, h[n - 1]>>]]
    <3>1. SUFFICES ASSUME NEW n \in 0 .. m PROVE h[n] = IF n = 0 THEN s0 ELSE F[<<n, h[n - 1]>>]
      OBVIOUS
    <3> HIDE DEF h
    <3>2. CASE n = m
      BY <2>3, <2>4, <3>2
    <3>3. CASE n # m
      <4>1. n \in 0 .. m - 1
        BY <3>3
      <4> QED BY <2>2, <2>3, <4>1
    <3> QED BY <3>2, <3>3
  <2>6. ASSUME NEW n \in 0 .. m PROVE h[n] \in T[n]
    <3> HIDE DEF h
    <3>1. CASE n = m
      BY <2>2, <2>4, <3>1
    <3>2. CASE n # m
      <4>1. n \in 0 .. m - 1
        BY <3>2
      <4> QED BY <2>2, <2>3, <4>1
    <3> QED BY <3>1, <3>2
  <2>7. Runs(h, m)
    BY <2>5, <2>6 DEF Runs
  <2> HIDE DEF h
  <2> QED BY <2>7 DEF P
<1> HIDE DEF Runs
<1>3. N \in P
  <2> HIDE DEF P
  <2>1. 0 .. N \subseteq P
    BY <1>1, <1>2, Induction
  <2> QED BY <2>1
<1> QED BY <1>3 DEF Runs, IsRun

\* An induction over the values of a function of 0 .. N.
LEMMA Stays ==
  ASSUME NEW N \in Nat, NEW T, NEW h, h[0] \in T[0], \A n \in 1 .. N : h[n - 1] \in T[n - 1] => h[n] \in T[n]
  PROVE  \A n \in 0 .. N : h[n] \in T[n]
<1> DEFINE P == {n \in 0 .. N : h[n] \in T[n]}
<1>1. 0 \in P
  OBVIOUS
<1>2. \A n \in 1 .. N : n - 1 \in P => n \in P
  OBVIOUS
<1>3. 0 .. N \subseteq P
  <2> HIDE DEF P
  <2> QED BY <1>1, <1>2, Induction
<1> QED BY <1>3

-----------------------------------------------------------------------------
(* Tokens and numbers.                                                     *)

\* f holds the tokens of every beginning of s.
IsScan(f, S, s) ==
    /\ f \in [0 .. Len(s) -> Seq(Seq(S))]
    /\ f[0] = <<>>
    /\ \A n \in 1 .. Len(s) : f[n] = NextByte(f[n - 1], s, n)

\* What next_token has returned after n bytes.
Scanned(S, s, n) == {t \in Seq(Seq(S)) : n > 0 /\ s[n] \notin Blank => t # <<>>}

\* One more byte.
LEMMA NextByteKeeps ==
  ASSUME NEW S, NEW s \in Seq(S), NEW n \in 1 .. Len(s), NEW t \in Scanned(S, s, n - 1)
  PROVE  NextByte(t, s, n) \in Scanned(S, s, n)
<1>1. s[n] \in S /\ t \in Seq(Seq(S)) /\ (n - 1 > 0 /\ s[n - 1] \notin Blank => t # <<>>)
  BY DEF Scanned
<1>2. CASE s[n] \in Blank
  BY <1>1, <1>2 DEF NextByte, Scanned
<1>3. CASE s[n] \notin Blank /\ (n = 1 \/ s[n - 1] \in Blank)
  <2>1. NextByte(t, s, n) = Append(t, <<s[n]>>)
    BY <1>3 DEF NextByte
  <2> DEFINE new == <<s[n]>>
  <2>2. new \in Seq(S)
    BY <1>1
  <2> HIDE DEF new
  <2>3. Append(t, new) \in Seq(Seq(S)) /\ Append(t, new) # <<>>
    <3> DEFINE SS == Seq(S)
    <3>1. t \in Seq(SS) /\ new \in SS
      BY <1>1, <2>2
    <3> HIDE DEF SS
    <3>2. Append(t, new) \in Seq(SS) /\ Append(t, new) # <<>>
      BY <3>1, AppendProperties
    <3> QED BY <3>2 DEF SS
  <2> QED BY <2>1, <2>3 DEF Scanned, new
<1>4. CASE s[n] \notin Blank /\ ~(n = 1 \/ s[n - 1] \in Blank)
  <2>1. NextByte(t, s, n) = [t EXCEPT ![Len(t)] = Append(t[Len(t)], s[n])]
    BY <1>4 DEF NextByte
  <2>2. t # <<>> /\ Len(t) \in 1 .. Len(t) /\ Len(t) \in Nat
    BY <1>1, <1>4
  <2>3. t[Len(t)] \in Seq(S)
    BY <1>1, <2>2, ElementOfSeq
  <2>4. Append(t[Len(t)], s[n]) \in Seq(S)
    BY <1>1, <2>3
  <2>5. [t EXCEPT ![Len(t)] = Append(t[Len(t)], s[n])] \in Seq(Seq(S)) /\ Len([t EXCEPT ![Len(t)] = Append(t[Len(t)], s[n])]) = Len(t)
    BY <1>1, <2>2, <2>4, ExceptSeq
  <2> QED BY <1>1, <2>1, <2>2, <2>5 DEF Scanned
<1> QED BY <1>2, <1>3, <1>4

\* The tokens are the last of the scan.
LEMMA TokensScan ==
  ASSUME NEW S, NEW s \in Seq(S)
  PROVE  \E f : IsScan(f, S, s) /\ Tokens(s) = f[Len(s)]
<1> DEFINE N == Len(s)
           T == [n \in 0 .. N |-> Scanned(S, s, n)]
           F == [p \in (1 .. N) \X Seq(Seq(S)) |-> NextByte(p[2], s, p[1])]
<1>1. N \in Nat
  OBVIOUS
<1>2. ASSUME NEW n \in 1 .. N, NEW x \in Seq(Seq(S)) PROVE F[<<n, x>>] = NextByte(x, s, n)
  OBVIOUS
<1>3. ASSUME NEW n \in 1 .. N, NEW x \in T[n - 1]
      PROVE  F[<<n, x>>] \in T[n] /\ x \in Seq(Seq(S)) /\ NextByte(x, s, n) \in T[n]
  <2>1. T[n - 1] = Scanned(S, s, n - 1) /\ T[n] = Scanned(S, s, n)
    BY <1>1
  <2> HIDE DEF T, F
  <2>2. x \in Seq(Seq(S))
    BY <2>1 DEF Scanned
  <2>3. NextByte(x, s, n) \in Scanned(S, s, n)
    BY <2>1, NextByteKeeps DEF N
  <2> QED BY <1>2, <2>1, <2>2, <2>3
<1>4. <<>> \in T[0]
  BY <1>1 DEF Scanned
<1>5. PICK g : IsRun(g, N, <<>>, F) /\ \A n \in 0 .. N : g[n] \in T[n]
  <2> HIDE DEF T, F, N
  <2> QED BY <1>1, <1>3, <1>4, Recursion
<1>6. ASSUME NEW n \in 0 .. N PROVE T[n] \subseteq Seq(Seq(S))
  BY DEF Scanned
<1> HIDE DEF F, T, N
<1>7. g = [n \in 0 .. N |-> IF n = 0 THEN <<>> ELSE NextByte(g[n - 1], s, n)]
  <2>1. \A n \in 0 .. N : n # 0 => n \in 1 .. N /\ n - 1 \in 0 .. N
    BY <1>1
  <2>2. \A n \in 0 .. N : n # 0 => F[<<n, g[n - 1]>>] = NextByte(g[n - 1], s, n)
    BY <1>2, <1>5, <1>6, <2>1
  <2> QED BY <1>5, <2>2 DEF IsRun
<1>8. PICK h : h = [n \in 0 .. N |-> IF n = 0 THEN <<>> ELSE NextByte(h[n - 1], s, n)] /\ Tokens(s) = h[N]
  BY <1>7, Zenon DEF Tokens, N
<1>9. h[0] = <<>> /\ \A n \in 1 .. N : h[n] = NextByte(h[n - 1], s, n)
  BY <1>1, <1>8
<1>10. \A n \in 0 .. N : h[n] \in T[n]
  <2>1. h[0] \in T[0]
    BY <1>4, <1>9
  <2>2. ASSUME NEW n \in 1 .. N, h[n - 1] \in T[n - 1] PROVE h[n] \in T[n]
    BY <1>3, <1>9, <2>2
  <2> QED BY <1>1, <2>1, <2>2, Stays
<1>11. h \in [0 .. N -> Seq(Seq(S))]
  <2>1. \A n \in 0 .. N : h[n] \in Seq(Seq(S))
    BY <1>6, <1>10
  <2>2. h = [n \in 0 .. N |-> h[n]]
    BY <1>8
  <2> QED BY <2>1, <2>2
<1>12. IsScan(h, S, s)
  BY <1>9, <1>11 DEF IsScan, N
<1> QED BY <1>8, <1>12 DEF N

\* A digit and its value.
LEMMA ValueOfProps ==
  /\ ToSet(Digit) = {Digit[d] : d \in 1 .. 10}
  /\ \A c \in ToSet(Digit) : ValueOf(c) \in 0 .. 9 /\ Digit[ValueOf(c) + 1] = c
  /\ \A d \in 0 .. 9 : ValueOf(Digit[d + 1]) = d /\ Digit[d + 1] \in ToSet(Digit)
<1>1. ToSet(Digit) = {Digit[d] : d \in 1 .. 10}
  <2>1. DOMAIN Digit = 1 .. 10
    BY DEF Digit
  <2> QED BY <2>1 DEF ToSet
<1>2. ASSUME NEW c \in ToSet(Digit) PROVE ValueOf(c) \in 0 .. 9 /\ Digit[ValueOf(c) + 1] = c
  <2>1. \E d \in 1 .. 10 : Digit[d] = c
    BY <1>1, <1>2
  <2> DEFINE e == CHOOSE d \in 1 .. 10 : Digit[d] = c
  <2>2. e \in 1 .. 10 /\ Digit[e] = c
    BY <2>1
  <2>3. ValueOf(c) = e - 1
    BY DEF ValueOf
  <2> HIDE DEF e
  <2> QED BY <2>2, <2>3
<1>3. \A d, e \in 1 .. 10 : Digit[d] = Digit[e] => d = e
  BY DEF Digit
<1>4. ASSUME NEW d \in 0 .. 9 PROVE ValueOf(Digit[d + 1]) = d /\ Digit[d + 1] \in ToSet(Digit)
  <2>1. d + 1 \in 1 .. 10
    OBVIOUS
  <2>2. Digit[d + 1] \in ToSet(Digit)
    BY <1>1, <2>1
  <2>3. ValueOf(Digit[d + 1]) \in 0 .. 9 /\ Digit[ValueOf(Digit[d + 1]) + 1] = Digit[d + 1]
    BY <1>2, <2>2
  <2> DEFINE v == ValueOf(Digit[d + 1])
  <2>4. v \in 0 .. 9 /\ Digit[v + 1] = Digit[d + 1]
    BY <2>3
  <2> HIDE DEF v
  <2>5. v + 1 \in 1 .. 10
    BY <2>4
  <2>6. v + 1 = d + 1
    BY <1>3, <2>1, <2>4, <2>5
  <2>7. v = d
    BY <2>4, <2>6
  <2> QED BY <2>2, <2>7 DEF v
<1> QED BY <1>1, <1>2, <1>4

\* f holds the number of every beginning of s.
IsNumber(f, s) ==
    /\ f \in [0 .. Len(s) -> Nat \cup {-1}]
    /\ f[0] = 0
    /\ \A n \in 1 .. Len(s) : f[n] = AddDigit(f[n - 1], s[n])

\* A digit more.
LEMMA AddDigitType ==
  ASSUME NEW v \in Nat \cup {-1}, NEW c
  PROVE  AddDigit(v, c) \in Nat \cup {-1}
<1>1. CASE v = -1 \/ c \notin ToSet(Digit)
  BY <1>1 DEF AddDigit
<1>2. CASE v # -1 /\ c \in ToSet(Digit)
  <2> DEFINE d == ValueOf(c)
  <2>1. d \in 0 .. 9
    BY <1>2, ValueOfProps
  <2>2. AddDigit(v, c) = IF v > (SizeMax - d) \div 10 THEN -1 ELSE v * 10 + d
    BY <1>2 DEF AddDigit
  <2> HIDE DEF d
  <2>3. v * 10 + d \in Nat
    BY <1>2, <2>1
  <2> QED BY <2>2, <2>3
<1> QED BY <1>1, <1>2

\* parse_usize is the last of them.
LEMMA UsizeRun ==
  ASSUME NEW S, NEW s \in Seq(S)
  PROVE  \E f : IsNumber(f, s) /\ ParseUsize(s) = IF s = <<>> THEN -1 ELSE f[Len(s)]
<1> DEFINE N == Len(s)
           V == Nat \cup {-1}
           T == [n \in 0 .. N |-> V]
           F == [p \in (1 .. N) \X V |-> AddDigit(p[2], s[p[1]])]
<1>1. N \in Nat /\ 0 \in V
  OBVIOUS
<1>2. ASSUME NEW n \in 1 .. N, NEW x \in V PROVE F[<<n, x>>] = AddDigit(x, s[n]) /\ AddDigit(x, s[n]) \in V
  BY AddDigitType
<1> HIDE DEF V
<1>3. ASSUME NEW n \in 0 .. N PROVE T[n] = V
  OBVIOUS
<1> HIDE DEF N, T, F
<1>4. ASSUME NEW n \in 1 .. N, NEW x \in T[n - 1] PROVE F[<<n, x>>] \in T[n]
  <2>1. n \in 0 .. N /\ n - 1 \in 0 .. N
    BY <1>1
  <2> QED BY <1>2, <1>3, <2>1
<1>5. 0 \in T[0]
  BY <1>1, <1>3
<1>6. PICK g : IsRun(g, N, 0, F) /\ \A n \in 0 .. N : g[n] \in T[n]
  BY <1>1, <1>4, <1>5, Recursion
<1>7. g = [n \in 0 .. N |-> IF n = 0 THEN 0 ELSE AddDigit(g[n - 1], s[n])]
  <2>1. \A n \in 0 .. N : n # 0 => n \in 1 .. N /\ n - 1 \in 0 .. N
    BY <1>1
  <2>2. \A n \in 0 .. N : n # 0 => F[<<n, g[n - 1]>>] = AddDigit(g[n - 1], s[n])
    BY <1>2, <1>3, <1>6, <2>1
  <2> QED BY <1>6, <2>2 DEF IsRun
<1>8. PICK h : /\ h = [n \in 0 .. N |-> IF n = 0 THEN 0 ELSE AddDigit(h[n - 1], s[n])]
               /\ ParseUsize(s) = IF s = <<>> THEN -1 ELSE h[N]
  BY <1>7, Zenon DEF ParseUsize, N
<1>9. h[0] = 0 /\ \A n \in 1 .. N : h[n] = AddDigit(h[n - 1], s[n])
  BY <1>1, <1>8
<1>10. \A n \in 0 .. N : h[n] \in T[n]
  <2>1. h[0] \in T[0]
    BY <1>5, <1>9
  <2>2. ASSUME NEW n \in 1 .. N, h[n - 1] \in T[n - 1] PROVE h[n] \in T[n]
    <3>1. n \in 0 .. N /\ n - 1 \in 0 .. N
      BY <1>1
    <3> QED BY <1>2, <1>3, <1>9, <2>2, <3>1
  <2> QED BY <1>1, <2>1, <2>2, Stays
<1>11. h \in [0 .. N -> V]
  <2>1. \A n \in 0 .. N : h[n] \in V
    BY <1>3, <1>10
  <2>2. h = [n \in 0 .. N |-> h[n]]
    BY <1>8
  <2> QED BY <2>1, <2>2
<1>12. IsNumber(h, s)
  BY <1>9, <1>11 DEF IsNumber, N, V
<1> QED BY <1>8, <1>12 DEF N

\* The tokens of a line are byte sequences, and a number is one or -1.
LEMMA TokensType ==
  ASSUME NEW S, NEW s \in Seq(S)
  PROVE  /\ Tokens(s) \in Seq(Seq(S))
         /\ ParseUsize(s) \in Nat \cup {-1}
<1>1. PICK f : IsScan(f, S, s) /\ Tokens(s) = f[Len(s)]
  BY TokensScan
<1>2. PICK g : IsNumber(g, s) /\ ParseUsize(s) = IF s = <<>> THEN -1 ELSE g[Len(s)]
  BY UsizeRun
<1>3. Len(s) \in 0 .. Len(s)
  OBVIOUS
<1>4. Tokens(s) \in Seq(Seq(S))
  BY <1>1, <1>3 DEF IsScan
<1>5. ParseUsize(s) \in Nat \cup {-1}
  BY <1>2, <1>3 DEF IsNumber
<1> QED BY <1>4, <1>5

-----------------------------------------------------------------------------
(* What precedes a cut decides.                                            *)

\* The trailer of a payload, and the bytes that follow.
LEMMA TrailerExtends ==
  ASSUME NEW S, NEW t \in Seq(S), NEW x \in Seq(S), t # <<>>
  PROVE  /\ Trailer(t) \in {-1, 0, 1, 2}
         /\ Trailer(t) # 0 => Trailer(t \o x) = Trailer(t)
         /\ Trailer(t) \in {1, 2} => Trailer(t) <= Len(t)
         /\ Trailer(t) = 0 => Len(t) = 1
<1> DEFINE u == t \o x
<1>1. Len(t) \in Nat \ {0} /\ Len(x) \in Nat /\ Len(u) = Len(t) + Len(x) /\ u[1] = t[1]
  OBVIOUS
<1>2. Len(t) > 1 => u[2] = t[2]
  BY <1>1
<1> HIDE DEF u
<1>3. /\ Trailer(t) \in {-1, 0, 1, 2}
      /\ Trailer(t) # 0 => Trailer(u) = Trailer(t)
      /\ Trailer(t) \in {1, 2} => Trailer(t) <= Len(t)
      /\ Trailer(t) = 0 => Len(t) = 1
  <2>1. CASE t[1] = "LF"
    BY <1>1, <2>1 DEF Trailer
  <2>2. CASE t[1] # "LF" /\ t[1] # "CR"
    BY <1>1, <2>2 DEF Trailer
  <2>3. CASE t[1] = "CR" /\ Len(t) < 2
    <3>1. Trailer(t) = 0
      BY <2>3 DEF Trailer
    <3>2. Len(t) = 1
      <4> DEFINE m == Len(t)
      <4>1. m \in Nat \ {0} /\ m < 2
        BY <1>1, <2>3
      <4> HIDE DEF m
      <4>2. m = 1
        BY <4>1
      <4> QED BY <4>2 DEF m
    <3> QED BY <3>1, <3>2
  <2>4. CASE t[1] = "CR" /\ ~(Len(t) < 2)
    <3>1. u[2] = t[2] /\ ~(Len(u) < 2)
      BY <1>1, <1>2, <2>4
    <3> QED BY <1>1, <2>4, <3>1 DEF Trailer
  <2> QED BY <2>1, <2>2, <2>3, <2>4
<1> QED BY <1>3 DEF u

Refusals == {"invalid_args", "unknown"}

\* The outcome of a parse of b: an operation or a refusal takes up a part of b, and what
\* must wait for more is not longer than rx may become.
Outcome(r, b) ==
    /\ r.status \in {"ok", "need_more"} \cup Violations \cup Refusals
    /\ r.status = "ok" => r.consumed \in 1 .. Len(b)
    /\ r.status \in Refusals => LineLen(b) < Len(b)
    /\ r.status = "need_more" => Len(b) <= MaxRx

\* What parse_pub says of a buffer it also says of a longer one, unless it waits.
LEMMA PubExtends ==
  ASSUME NEW S, NEW b \in Seq(S), NEW x \in Seq(S), NEW args \in Seq(Seq(S)), args # <<>>,
         NEW lineEnd \in 1 .. Len(b), lineEnd <= MaxControlLine + 1, LineLen(b) < Len(b)
  PROVE  /\ Outcome(ParsePub(b, args, lineEnd), b)
         /\ ParsePub(b, args, lineEnd).status # "need_more" =>
               ParsePub(b \o x, args, lineEnd) = ParsePub(b, args, lineEnd)
<1> DEFINE n == Len(args)
           p == ParseUsize(args[n])
           tail == SubSeq(b, lineEnd + p + 1, Len(b))
           bx == b \o x
           longer == SubSeq(bx, lineEnd + p + 1, Len(bx))
           fine == n \in {2, 3} /\ p # -1 /\ \A i \in 1 .. n - 1 : SubjectValid(args[i], FALSE)
           op(s) == [kind |-> "pub", subject |-> args[1], replyTo |-> IF n = 3 THEN args[2] ELSE <<>>,
                     payload |-> s]
           payload(s) == SubSeq(s, lineEnd + 1, lineEnd + p)
<1>1. p \in Nat \cup {-1}
  <2>1. args[n] \in Seq(S)
    BY ElementOfSeq
  <2> QED BY <2>1, TokensType
<1>2. /\ bx \in Seq(S) /\ Len(bx) = Len(b) + Len(x) /\ Len(b) \in Nat /\ Len(x) \in Nat
      /\ {MaxControlLine, MaxPayload, RxSlack} \subseteq Nat
  BY Concat, ProtoAssumption
<1>3. ParsePub(b, args, lineEnd) =
        IF ~fine THEN Status("invalid_args")
        ELSE IF p > MaxPayload THEN Status("payload_too_large")
        ELSE IF Len(b) - lineEnd <= p \/ Trailer(tail) = 0 THEN Status("need_more")
        ELSE IF Trailer(tail) = -1 THEN Status("malformed")
        ELSE Ok(op(payload(b)), lineEnd + p + Trailer(tail))
  BY DEF ParsePub
<1>4. ParsePub(bx, args, lineEnd) =
        IF ~fine THEN Status("invalid_args")
        ELSE IF p > MaxPayload THEN Status("payload_too_large")
        ELSE IF Len(bx) - lineEnd <= p \/ Trailer(longer) = 0 THEN Status("need_more")
        ELSE IF Trailer(longer) = -1 THEN Status("malformed")
        ELSE Ok(op(payload(bx)), lineEnd + p + Trailer(longer))
  BY DEF ParsePub
<1> DEFINE enough == p \in Nat /\ Len(b) - lineEnd > p
<1>5. ASSUME enough
      PROVE  /\ tail \in Seq(S) /\ tail # <<>> /\ longer = tail \o x
             /\ Len(tail) = Len(b) - lineEnd - p /\ payload(bx) = payload(b)
  <2>1. lineEnd + p + 1 \in 1 .. Len(b) /\ lineEnd + p \in 0 .. Len(b) /\ lineEnd + 1 \in Nat /\ lineEnd + 1 >= 1
    BY <1>2, <1>5, SMTT(30)
  <2> DEFINE k == lineEnd + p + 1
             l == lineEnd + p
             j == lineEnd + 1
  <2> HIDE DEF k, l, j, p
  <2>2. k \in 1 .. Len(b) /\ l \in 0 .. Len(b) /\ j \in Nat /\ j >= 1
    BY <2>1 DEF k, l, j
  <2>3. SubSeq(bx, k, Len(bx)) = SubSeq(b, k, Len(b)) \o x
    BY <2>2, ConcatRest, SMTT(30)
  <2>4. SubSeq(bx, j, l) = SubSeq(b, j, l)
    BY <2>2, Concat
  <2>5. SubSeq(b, k, Len(b)) \in Seq(S) /\ Len(SubSeq(b, k, Len(b))) = Len(b) - k + 1
    BY <2>2
  <2>6. Len(b) - k + 1 = Len(b) - lineEnd - p /\ Len(b) - k + 1 > 0
    BY <1>2, <1>5, <2>2 DEF k
  <2>7. SubSeq(b, k, Len(b)) # <<>>
    <3> DEFINE q == SubSeq(b, k, Len(b))
    <3>1. Len(q) > 0
      BY <2>5, <2>6
    <3> HIDE DEF q
    <3>2. q # <<>>
      BY <3>1
    <3> QED BY <3>2 DEF q
  <2>8. Len(SubSeq(b, k, Len(b))) = Len(b) - lineEnd - p
    BY <2>5, <2>6
  <2> QED BY <2>3, <2>4, <2>5, <2>7, <2>8 DEF k, l, j
<1> HIDE DEF p, tail, bx, longer, fine, op, payload, n
<1>6. ASSUME enough
      PROVE  /\ Trailer(tail) \in {-1, 0, 1, 2} /\ (Trailer(tail) # 0 => Trailer(longer) = Trailer(tail))
             /\ Trailer(tail) \in {1, 2} => lineEnd + p + Trailer(tail) <= Len(b)
             /\ Trailer(tail) = 0 => Len(b) = lineEnd + p + 1
  <2>1. /\ Trailer(tail) \in {-1, 0, 1, 2} /\ (Trailer(tail) # 0 => Trailer(tail \o x) = Trailer(tail))
        /\ Trailer(tail) \in {1, 2} => Trailer(tail) <= Len(tail)
        /\ Trailer(tail) = 0 => Len(tail) = 1
    BY <1>5, <1>6, TrailerExtends
  <2> DEFINE v == Trailer(tail)
             m == Len(tail)
  <2>2. longer = tail \o x /\ m = Len(b) - lineEnd - p
    BY <1>5, <1>6
  <2>3. v # 0 => Trailer(longer) = v
    BY <2>1, <2>2
  <2>4. v \in {-1, 0, 1, 2} /\ (v \in {1, 2} => v <= m) /\ (v = 0 => m = 1)
    BY <2>1
  <2> HIDE DEF v, m
  <2>5. (v \in {1, 2} => lineEnd + p + v <= Len(b)) /\ (v = 0 => Len(b) = lineEnd + p + 1)
    BY <1>2, <1>6, <2>2, <2>4
  <2> QED BY <2>3, <2>4, <2>5 DEF v
<1>7. CASE ~fine
  BY <1>3, <1>4, <1>7 DEF Outcome, Status, Refusals, bx
<1>8. CASE fine /\ p > MaxPayload
  BY <1>3, <1>4, <1>8 DEF Outcome, Status, Violations, Refusals, bx
<1>9. CASE fine /\ ~(p > MaxPayload) /\ (Len(b) - lineEnd <= p \/ Trailer(tail) = 0)
  <2>1. ParsePub(b, args, lineEnd) = Status("need_more")
    BY <1>3, <1>9
  <2>2. p \in Nat
    BY <1>1, <1>9 DEF fine
  <2>3. Len(b) <= lineEnd + p + 1
    BY <1>2, <1>6, <1>9, <2>2
  <2>4. Len(b) <= MaxRx
    BY <1>2, <1>9, <2>2, <2>3, SlackAssumption DEF MaxRx
  <2> QED BY <2>1, <2>4 DEF Outcome, Status, Refusals, Violations
<1>10. CASE fine /\ ~(p > MaxPayload) /\ ~(Len(b) - lineEnd <= p \/ Trailer(tail) = 0)
  <2>1. p \in Nat
    BY <1>1, <1>10 DEF fine
  <2>2. enough
    BY <1>2, <1>10, <2>1
  <2>3. Trailer(longer) = Trailer(tail) /\ ~(Len(bx) - lineEnd <= p) /\ payload(bx) = payload(b)
    BY <1>2, <1>5, <1>6, <1>10, <2>1, <2>2
  <2>4. ParsePub(bx, args, lineEnd) = ParsePub(b, args, lineEnd)
    BY <1>3, <1>4, <1>10, <2>3
  <2>5. CASE Trailer(tail) = -1
    BY <1>3, <1>10, <2>4, <2>5 DEF Outcome, Status, Refusals, Violations, bx
  <2>6. CASE Trailer(tail) \in {1, 2}
    <3>1. ParsePub(b, args, lineEnd) = Ok(op(payload(b)), lineEnd + p + Trailer(tail))
      BY <1>3, <1>10, <2>6
    <3>2. lineEnd + p + Trailer(tail) \in 1 .. Len(b)
      BY <1>2, <1>6, <2>1, <2>2, <2>6, SMTT(30)
    <3> QED BY <2>4, <3>1, <3>2 DEF Outcome, Ok, Refusals, Violations, bx
  <2> QED BY <1>6, <1>10, <2>2, <2>5, <2>6
<1> QED BY <1>7, <1>8, <1>9, <1>10

\* ParseVerb looks at the rest of the buffer for a PUB only.
LEMMA VerbExtends ==
  ASSUME NEW S, NEW b \in Seq(S), NEW x \in Seq(S), NEW verb, NEW args \in Seq(Seq(S)),
         NEW lineEnd \in 1 .. Len(b), lineEnd <= MaxControlLine + 1, LineLen(b) < Len(b)
  PROVE  /\ Outcome(ParseVerb(b, verb, args, lineEnd), b)
         /\ ParseVerb(b, verb, args, lineEnd).status # "need_more" =>
               ParseVerb(b \o x, verb, args, lineEnd) = ParseVerb(b, verb, args, lineEnd)
<1>1. \A op : Outcome(Ok(op, lineEnd), b)
  BY DEF Outcome, Ok, Violations, Refusals
<1>2. Outcome(Status("invalid_args"), b) /\ Outcome(Status("unknown"), b)
  BY DEF Outcome, Status, Violations, Refusals
<1>3. CASE verb = <<"PING">>
  <2>1. \A y : ParseVerb(y, verb, args, lineEnd) = IF args = <<>> THEN Ok([kind |-> "ping"], lineEnd) ELSE Status("invalid_args")
    BY <1>3 DEF ParseVerb
  <2> QED BY <1>1, <1>2, <2>1
<1>4. CASE verb = <<"CONNECT">>
  <2>1. \A y : ParseVerb(y, verb, args, lineEnd) = Ok([kind |-> "connect", json |-> args], lineEnd)
    BY <1>4 DEF ParseVerb
  <2> QED BY <1>1, <2>1
<1>5. CASE verb = <<"SUB">>
  <2>1. \A y : ParseVerb(y, verb, args, lineEnd) = ParseSub(args, lineEnd)
    BY <1>5 DEF ParseVerb
  <2>2. Outcome(ParseSub(args, lineEnd), b)
    BY <1>1, <1>2 DEF ParseSub
  <2> QED BY <2>1, <2>2
<1>6. CASE verb = <<"UNSUB">>
  <2>1. \A y : ParseVerb(y, verb, args, lineEnd) = ParseUnsub(args, lineEnd)
    BY <1>6 DEF ParseVerb
  <2>2. Outcome(ParseUnsub(args, lineEnd), b)
    BY <1>1, <1>2 DEF ParseUnsub
  <2> QED BY <2>1, <2>2
<1>7. CASE verb = <<"PUB">>
  <2>1. \A y : ParseVerb(y, verb, args, lineEnd) = IF args = <<>> THEN Status("invalid_args") ELSE ParsePub(y, args, lineEnd)
    BY <1>7 DEF ParseVerb
  <2>2. CASE args = <<>>
    BY <1>2, <2>1, <2>2
  <2>3. CASE args # <<>>
    BY <2>1, <2>3, PubExtends
  <2> QED BY <2>2, <2>3
<1>8. CASE verb \notin {<<"PING">>, <<"CONNECT">>, <<"SUB">>, <<"UNSUB">>, <<"PUB">>}
  <2>1. \A y : ParseVerb(y, verb, args, lineEnd) = Status("unknown")
    BY <1>8 DEF ParseVerb
  <2> QED BY <1>2, <2>1
<1> QED BY <1>3, <1>4, <1>5, <1>6, <1>7, <1>8

\* What mb_parse_client_op finds in the beginning of a stream it finds whatever follows,
\* unless it asks for more.
LEMMA ParseExtends ==
  ASSUME NEW S, NEW b \in Seq(S), NEW x \in Seq(S)
  PROVE  /\ Outcome(ParseClientOp(b), b)
         /\ ParseClientOp(b).status # "need_more" => ParseClientOp(b \o x) = ParseClientOp(b)
<1> DEFINE bx == b \o x
           nl == LineLen(b)
           toks == LineTokens(b, nl)
<1>1. /\ bx \in Seq(S) /\ Len(bx) = Len(b) + Len(x) /\ Len(b) \in Nat /\ Len(x) \in Nat
      /\ \A i \in 1 .. Len(b) : bx[i] = b[i]
      /\ \A n \in 0 .. Len(b) : SubSeq(bx, 1, n) = SubSeq(b, 1, n)
  BY Concat
<1>2. nl \in 0 .. Len(b) /\ MaxControlLine \in Nat /\ MaxPayload \in Nat /\ RxSlack \in Nat
  BY LineLenProps, ProtoAssumption
<1>3. (nl < Len(b) => LineLen(bx) = nl) /\ (nl = Len(b) => LineLen(bx) >= Len(b)) /\ LineLen(bx) \in Nat
  <2>1. LineLen(bx) \in 0 .. Len(bx)
    BY <1>1, LineLenProps
  <2>2. LineLen(bx) \in Nat
    BY <1>1, <2>1
  <2> QED BY <2>2, LineLenExtends
<1>4. \A y : ParseClientOp(y) =
        IF LineLen(y) > MaxControlLine THEN Status("control_line_too_long")
        ELSE IF LineLen(y) = Len(y) THEN Status("need_more")
        ELSE IF LineTokens(y, LineLen(y)) = <<>> THEN Status("malformed")
        ELSE ParseVerb(y, Head(LineTokens(y, LineLen(y))), Tail(LineTokens(y, LineLen(y))), LineLen(y) + 1)
  BY DEF ParseClientOp
<1> HIDE DEF bx, nl, toks
<1>5. CASE nl > MaxControlLine
  <2>1. ParseClientOp(b) = Status("control_line_too_long")
    BY <1>4, <1>5 DEF nl
  <2>2. LineLen(bx) > MaxControlLine
    BY <1>1, <1>2, <1>3, <1>5
  <2>3. ParseClientOp(bx) = Status("control_line_too_long")
    BY <1>4, <2>2
  <2> QED BY <2>1, <2>3 DEF Outcome, Status, Violations, Refusals, bx
<1>6. CASE ~(nl > MaxControlLine) /\ nl = Len(b)
  <2>1. ParseClientOp(b) = Status("need_more")
    BY <1>4, <1>6 DEF nl
  <2>2. Len(b) <= MaxRx
    BY <1>2, <1>6 DEF MaxRx
  <2> QED BY <2>1, <2>2 DEF Outcome, Status, Violations, Refusals
<1>7. CASE ~(nl > MaxControlLine) /\ nl # Len(b)
  <2>1. nl < Len(b) /\ LineLen(bx) = nl /\ nl # Len(bx) /\ nl + 1 \in 1 .. Len(b) /\ nl + 1 <= MaxControlLine + 1
    BY <1>1, <1>2, <1>3, <1>7
  <2>2. LineTokens(bx, nl) = toks
    <3>1. nl > 0 => bx[nl] = b[nl]
      BY <1>1, <1>2
    <3> DEFINE m == IF nl > 0 /\ b[nl] = "CR" THEN nl - 1 ELSE nl
    <3>2. m \in 0 .. Len(b)
      BY <1>2
    <3> HIDE DEF m
    <3>3. SubSeq(bx, 1, m) = SubSeq(b, 1, m)
      BY <1>1, <3>2
    <3>4. LineTokens(bx, nl) = Tokens(SubSeq(bx, 1, m)) /\ toks = Tokens(SubSeq(b, 1, m))
      BY <3>1 DEF LineTokens, toks, m
    <3> QED BY <3>3, <3>4
  <2>3. toks \in Seq(Seq(S))
    <3> DEFINE m == IF nl > 0 /\ b[nl] = "CR" THEN nl - 1 ELSE nl
    <3>1. m \in 0 .. Len(b)
      BY <1>2
    <3>2. toks = Tokens(SubSeq(b, 1, m))
      BY DEF LineTokens, toks
    <3> HIDE DEF m
    <3>3. SubSeq(b, 1, m) \in Seq(S)
      BY <3>1
    <3> QED BY <3>2, <3>3, TokensType
  <2>4. CASE toks = <<>>
    <3>1. ParseClientOp(b) = Status("malformed") /\ ParseClientOp(bx) = Status("malformed")
      BY <1>4, <1>7, <2>1, <2>2, <2>4 DEF nl, toks
    <3> QED BY <3>1 DEF Outcome, Status, Violations, Refusals, bx
  <2>5. CASE toks # <<>>
    <3> DEFINE verb == Head(toks)
               args == Tail(toks)
    <3>1. ParseClientOp(b) = ParseVerb(b, verb, args, nl + 1)
      BY <1>4, <1>7, <2>5 DEF nl, toks
    <3>2. ParseClientOp(bx) = ParseVerb(bx, verb, args, nl + 1)
      BY <1>4, <1>7, <2>1, <2>2, <2>5
    <3>3. args \in Seq(Seq(S))
      <4> DEFINE SS == Seq(S)
      <4>1. toks \in Seq(SS)
        BY <2>3
      <4> HIDE DEF SS
      <4>2. Tail(toks) \in Seq(SS)
        BY <2>5, <4>1, HeadTailProperties
      <4> QED BY <4>2 DEF SS
    <3> HIDE DEF verb, args
    <3> DEFINE e == nl + 1
    <3>4. e \in 1 .. Len(b) /\ e <= MaxControlLine + 1 /\ LineLen(b) < Len(b)
      BY <2>1 DEF nl
    <3> HIDE DEF e
    <3>5. /\ Outcome(ParseVerb(b, verb, args, e), b)
          /\ ParseVerb(b, verb, args, e).status # "need_more" =>
               ParseVerb(b \o x, verb, args, e) = ParseVerb(b, verb, args, e)
      BY <3>3, <3>4, VerbExtends
    <3> QED BY <3>1, <3>2, <3>5 DEF e, bx
  <2> QED BY <2>4, <2>5
<1> QED BY <1>2, <1>5, <1>6, <1>7

-----------------------------------------------------------------------------
(* The loop of process_rx.                                                 *)

\* What the loop reports: operations and refusals.
Events(S) == {ParseClientOp(y).op : y \in Seq(S)} \cup {Status(t) : t \in Violations \cup Refusals}
Results(S) == [ops : Seq(Events(S)), rx : Seq(S), closed : BOOLEAN]

\* The three kinds of a turn with rest before it: it waits for more, it closes the
\* connection, or it reports something and goes on behind it.
Waits(rest) == rest = <<>> \/ ParseClientOp(rest).status = "need_more"
Closes(rest) == ~Waits(rest) /\ ParseClientOp(rest).status \in Violations
Event(rest) == IF ParseClientOp(rest).status = "ok" THEN ParseClientOp(rest).op ELSE Status(ParseClientOp(rest).status)
Stride(rest) == IF ParseClientOp(rest).status = "ok" THEN ParseClientOp(rest).consumed ELSE LineLen(rest) + 1

RestAt(rx, c) == SubSeq(rx, c + 1, Len(rx))

\* A result with an event before it.
AfterEvent(event, r) == [r EXCEPT !.ops = <<event>> \o @]

\* What is left behind a cursor.
LEMMA RestProps ==
  ASSUME NEW S, NEW rx \in Seq(S), NEW c \in 0 .. Len(rx)
  PROVE  RestAt(rx, c) \in Seq(S) /\ Len(RestAt(rx, c)) = Len(rx) - c /\ (RestAt(rx, c) = <<>> <=> c = Len(rx))
<1> DEFINE r == RestAt(rx, c)
<1>1. r \in Seq(S) /\ Len(r) = Len(rx) - c /\ Len(rx) \in Nat
  BY DEF RestAt
<1> HIDE DEF r
<1>2. r = <<>> <=> c = Len(rx)
  BY <1>1
<1> QED BY <1>1, <1>2 DEF r

\* Where a turn leads.
LEMMA TurnKinds ==
  ASSUME NEW S, NEW rx \in Seq(S), NEW c \in 0 .. Len(rx), NEW from, NEW rest, rest = RestAt(rx, c)
  PROVE  /\ Waits(rest) => RxTurn(rx, c, from) = [ops |-> <<>>, rx |-> rest, closed |-> FALSE]
         /\ Closes(rest) => /\ RxTurn(rx, c, from) = [ops |-> <<Event(rest)>>, rx |-> <<>>, closed |-> TRUE]
                            /\ Event(rest) \in Events(S)
         /\ ~Waits(rest) /\ ~Closes(rest) =>
               /\ RxTurn(rx, c, from) = AfterEvent(Event(rest), from[c + Stride(rest)])
               /\ Stride(rest) \in 1 .. Len(rx) - c
               /\ Event(rest) \in Events(S)
<1> DEFINE r == ParseClientOp(rest)
<1>1. rest \in Seq(S) /\ Len(rest) = Len(rx) - c /\ (rest = <<>> <=> c = Len(rx)) /\ Len(rx) \in Nat
  BY RestProps
<1>2. Outcome(r, rest)
  <2>1. <<>> \in Seq(S)
    OBVIOUS
  <2> QED BY <1>1, <2>1, ParseExtends
<1>3. LineLen(rest) \in 0 .. Len(rest)
  BY <1>1, LineLenProps
<1>4. r.op \in Events(S) /\ (r.status \in Violations \cup Refusals => Status(r.status) \in Events(S))
  BY <1>1 DEF Events
<1>5. RxTurn(rx, c, from) =
        IF rest = <<>> THEN [ops |-> <<>>, rx |-> <<>>, closed |-> FALSE]
        ELSE CASE r.status = "need_more" -> [ops |-> <<>>, rx |-> rest, closed |-> Len(rest) > MaxRx]
               [] r.status \in Violations -> [ops |-> <<Status(r.status)>>, rx |-> <<>>, closed |-> TRUE]
               [] r.status = "ok" -> AfterEvent(r.op, from[c + r.consumed])
               [] OTHER -> AfterEvent(Status(r.status), from[c + (LineLen(rest) + 1)])
  BY DEF RxTurn, RestAt, AfterEvent
<1> HIDE DEF r
<1>6. /\ r.status \in {"ok", "need_more"} \cup Violations \cup Refusals
      /\ r.status = "ok" => r.consumed \in 1 .. Len(rest)
      /\ r.status \in Refusals => LineLen(rest) < Len(rest)
      /\ r.status = "need_more" => Len(rest) <= MaxRx
  BY <1>2 DEF Outcome
<1>7. MaxRx \in Nat
  BY ProtoAssumption DEF MaxRx
<1>8. ASSUME Waits(rest) PROVE RxTurn(rx, c, from) = [ops |-> <<>>, rx |-> rest, closed |-> FALSE]
  <2>1. CASE rest = <<>>
    BY <1>5, <2>1
  <2>2. CASE rest # <<>>
    <3>1. r.status = "need_more"
      BY <1>8, <2>2 DEF Waits, r
    <3>2. (Len(rest) > MaxRx) = FALSE
      BY <1>1, <1>6, <1>7, <3>1
    <3>3. RxTurn(rx, c, from) = [ops |-> <<>>, rx |-> rest, closed |-> Len(rest) > MaxRx]
      BY <1>5, <2>2, <3>1 DEF Violations
    <3> QED BY <3>2, <3>3
  <2> QED BY <2>1, <2>2
<1>9. ASSUME Closes(rest)
      PROVE  /\ RxTurn(rx, c, from) = [ops |-> <<Event(rest)>>, rx |-> <<>>, closed |-> TRUE]
             /\ Event(rest) \in Events(S)
  <2>1. rest # <<>> /\ r.status # "need_more" /\ r.status \in Violations /\ r.status # "ok"
    BY <1>9 DEF Closes, Waits, r, Violations
  <2>2. Event(rest) = Status(r.status)
    BY <2>1 DEF Event, r
  <2>3. RxTurn(rx, c, from) = [ops |-> <<Status(r.status)>>, rx |-> <<>>, closed |-> TRUE]
    BY <1>5, <2>1
  <2> QED BY <1>4, <2>1, <2>2, <2>3
<1>10. ASSUME ~Waits(rest), ~Closes(rest)
       PROVE  /\ RxTurn(rx, c, from) = AfterEvent(Event(rest), from[c + Stride(rest)])
              /\ Stride(rest) \in 1 .. Len(rx) - c
              /\ Event(rest) \in Events(S)
  <2>1. rest # <<>> /\ r.status # "need_more" /\ r.status \notin Violations
    BY <1>10 DEF Closes, Waits, r
  <2>2. CASE r.status = "ok"
    <3>1. Event(rest) = r.op /\ Stride(rest) = r.consumed
      BY <2>2 DEF Event, Stride, r
    <3>2. RxTurn(rx, c, from) = AfterEvent(r.op, from[c + r.consumed])
      BY <1>5, <2>1, <2>2
    <3> QED BY <1>1, <1>4, <1>6, <2>2, <3>1, <3>2
  <2>3. CASE r.status # "ok"
    <3>1. Event(rest) = Status(r.status) /\ Stride(rest) = LineLen(rest) + 1
      BY <2>3 DEF Event, Stride, r
    <3>2. RxTurn(rx, c, from) = AfterEvent(Status(r.status), from[c + (LineLen(rest) + 1)])
      BY <1>5, <2>1, <2>3
    <3>3. r.status \in Refusals
      BY <1>6, <2>1, <2>3
    <3>4. LineLen(rest) + 1 \in 1 .. Len(rx) - c
      BY <1>1, <1>3, <1>6, <3>3
    <3> QED BY <1>4, <3>1, <3>2, <3>3, <3>4
  <2> QED BY <2>2, <2>3
<1> QED BY <1>8, <1>9, <1>10

\* Induction from N down.
LEMMA Descent ==
  ASSUME NEW P, NEW N \in Nat, \A c \in 0 .. N : (\A d \in c + 1 .. N : d \in P) => c \in P
  PROVE  0 .. N \subseteq P
<1> DEFINE Q == {n \in 0 .. N : N - n \notin P}
<1>1. SUFFICES ASSUME NEW c \in 0 .. N, c \notin P PROVE FALSE
  OBVIOUS
<1>2. N - c \in Q
  BY <1>1
<1>3. PICK m \in Q : \A k \in Q : ~(k < m)
  <2>1. Q \subseteq Nat
    OBVIOUS
  <2> HIDE DEF Q
  <2>2. Q # {}
    BY <1>2
  <2> QED BY <2>1, <2>2, LeastNumber
<1>4. N - m \in 0 .. N /\ N - m \notin P
  BY <1>3
<1>5. ASSUME NEW d \in (N - m) + 1 .. N PROVE d \in P
  <2>1. N - d \in 0 .. N /\ N - d < m /\ N - (N - d) = d
    BY <1>3, <1>5
  <2> QED BY <1>3, <2>1
<1> QED BY <1>4, <1>5

\* An event before a result.
LEMMA AfterProps ==
  ASSUME NEW S, NEW e \in Events(S), NEW r \in Results(S)
  PROVE  /\ AfterEvent(e, r) \in Results(S)
         /\ AfterEvent(e, r) = [ops |-> <<e>> \o r.ops, rx |-> r.rx, closed |-> r.closed]
<1> DEFINE E == Events(S)
           o == <<e>> \o r.ops
<1>1. r \in [ops : Seq(E), rx : Seq(S), closed : BOOLEAN]
  BY DEF Results
<1> HIDE DEF E
<1>2. o \in Seq(E)
  BY <1>1 DEF E
<1> HIDE DEF o
<1>3. [r EXCEPT !.ops = o] = [ops |-> o, rx |-> r.rx, closed |-> r.closed]
  BY <1>1
<1>4. AfterEvent(e, r) = [r EXCEPT !.ops = o]
  BY DEF AfterEvent, o
<1>5. [ops |-> o, rx |-> r.rx, closed |-> r.closed] \in [ops : Seq(E), rx : Seq(S), closed : BOOLEAN]
  BY <1>1, <1>2
<1> QED BY <1>3, <1>4, <1>5 DEF Results, E, o

\* A turn depends on the turns behind it only, and has a result if they do.
LEMMA TurnLocal ==
  ASSUME NEW S, NEW rx \in Seq(S), NEW c \in 0 .. Len(rx), NEW f, NEW g,
         \A d \in c + 1 .. Len(rx) : f[d] = g[d]
  PROVE  /\ RxTurn(rx, c, f) = RxTurn(rx, c, g)
         /\ (\A d \in c + 1 .. Len(rx) : f[d] \in Results(S)) => RxTurn(rx, c, f) \in Results(S)
<1> DEFINE rest == RestAt(rx, c)
           E == Events(S)
<1>1. rest \in Seq(S) /\ Len(rx) \in Nat
  BY RestProps
<1>2. CASE Waits(rest)
  <2>1. RxTurn(rx, c, f) = [ops |-> <<>>, rx |-> rest, closed |-> FALSE]
    BY <1>2, TurnKinds
  <2>2. RxTurn(rx, c, g) = [ops |-> <<>>, rx |-> rest, closed |-> FALSE]
    BY <1>2, TurnKinds
  <2> HIDE DEF rest
  <2>3. [ops |-> <<>>, rx |-> rest, closed |-> FALSE] \in Results(S)
    BY <1>1 DEF Results
  <2> QED BY <2>1, <2>2, <2>3
<1>3. CASE Closes(rest)
  <2>1. /\ RxTurn(rx, c, f) = [ops |-> <<Event(rest)>>, rx |-> <<>>, closed |-> TRUE]
        /\ Event(rest) \in E
    BY <1>3, TurnKinds
  <2>2. RxTurn(rx, c, g) = [ops |-> <<Event(rest)>>, rx |-> <<>>, closed |-> TRUE]
    BY <1>3, TurnKinds
  <2> DEFINE o == <<Event(rest)>>
  <2> HIDE DEF rest, E
  <2>3. o \in Seq(E)
    BY <2>1
  <2> HIDE DEF o
  <2>4. [ops |-> o, rx |-> <<>>, closed |-> TRUE] \in Results(S)
    BY <2>3 DEF Results, E
  <2> QED BY <2>1, <2>2, <2>4 DEF o
<1>4. CASE ~Waits(rest) /\ ~Closes(rest)
  <2> DEFINE d == c + Stride(rest)
             e == Event(rest)
  <2>1. Stride(rest) \in 1 .. Len(rx) - c /\ RxTurn(rx, c, f) = AfterEvent(e, f[d]) /\ RxTurn(rx, c, g) = AfterEvent(e, g[d])
        /\ e \in Events(S)
    BY <1>4, TurnKinds
  <2>2. d \in c + 1 .. Len(rx)
    BY <1>1, <2>1
  <2> HIDE DEF d, e, rest
  <2>3. f[d] = g[d]
    BY <2>2
  <2> QED BY <2>1, <2>2, <2>3, AfterProps
<1> QED BY <1>2, <1>3, <1>4

\* h is what the loop does from every cursor on.
IsLoop(h, S, rx) ==
    /\ h \in [0 .. Len(rx) -> Results(S)]
    /\ \A c \in 0 .. Len(rx) : h[c] = RxTurn(rx, c, h)

\* The loop ends.
LEMMA LoopExists ==
  ASSUME NEW S, NEW rx \in Seq(S)
  PROVE  \E h : IsLoop(h, S, rx) /\ RxLoop(rx) = h[0]
<1> DEFINE N == Len(rx)
           Partial(h, c) == h = [d \in 0 .. N |-> h[d]] /\ \A d \in c .. N : h[d] = RxTurn(rx, d, h)
           P == {c \in 0 .. N : \E h : Partial(h, c)}
<1>1. N \in Nat
  OBVIOUS
<1>2. ASSUME NEW c \in 0 .. N, \A d \in c + 1 .. N : d \in P PROVE c \in P
  <2>1. PICK h : h = [d \in 0 .. N |-> h[d]] /\ \A d \in c + 1 .. N : h[d] = RxTurn(rx, d, h)
    <3>1. CASE c = N
      <4>1. c + 1 .. N = {}
        BY <1>1, <3>1
      <4>2. \E h : h = [d \in 0 .. N |-> h[d]]
        <5> DEFINE k == [d \in 0 .. N |-> 0]
        <5>1. k = [d \in 0 .. N |-> k[d]]
          OBVIOUS
        <5> QED BY <5>1
      <4> QED BY <4>1, <4>2
    <3>2. CASE c # N
      <4>1. c + 1 \in c + 1 .. N
        BY <1>1, <3>2
      <4> QED BY <1>2, <4>1
    <3> QED BY <3>1, <3>2
  <2> DEFINE g == [d \in 0 .. N |-> IF d = c THEN RxTurn(rx, c, h) ELSE h[d]]
  <2>2. g[c] = RxTurn(rx, c, h) /\ \A d \in c + 1 .. N : g[d] = h[d] /\ d \in 0 .. N
    BY <1>1
  <2>3. g = [d \in 0 .. N |-> g[d]]
    OBVIOUS
  <2> HIDE DEF g
  <2>4. ASSUME NEW d \in c .. N PROVE g[d] = RxTurn(rx, d, g)
    <3>1. d \in 0 .. N /\ \A e \in d + 1 .. N : e \in c + 1 .. N
      BY <1>1
    <3>2. RxTurn(rx, d, g) = RxTurn(rx, d, h)
      BY <2>2, <3>1, TurnLocal DEF N
    <3>3. CASE d = c
      BY <2>2, <3>2, <3>3
    <3>4. CASE d # c
      <4>1. d \in c + 1 .. N
        BY <3>4
      <4> QED BY <2>1, <2>2, <3>2, <4>1
    <3> QED BY <3>3, <3>4
  <2> QED BY <2>3, <2>4
<1>3. PICK g : g = [d \in 0 .. N |-> g[d]] /\ \A d \in 0 .. N : g[d] = RxTurn(rx, d, g)
  <2>1. 0 .. N \subseteq P
    <3> HIDE DEF P, N
    <3> QED BY <1>1, <1>2, Descent
  <2>2. 0 \in P
    BY <1>1, <2>1
  <2> QED BY <2>2
<1> HIDE DEF N, P, Partial
<1>4. g = [d \in 0 .. N |-> RxTurn(rx, d, g)]
  BY <1>3
<1>5. PICK h : h = [d \in 0 .. N |-> RxTurn(rx, d, h)] /\ RxLoop(rx) = h[0]
  BY <1>4, Zenon DEF RxLoop, N
<1> DEFINE R == {c \in 0 .. N : h[c] \in Results(S)}
<1>6. ASSUME NEW c \in 0 .. N, \A d \in c + 1 .. N : d \in R PROVE c \in R
  <2>1. h[c] = RxTurn(rx, c, h)
    BY <1>5
  <2>2. \A d \in c + 1 .. N : h[d] \in Results(S)
    BY <1>6
  <2>3. RxTurn(rx, c, h) \in Results(S)
    BY <2>2, TurnLocal DEF N
  <2> QED BY <2>1, <2>3
<1>7. 0 .. N \subseteq R
  <2> HIDE DEF R
  <2> QED BY <1>1, <1>6, Descent
<1>8. IsLoop(h, S, rx)
  <2>1. \A c \in 0 .. N : h[c] \in Results(S) /\ h[c] = RxTurn(rx, c, h)
    BY <1>5, <1>7
  <2>2. h = [c \in 0 .. N |-> h[c]]
    BY <1>5
  <2>3. h \in [0 .. N -> Results(S)]
    BY <2>1, <2>2
  <2> QED BY <2>1, <2>3 DEF IsLoop, N
<1> QED BY <1>5, <1>8

\* The rest of a rest.
LEMMA RestOfRest ==
  ASSUME NEW S, NEW s \in Seq(S), NEW c \in 0 .. Len(s), NEW j \in 0 .. Len(s) - c
  PROVE  RestAt(RestAt(s, c), j) = RestAt(s, c + j)
<1> DEFINE t == RestAt(s, c)
           u == RestAt(t, j)
           v == RestAt(s, c + j)
           N == Len(s)
<1>1. N \in Nat /\ c + j \in 0 .. N
  OBVIOUS
<1>2. t \in Seq(S) /\ Len(t) = N - c /\ \A i \in 1 .. N - c : t[i] = s[c + i]
  BY DEF RestAt
<1>3. v \in Seq(S) /\ Len(v) = N - (c + j) /\ \A i \in 1 .. N - (c + j) : v[i] = s[(c + j) + i]
  <2> DEFINE k == c + j
  <2>1. k \in 0 .. N
    BY <1>1
  <2> HIDE DEF k
  <2>2. /\ RestAt(s, k) \in Seq(S) /\ Len(RestAt(s, k)) = N - k
        /\ \A i \in 1 .. N - k : RestAt(s, k)[i] = s[k + i]
    BY <2>1 DEF RestAt
  <2> QED BY <2>2 DEF k
<1> HIDE DEF t, v, N
<1>4. u \in Seq(S) /\ Len(u) = N - c - j /\ \A i \in 1 .. N - c - j : u[i] = t[j + i]
  <2>1. j \in 0 .. Len(t)
    BY <1>2 DEF N
  <2>2. u \in Seq(S) /\ Len(u) = Len(t) - j /\ \A i \in 1 .. Len(t) - j : u[i] = t[j + i]
    BY <1>2, <2>1 DEF RestAt
  <2> QED BY <1>2, <2>2
<1> HIDE DEF u
<1>5. Len(u) = Len(v)
  BY <1>1, <1>3, <1>4
<1>6. ASSUME NEW i \in 1 .. Len(u) PROVE u[i] = v[i]
  <2>1. i \in 1 .. N - c - j /\ i \in 1 .. N - (c + j) /\ j + i \in 1 .. N - c /\ c + (j + i) = (c + j) + i
    BY <1>1, <1>4
  <2> QED BY <1>2, <1>3, <1>4, <2>1
<1>7. u = v
  BY <1>3, <1>4, <1>5, <1>6, SeqEqual
<1> QED BY <1>7 DEF u, v, t

\* The loop on the rest of a buffer does what the loop on the buffer does from there on.
LEMMA LoopShift ==
  ASSUME NEW S, NEW s \in Seq(S), NEW c \in 0 .. Len(s), NEW t, t = RestAt(s, c),
         NEW f, IsLoop(f, S, s), NEW g, IsLoop(g, S, t)
  PROVE  g[0] = f[c]
<1> DEFINE N == Len(t)
           P == {j \in 0 .. N : g[j] = f[c + j]}
<1>1. t \in Seq(S) /\ N = Len(s) - c /\ Len(s) \in Nat /\ N \in Nat
  BY RestProps
<1>2. ASSUME NEW j \in 0 .. N, \A d \in j + 1 .. N : d \in P PROVE j \in P
  <2> DEFINE r == RestAt(t, j)
  <2>1. r = RestAt(s, c + j) /\ c + j \in 0 .. Len(s) /\ j \in 0 .. Len(t) /\ Len(t) - j = Len(s) - (c + j)
    BY <1>1, RestOfRest
  <2>2. g[j] = RxTurn(t, j, g) /\ f[c + j] = RxTurn(s, c + j, f)
    BY <2>1 DEF IsLoop
  <2> DEFINE k == c + j
  <2> HIDE DEF k, r, N, P
  <2>3. f[k] = RxTurn(s, k, f)
    BY <2>2 DEF k
  <2>7. k \in 0 .. Len(s) /\ r = RestAt(s, k)
    BY <2>1 DEF k, r
  <2>8. j \in 0 .. Len(t) /\ r = RestAt(t, j)
    BY <2>1 DEF r
  <2>4. CASE Waits(r)
    <3>1. RxTurn(t, j, g) = [ops |-> <<>>, rx |-> r, closed |-> FALSE]
      BY <1>1, <2>4, <2>8, TurnKinds
    <3>2. RxTurn(s, k, f) = [ops |-> <<>>, rx |-> r, closed |-> FALSE]
      BY <2>4, <2>7, TurnKinds
    <3> QED BY <2>2, <2>3, <3>1, <3>2 DEF P, k
  <2>5. CASE Closes(r)
    <3>1. RxTurn(t, j, g) = [ops |-> <<Event(r)>>, rx |-> <<>>, closed |-> TRUE]
      BY <1>1, <2>5, <2>8, TurnKinds
    <3>2. RxTurn(s, k, f) = [ops |-> <<Event(r)>>, rx |-> <<>>, closed |-> TRUE]
      BY <2>5, <2>7, TurnKinds
    <3> QED BY <2>2, <2>3, <3>1, <3>2 DEF P, k
  <2>6. CASE ~Waits(r) /\ ~Closes(r)
    <3> DEFINE m == Stride(r)
    <3>1. RxTurn(t, j, g) = AfterEvent(Event(r), g[j + m]) /\ m \in 1 .. Len(t) - j
      BY <1>1, <2>6, <2>8, TurnKinds
    <3>2. RxTurn(s, k, f) = AfterEvent(Event(r), f[k + m])
      BY <2>6, <2>7, TurnKinds
    <3> HIDE DEF m
    <3>3. j + m \in j + 1 .. N /\ c + (j + m) = k + m
      BY <1>1, <2>1, <3>1 DEF N, k
    <3>4. g[j + m] = f[k + m]
      BY <1>2, <3>3 DEF P
    <3> QED BY <2>2, <2>3, <3>1, <3>2, <3>4 DEF P, k
  <2> QED BY <2>4, <2>5, <2>6
<1>3. 0 .. N \subseteq P
  <2>1. N \in Nat
    BY <1>1
  <2> HIDE DEF N, P
  <2> QED BY <1>2, <2>1, Descent
<1>4. 0 \in P
  BY <1>1, <1>3
<1>5. c + 0 = c
  OBVIOUS
<1> QED BY <1>4, <1>5

\* What the loop on b makes of it before x comes: the connection is closed as it would be
\* with x, or a rest is kept, behind which it goes on.
Cut(r, g, c, b) ==
    IF r.closed THEN g[c] = r
    ELSE \E k \in c .. Len(b) : /\ r.rx = RestAt(b, k)
                                /\ g[c] = [ops |-> r.ops \o g[k].ops, rx |-> g[k].rx, closed |-> g[k].closed]

\* The loop over a buffer is the loop over its beginning, and then over what that left.
LEMMA LoopCut ==
  ASSUME NEW S, NEW b \in Seq(S), NEW x \in Seq(S), NEW f, IsLoop(f, S, b), NEW g, IsLoop(g, S, b \o x)
  PROVE  Cut(f[0], g, 0, b)
<1> DEFINE N == Len(b)
           bx == b \o x
           P == {c \in 0 .. N : Cut(f[c], g, c, b)}
<1>1. bx \in Seq(S) /\ Len(bx) = N + Len(x) /\ N \in Nat /\ Len(x) \in Nat
  BY Concat
<1>2. \A c \in 0 .. N : c \in 0 .. Len(bx) /\ f[c] \in Results(S) /\ f[c] = RxTurn(b, c, f)
  <2>1. \A c \in 0 .. N : f[c] \in Results(S) /\ f[c] = RxTurn(b, c, f)
    BY DEF IsLoop
  <2> HIDE DEF bx, N
  <2>2. \A c \in 0 .. N : c \in 0 .. Len(bx)
    BY <1>1
  <2> QED BY <2>1, <2>2
<1>3. \A c \in 0 .. Len(bx) : g[c] \in Results(S) /\ g[c] = RxTurn(bx, c, g)
  BY DEF IsLoop
<1> HIDE DEF N, bx, P
<1>4. ASSUME NEW c \in 0 .. N, \A d \in c + 1 .. N : d \in P PROVE Cut(f[c], g, c, b)
  <2> DEFINE r == RestAt(b, c)
             q == RestAt(bx, c)
  <2>1. q = r \o x
    <3>1. c + 1 \in 1 .. Len(b) + 1
      BY <1>1 DEF N
    <3> QED BY <3>1, ConcatRest DEF RestAt, bx
  <2>2. r \in Seq(S) /\ q \in Seq(S) /\ c \in 0 .. Len(b) /\ c \in 0 .. Len(bx)
    BY <1>1, <1>2, RestProps DEF N
  <2>3. f[c] = RxTurn(b, c, f) /\ g[c] = RxTurn(bx, c, g)
    BY <1>2, <1>3
  <2> HIDE DEF q
  <2>4. CASE Waits(r)
    <3>1. f[c] = [ops |-> <<>>, rx |-> r, closed |-> FALSE]
      BY <2>2, <2>3, <2>4, TurnKinds
    <3>2. g[c] \in Results(S)
      BY <1>3, <2>2
    <3>3. g[c] = [ops |-> <<>> \o g[c].ops, rx |-> g[c].rx, closed |-> g[c].closed]
      <4> DEFINE E == Events(S)
                 o == g[c].ops
      <4>1. g[c] \in [ops : Seq(E), rx : Seq(S), closed : BOOLEAN]
        BY <3>2 DEF Results
      <4> HIDE DEF E
      <4>2. o \in Seq(E) /\ g[c] = [ops |-> o, rx |-> g[c].rx, closed |-> g[c].closed]
        BY <4>1
      <4> HIDE DEF o
      <4>3. <<>> \o o = o
        BY <4>2, ConcatEmptySeq
      <4> QED BY <4>2, <4>3 DEF o
    <3>4. c \in c .. Len(b)
      BY <2>2
    <3> HIDE DEF r
    <3>5. ~f[c].closed /\ f[c].rx = r /\ f[c].ops = <<>>
      BY <3>1
    <3> QED BY <3>3, <3>4, <3>5 DEF Cut, r
  <2>5. ASSUME ~Waits(r)
        PROVE  /\ ~Waits(q) /\ (Closes(q) <=> Closes(r)) /\ Event(q) = Event(r)
               /\ ~Closes(r) => Stride(q) = Stride(r)
    <3>1. r # <<>> /\ ParseClientOp(r).status # "need_more"
      BY <2>5 DEF Waits
    <3>2. ParseClientOp(q) = ParseClientOp(r) /\ Outcome(ParseClientOp(r), r)
      BY <2>1, <2>2, <3>1, ParseExtends
    <3>3. q # <<>>
      <4> HIDE DEF r
      <4> QED BY <2>1, <2>2, <3>1
    <3>4. ~Waits(q) /\ (Closes(q) <=> Closes(r)) /\ Event(q) = Event(r)
      BY <2>5, <3>1, <3>2, <3>3 DEF Waits, Closes, Event
    <3>5. ASSUME ~Closes(r), ParseClientOp(r).status # "ok" PROVE LineLen(q) = LineLen(r)
      <4>1. ParseClientOp(r).status \in Refusals
        BY <2>5, <3>1, <3>2, <3>5 DEF Closes, Outcome
      <4>2. LineLen(r) < Len(r)
        BY <3>2, <4>1 DEF Outcome
      <4> QED BY <2>1, <2>2, <4>2, LineLenExtends
    <3> QED BY <3>2, <3>4, <3>5 DEF Stride
  <2>6. CASE Closes(r)
    <3>1. ~Waits(r)
      BY <2>6 DEF Closes
    <3>2. f[c] = [ops |-> <<Event(r)>>, rx |-> <<>>, closed |-> TRUE]
      BY <2>2, <2>3, <2>6, TurnKinds
    <3>3. Closes(q) /\ Event(q) = Event(r)
      BY <2>5, <2>6, <3>1
    <3>4. g[c] = [ops |-> <<Event(q)>>, rx |-> <<>>, closed |-> TRUE]
      BY <1>1, <2>2, <2>3, <3>3, TurnKinds DEF q
    <3>5. g[c] = f[c] /\ f[c].closed
      BY <3>2, <3>3, <3>4
    <3> QED BY <3>5 DEF Cut
  <2>7. CASE ~Waits(r) /\ ~Closes(r)
    <3> DEFINE d == c + Stride(r)
               e == Event(r)
    <3>1. f[c] = AfterEvent(e, f[d]) /\ Stride(r) \in 1 .. Len(b) - c /\ e \in Events(S)
      BY <2>2, <2>3, <2>7, TurnKinds
    <3>2. ~Waits(q) /\ ~Closes(q) /\ Event(q) = e /\ Stride(q) = Stride(r)
      BY <2>5, <2>7
    <3>3. g[c] = AfterEvent(Event(q), g[c + Stride(q)])
      BY <1>1, <2>2, <2>3, <3>2, TurnKinds DEF q
    <3>4. g[c] = AfterEvent(e, g[d])
      BY <3>2, <3>3
    <3>5. d \in c + 1 .. N /\ d \in 0 .. N /\ d \in 0 .. Len(bx)
      BY <1>1, <3>1 DEF N
    <3> HIDE DEF d, e, r
    <3>6. Cut(f[d], g, d, b)
      BY <1>4, <3>5 DEF P
    <3>7. f[d] \in Results(S) /\ g[d] \in Results(S)
      BY <1>2, <1>3, <3>5
    <3>8. /\ f[c] = [ops |-> <<e>> \o f[d].ops, rx |-> f[d].rx, closed |-> f[d].closed]
          /\ g[c] = [ops |-> <<e>> \o g[d].ops, rx |-> g[d].rx, closed |-> g[d].closed]
      BY <3>1, <3>4, <3>7, AfterProps
    <3>9. CASE f[d].closed
      <4>1. g[d] = f[d]
        BY <3>6, <3>9 DEF Cut
      <4>2. g[c] = f[c]
        BY <3>8, <4>1
      <4>3. f[c].closed
        BY <3>8, <3>9
      <4> QED BY <4>2, <4>3 DEF Cut
    <3>10. CASE ~f[d].closed
      <4>1. PICK k \in d .. Len(b) : f[d].rx = RestAt(b, k)
                /\ g[d] = [ops |-> f[d].ops \o g[k].ops, rx |-> g[k].rx, closed |-> g[k].closed]
        BY <3>6, <3>10 DEF Cut
      <4>2. k \in c .. Len(b) /\ k \in 0 .. Len(bx)
        BY <1>1, <3>5, <4>1 DEF N
      <4>3. g[k] \in Results(S)
        BY <1>3, <4>2
      <4> DEFINE E == Events(S)
                 o == <<e>>
                 p == f[d].ops
                 w == g[k].ops
      <4>4. o \in Seq(E) /\ p \in Seq(E) /\ w \in Seq(E)
        BY <3>1, <3>7, <4>3 DEF Results
      <4>5. f[c].ops = o \o p /\ f[c].rx = RestAt(b, k) /\ ~f[c].closed
        BY <3>8, <3>10, <4>1
      <4>6. g[c] = [ops |-> o \o (p \o w), rx |-> g[k].rx, closed |-> g[k].closed]
        BY <3>8, <4>1
      <4> HIDE DEF E, o, p, w
      <4>7. (o \o p) \o w = o \o (p \o w)
        BY <4>4, ConcatAssociative, SMTT(30)
      <4>8. g[c] = [ops |-> f[c].ops \o w, rx |-> g[k].rx, closed |-> g[k].closed]
        BY <4>5, <4>6, <4>7
      <4> QED BY <4>2, <4>5, <4>8 DEF Cut, w
    <3> QED BY <3>9, <3>10
  <2> QED BY <2>4, <2>6, <2>7
<1>5. 0 .. N \subseteq P
  <2>1. ASSUME NEW c \in 0 .. N, \A d \in c + 1 .. N : d \in P PROVE c \in P
    BY <1>4, <2>1 DEF P
  <2> QED BY <1>1, <2>1, Descent
<1>6. 0 \in P
  BY <1>1, <1>5
<1> QED BY <1>6 DEF P

\* A read after another does what one read of both would have done.
LEMMA FeedJoins ==
  ASSUME NEW S, NEW st \in Results(S), NEW a \in Seq(S), NEW b \in Seq(S)
  PROVE  Feed(Feed(st, a), b) = Feed(st, a \o b)
<1> DEFINE E == Events(S)
           R == [ops : Seq(E), rx : Seq(S), closed : BOOLEAN]
<1>1. st \in R
  BY DEF Results
<1>2. CASE st.closed
  BY <1>2 DEF Feed
<1>3. CASE ~st.closed
  <2> DEFINE u == st.rx \o a
             ub == u \o b
  <2>1. u \in Seq(S) /\ ub \in Seq(S) /\ st.rx \o (a \o b) = ub
    <3> DEFINE q == st.rx
    <3>1. q \in Seq(S)
      BY <1>1
    <3> HIDE DEF q
    <3>2. q \o a \in Seq(S)
      BY <3>1, ConcatProperties
    <3>3. (q \o a) \o b \in Seq(S) /\ q \o (a \o b) = (q \o a) \o b
      BY <3>1, <3>2, ConcatProperties, ConcatAssociative
    <3> QED BY <3>2, <3>3 DEF q
  <2>2. PICK f : IsLoop(f, S, u) /\ RxLoop(u) = f[0]
    BY <2>1, LoopExists
  <2>3. PICK g : IsLoop(g, S, ub) /\ RxLoop(ub) = g[0]
    BY <2>1, LoopExists
  <2>4. Cut(f[0], g, 0, u)
    BY <2>1, <2>2, <2>3, LoopCut
  <2> DEFINE f0 == f[0]
             g0 == g[0]
  <2>5. f0 \in R /\ g0 \in R
    <3>1. Len(u) \in Nat /\ Len(ub) \in Nat
      BY <2>1
    <3>2. 0 \in 0 .. Len(u) /\ 0 \in 0 .. Len(ub)
      BY <3>1
    <3> QED BY <2>2, <2>3, <3>2 DEF IsLoop, Results
  <2> DEFINE s1 == [f0 EXCEPT !.ops = st.ops \o @]
  <2>6. Feed(st, a) = s1 /\ Feed(st, a \o b) = [g0 EXCEPT !.ops = st.ops \o @]
    BY <1>3, <2>1, <2>2, <2>3 DEF Feed
  <2> DEFINE o == st.ops
             p == f0.ops
  <2> HIDE DEF E
  <2>7. o \in Seq(E) /\ p \in Seq(E) /\ g0.ops \in Seq(E)
    BY <1>1, <2>5
  <2>8. s1.ops = o \o p /\ s1.rx = f0.rx /\ s1.closed = f0.closed
    BY <2>5
  <2>9. CASE f0.closed
    <3>1. g0 = f0
      BY <2>4, <2>9 DEF Cut
    <3>2. s1.closed
      BY <2>8, <2>9
    <3>3. Feed(s1, b) = s1
      BY <3>2 DEF Feed
    <3> QED BY <2>6, <3>1, <3>3
  <2>10. CASE ~f0.closed
    <3> HIDE DEF u, ub
    <3>1. PICK k \in 0 .. Len(u) : f0.rx = RestAt(u, k)
             /\ g0 = [ops |-> f0.ops \o g[k].ops, rx |-> g[k].rx, closed |-> g[k].closed]
      BY <2>4, <2>10 DEF Cut
    <3> DEFINE v == RestAt(ub, k)
    <3>2. v = RestAt(u, k) \o b /\ k \in 0 .. Len(ub)
      <4>1. k + 1 \in 1 .. Len(u) + 1 /\ Len(u) \in Nat /\ Len(ub) = Len(u) + Len(b)
        BY <2>1 DEF ub
      <4>2. SubSeq(u \o b, k + 1, Len(u \o b)) = SubSeq(u, k + 1, Len(u)) \o b
        BY <2>1, <4>1, ConcatRest
      <4>3. k \in 0 .. Len(ub)
        <5>1. Len(b) \in Nat
          OBVIOUS
        <5> QED BY <4>1, <5>1
      <4> QED BY <4>2, <4>3 DEF RestAt, ub
    <3>3. v \in Seq(S)
      BY <2>1, <3>2, RestProps
    <3>4. PICK h : IsLoop(h, S, v) /\ RxLoop(v) = h[0]
      BY <3>3, LoopExists
    <3>5. h[0] = g[k]
      <4>1. k \in 0 .. Len(ub)
        BY <3>2
      <4> QED BY <2>1, <2>3, <3>4, <4>1, LoopShift
    <3>6. ~s1.closed /\ s1.rx \o b = v
      BY <2>8, <2>10, <3>1, <3>2
    <3> HIDE DEF v
    <3>7. Feed(s1, b) = [h[0] EXCEPT !.ops = s1.ops \o @]
      BY <3>4, <3>6 DEF Feed
    <3> DEFINE gk == g[k]
               w == gk.ops
    <3>8. gk \in R
      BY <2>3, <3>2 DEF IsLoop, Results, E
    <3>9. w \in Seq(E)
      BY <3>8
    <3> HIDE DEF gk, s1, f0, g0, o, R
    <3>10. Feed(s1, b) = [gk EXCEPT !.ops = (o \o p) \o w]
      BY <2>8, <3>5, <3>7 DEF gk
    <3>17. \A r \in R : \A x : [r EXCEPT !.ops = x] = [ops |-> x, rx |-> r.rx, closed |-> r.closed]
      BY SMTT(30) DEF R
    <3>11. [gk EXCEPT !.ops = (o \o p) \o w] = [ops |-> (o \o p) \o w, rx |-> gk.rx, closed |-> gk.closed]
      BY <3>8, <3>17
    <3>12. g0 = [ops |-> p \o w, rx |-> gk.rx, closed |-> gk.closed]
      BY <3>1 DEF g0, f0, gk
    <3> HIDE DEF p, w
    <3>13. [g0 EXCEPT !.ops = o \o @] = [ops |-> o \o (p \o w), rx |-> gk.rx, closed |-> gk.closed]
      <4>1. g0.ops = p \o w
        BY <3>12
      <4>2. g0.rx = gk.rx
        BY <3>12
      <4>3. g0.closed = gk.closed
        BY <3>12, Zenon
      <4>4. [g0 EXCEPT !.ops = o \o g0.ops] = [ops |-> o \o g0.ops, rx |-> g0.rx, closed |-> g0.closed]
        BY <2>5, <3>17
      <4> QED BY <4>1, <4>2, <4>3, <4>4
    <3>14. (o \o p) \o w = o \o (p \o w)
      BY <2>7, <3>9, ConcatAssociative, SMTT(30)
    <3>15. Feed(st, a \o b) = [g0 EXCEPT !.ops = o \o @]
      BY <2>6 DEF o, g0
    <3>16. Feed(Feed(st, a), b) = Feed(s1, b)
      BY <2>6 DEF s1
    <3> QED BY <3>10, <3>11, <3>13, <3>14, <3>15, <3>16
  <2> QED BY <2>9, <2>10
<1> QED BY <1>2, <1>3

-----------------------------------------------------------------------------
(* Framing.                                                                *)

\* Two scans agree on a common beginning.
LEMMA TokensAppend ==
  ASSUME NEW S, NEW s \in Seq(S), NEW c \in S
  PROVE  /\ Append(s, c) \in Seq(S)
         /\ Tokens(Append(s, c)) = NextByte(Tokens(s), Append(s, c), Len(s) + 1)
<1> DEFINE u == Append(s, c)
           N == Len(s)
<1>1. u \in Seq(S) /\ Len(u) = N + 1 /\ N \in Nat /\ \A i \in 1 .. N : u[i] = s[i]
  OBVIOUS
<1>2. PICK f : IsScan(f, S, s) /\ Tokens(s) = f[Len(s)]
  BY TokensScan
<1> HIDE DEF u
<1>3. PICK g : IsScan(g, S, u) /\ Tokens(u) = g[Len(u)]
  BY <1>1, TokensScan
<1> DEFINE P == {n \in 0 .. N : g[n] = f[n]}
<1>4. 0 \in P
  BY <1>1, <1>2, <1>3 DEF IsScan
<1>5. ASSUME NEW n \in 1 .. N, n - 1 \in P PROVE n \in P
  <2>1. u[n] = s[n] /\ n \in 1 .. Len(u) /\ n \in 0 .. N /\ (n # 1 => u[n - 1] = s[n - 1])
    BY <1>1
  <2>2. f[n] = NextByte(f[n - 1], s, n) /\ g[n] = NextByte(g[n - 1], u, n)
    BY <1>2, <1>3, <2>1 DEF IsScan
  <2>3. g[n - 1] = f[n - 1]
    BY <1>5
  <2>4. NextByte(f[n - 1], u, n) = NextByte(f[n - 1], s, n)
    BY <2>1 DEF NextByte
  <2> QED BY <2>1, <2>2, <2>3, <2>4
<1>6. g[N] = f[N]
  <2>1. 0 .. N \subseteq P
    <3> HIDE DEF P, N
    <3> QED BY <1>1, <1>4, <1>5, Induction
  <2>2. N \in 0 .. N
    BY <1>1
  <2> QED BY <2>1, <2>2
<1>7. g[N + 1] = NextByte(g[N], u, N + 1)
  <2>1. N + 1 \in 1 .. Len(u) /\ (N + 1) - 1 = N
    BY <1>1
  <2> QED BY <1>3, <2>1 DEF IsScan
<1> QED BY <1>1, <1>2, <1>3, <1>6, <1>7 DEF u

\* A word of a line: not empty, and without blanks.
Word(S) == {t \in Seq(S) : t # <<>> /\ \A i \in 1 .. Len(t) : t[i] \notin Blank}

\* A blank ends a token, a word behind it is one.
LEMMA TokensBlank ==
  ASSUME NEW S, NEW s \in Seq(S), NEW c \in S \cap Blank
  PROVE  Tokens(Append(s, c)) = Tokens(s)
<1> DEFINE u == Append(s, c)
<1>1. u[Len(s) + 1] = c
  OBVIOUS
<1>2. Tokens(u) = NextByte(Tokens(s), u, Len(s) + 1)
  BY TokensAppend
<1> HIDE DEF u
<1>3. Tokens(u) = Tokens(s)
  BY <1>1, <1>2 DEF NextByte
<1> QED BY <1>3 DEF u

\* A word after a blank, or at the beginning, is a token more.
LEMMA TokensWord ==
  ASSUME NEW S, NEW s \in Seq(S), NEW t \in Word(S), s # <<>> => s[Len(s)] \in Blank
  PROVE  Tokens(s \o t) = Append(Tokens(s), t)
<1> DEFINE N == Len(t)
           Up(i) == SubSeq(t, 1, i)
           P == {i \in 0 .. N - 1 : Tokens(s \o Up(i + 1)) = Append(Tokens(s), Up(i + 1))}
           T == Tokens(s)
           M == Len(s)
<1>1. t \in Seq(S) /\ N \in Nat \ {0} /\ M \in Nat /\ \A i \in 1 .. N : t[i] \notin Blank /\ t[i] \in S
  BY DEF Word
<1>2. T \in Seq(Seq(S)) /\ Len(T) \in Nat
  BY TokensType
<1>3. ASSUME NEW i \in 1 .. N
      PROVE  /\ Up(i) \in Seq(S) /\ Len(Up(i)) = i
             /\ Up(i - 1) \in Seq(S) /\ Len(Up(i - 1)) = i - 1
             /\ Up(i) = Append(Up(i - 1), t[i])
             /\ s \o Up(i) = Append(s \o Up(i - 1), t[i])
             /\ s \o Up(i - 1) \in Seq(S) /\ Len(s \o Up(i - 1)) = M + (i - 1)
  <2>1. Up(i) \in Seq(S) /\ Len(Up(i)) = i /\ Up(i - 1) \in Seq(S) /\ Len(Up(i - 1)) = i - 1
    BY <1>1
  <2>2. Up(i) = Append(Up(i - 1), t[i])
    BY <1>1
  <2> DEFINE p == Up(i - 1)
             c == t[i]
  <2>3. p \in Seq(S) /\ c \in S /\ Len(p) = i - 1
    BY <1>1, <2>1
  <2> HIDE DEF p, c, Up
  <2>4. s \o Append(p, c) = Append(s \o p, c) /\ s \o p \in Seq(S) /\ Len(s \o p) = M + (i - 1)
    BY <2>3
  <2> QED BY <2>1, <2>2, <2>4 DEF p, c
<1>4. Up(0) = <<>> /\ s \o Up(0) = s
  <2>1. Up(0) = <<>>
    BY <1>1
  <2> QED BY <2>1, ConcatEmptySeq
<1> HIDE DEF Up, N, T, M
<1>5. 0 \in P
  <2>1. 1 \in 1 .. N /\ 1 - 1 = 0
    BY <1>1
  <2>2. s \o Up(1) = Append(s, t[1]) /\ Up(1) = Append(<<>>, t[1]) /\ t[1] \in S /\ t[1] \notin Blank
    BY <1>1, <1>3, <1>4, <2>1
  <2>3. Up(1) = <<t[1]>>
    BY <2>2
  <2> DEFINE u == Append(s, t[1])
  <2>4. Tokens(u) = NextByte(T, u, M + 1)
    BY <2>2, TokensAppend DEF T, M
  <2>5. u[M + 1] = t[1] /\ (M # 0 => u[M] \in Blank) /\ (M + 1) - 1 = M
    BY <2>2 DEF M
  <2> HIDE DEF u
  <2>6. M + 1 = 1 \/ u[(M + 1) - 1] \in Blank
    BY <1>1, <2>5
  <2>7. Tokens(u) = Append(T, <<t[1]>>)
    BY <2>2, <2>4, <2>5, <2>6 DEF NextByte
  <2>8. Tokens(s \o Up(1)) = Append(Tokens(s), Up(1))
    BY <2>2, <2>3, <2>7 DEF u, T
  <2>9. 0 \in 0 .. N - 1 /\ 0 + 1 = 1
    BY <1>1
  <2> QED BY <2>8, <2>9
<1>6. ASSUME NEW n \in 1 .. N - 1, n - 1 \in P PROVE n \in P
  <2> DEFINE p == Up(n)
             q == s \o p
             c == t[n + 1]
             u == Append(q, c)
  <2>1. n + 1 \in 1 .. N /\ n \in 1 .. N /\ (n + 1) - 1 = n /\ (n - 1) + 1 = n /\ N - 1 \in Nat
    BY <1>1
  <2>2. Tokens(q) = Append(T, p)
    BY <1>6, <2>1 DEF T
  <2>3. /\ p \in Seq(S) /\ Len(p) = n /\ Up(n + 1) = Append(p, c) /\ s \o Up(n + 1) = u
        /\ q \in Seq(S) /\ Len(q) = M + n
    BY <1>3, <2>1
  <2>4. c \in S /\ c \notin Blank
    BY <1>1, <2>1
  <2>5. q[M + n] = t[n]
    <3>1. p = SubSeq(t, 1, n)
      BY DEF Up
    <3>2. p[n] = t[n]
      BY <1>1, <2>1, <3>1 DEF N
    <3> HIDE DEF p
    <3>3. (s \o p)[Len(s) + n] = p[n]
      BY <2>1, <2>3
    <3> QED BY <3>2, <3>3 DEF M
  <2> HIDE DEF q, c, p
  <2>6. Tokens(u) = NextByte(Append(T, p), u, (M + n) + 1)
    BY <2>2, <2>3, <2>4, TokensAppend
  <2>7. u[(M + n) + 1] = c /\ u[M + n] = q[M + n]
    <3> DEFINE k == M + n
    <3>1. k \in 1 .. k /\ Len(q) = k
      BY <1>1, <2>1, <2>3
    <3> HIDE DEF k
    <3>2. u[k + 1] = c /\ u[k] = q[k]
      BY <2>3, <2>4, <3>1
    <3> QED BY <3>2 DEF k
  <2> HIDE DEF u
  <2>8. u[M + n] \notin Blank /\ (M + n) + 1 # 1 /\ ((M + n) + 1) - 1 = M + n
    BY <1>1, <2>1, <2>5, <2>7
  <2> DEFINE A == Append(T, p)
             L == Len(A)
  <2>9. NextByte(A, u, (M + n) + 1) = [A EXCEPT ![L] = Append(A[L], c)]
    BY <2>4, <2>7, <2>8 DEF NextByte
  <2>10. [A EXCEPT ![L] = Append(A[L], c)] = Append(T, Append(p, c))
    <3> DEFINE SS == Seq(S)
               pc == Append(p, c)
    <3>1. T \in Seq(SS) /\ p \in SS /\ pc \in SS /\ Len(T) \in Nat
      BY <1>2, <2>3, <2>4
    <3>2. A[L] = p
      <4> HIDE DEF SS
      <4> QED BY <3>1
    <3> HIDE DEF SS, pc
    <3>3. [Append(T, p) EXCEPT ![Len(Append(T, p))] = pc] = Append(T, pc)
      <4> DEFINE B == [A EXCEPT ![L] = pc]
                 C == Append(T, pc)
      <4>1. /\ A \in Seq(SS) /\ L = Len(T) + 1 /\ C \in Seq(SS) /\ Len(C) = Len(T) + 1
            /\ \A i \in 1 .. Len(T) : A[i] = T[i] /\ C[i] = T[i]
            /\ C[Len(T) + 1] = pc
        BY <3>1, AppendProperties
      <4>2. B \in Seq(SS) /\ Len(B) = L /\ \A j \in 1 .. L : B[j] = IF j = L THEN pc ELSE A[j]
        <5>1. L \in 1 .. Len(A)
          BY <3>1, <4>1
        <5> HIDE DEF A
        <5> QED BY <3>1, <4>1, <5>1, ExceptSeq
      <4> HIDE DEF A, B, C, L
      <4>3. ASSUME NEW i \in 1 .. Len(B) PROVE B[i] = C[i]
        <5>1. i \in 1 .. L /\ (i # L => i \in 1 .. Len(T))
          BY <3>1, <4>1, <4>2
        <5> QED BY <4>1, <4>2, <5>1
      <4>4. B = C
        BY <4>1, <4>2, <4>3, SeqEqual
      <4> QED BY <4>4 DEF A, B, C, L
    <3> QED BY <3>2, <3>3 DEF pc
  <2>11. Tokens(s \o Up(n + 1)) = Append(T, Up(n + 1))
    BY <2>3, <2>6, <2>9, <2>10
  <2>12. n \in 0 .. N - 1
    BY <2>1
  <2> QED BY <2>11, <2>12 DEF T
<1>7. N - 1 \in P
  <2>1. N - 1 \in Nat
    BY <1>1
  <2>2. 0 .. N - 1 \subseteq P
    <3> HIDE DEF P
    <3> DEFINE K == N - 1
    <3> HIDE DEF K
    <3>1. K \in Nat /\ \A n \in 1 .. K : n - 1 \in P => n \in P
      BY <1>6, <2>1 DEF K
    <3>2. 0 .. K \subseteq P
      BY <1>5, <3>1, Induction
    <3> QED BY <3>2 DEF K
  <2> QED BY <2>1, <2>2
<1>8. (N - 1) + 1 = N /\ Up(N) = t
  BY <1>1 DEF N, Up
<1>9. Tokens(s \o Up(N)) = Append(Tokens(s), Up(N))
  BY <1>7, <1>8
<1> QED BY <1>8, <1>9

\* Induction on all smaller numbers.
LEMMA Ascent ==
  ASSUME NEW P, NEW N \in Nat, \A c \in 0 .. N : (\A d \in 0 .. c - 1 : d \in P) => c \in P
  PROVE  0 .. N \subseteq P
<1> DEFINE Q == (0 .. N) \ P
<1>1. SUFFICES ASSUME Q # {} PROVE FALSE
  OBVIOUS
<1>2. PICK m \in Q : \A k \in Q : ~(k < m)
  <2>1. Q \subseteq Nat
    OBVIOUS
  <2> HIDE DEF Q
  <2> QED BY <1>1, <2>1, LeastNumber
<1>3. m \in 0 .. N /\ m \notin P
  BY <1>2
<1>4. ASSUME NEW d \in 0 .. m - 1 PROVE d \in P
  <2>1. d \in 0 .. N /\ d < m
    BY <1>3
  <2> QED BY <1>2, <2>1
<1> QED BY <1>3, <1>4

\* What a division by ten leaves.
LEMMA Tenth ==
  ASSUME NEW k \in Nat
  PROVE  /\ k \div 10 \in Nat /\ k % 10 \in 0 .. 9 /\ k = 10 * (k \div 10) + (k % 10)
         /\ k >= 10 => k \div 10 \in 0 .. k - 1
<1>1. k \div 10 \in Nat /\ k % 10 \in 0 .. 9
  OBVIOUS
<1>2. k = 10 * (k \div 10) + (k % 10)
  OBVIOUS
<1>3. k >= 10 => k \div 10 < k
  OBVIOUS
<1> DEFINE t == k \div 10
<1>4. t \in Nat /\ (k >= 10 => t < k)
  BY <1>1, <1>3
<1> HIDE DEF t
<1>5. k >= 10 => t \in 0 .. k - 1
  BY <1>4
<1> QED BY <1>1, <1>2, <1>5 DEF t

\* Recursion over the decimal digits of a number.
ByTens(g, n, B, F) == g = [k \in 0 .. n |-> IF k < 10 THEN B[k] ELSE F[<<k, g[k \div 10]>>]]

\* A recursion over n \div 10 stays in its type,
LEMMA TensType ==
  ASSUME NEW n \in Nat, NEW T, NEW B, NEW F, \A k \in 0 .. n : B[k] \in T,
         \A k \in 0 .. n : \A v \in T : F[<<k, v>>] \in T, NEW g, ByTens(g, n, B, F)
  PROVE  \A k \in 0 .. n : g[k] \in T
<1> DEFINE P == {k \in 0 .. n : g[k] \in T}
<1>1. ASSUME NEW c \in 0 .. n, \A d \in 0 .. c - 1 : d \in P PROVE c \in P
  <2>1. g[c] = IF c < 10 THEN B[c] ELSE F[<<c, g[c \div 10]>>]
    BY DEF ByTens
  <2>2. c >= 10 => c \div 10 \in 0 .. c - 1
    BY Tenth
  <2> DEFINE t == c \div 10
  <2> HIDE DEF t
  <2>3. CASE c < 10
    BY <2>1, <2>3
  <2>4. CASE ~(c < 10)
    <3>1. t \in 0 .. c - 1
      BY <2>2, <2>4 DEF t
    <3>2. g[t] \in T
      BY <1>1, <3>1
    <3>3. g[c] = F[<<c, g[t]>>]
      BY <2>1, <2>4 DEF t
    <3> QED BY <3>2, <3>3
  <2> QED BY <2>3, <2>4
<1>2. 0 .. n \subseteq P
  <2> HIDE DEF P
  <2> QED BY <1>1, Ascent
<1> QED BY <1>2

\* and exists.
LEMMA TensExists ==
  ASSUME NEW n \in Nat, NEW T, NEW B, NEW F, \A k \in 0 .. n : B[k] \in T,
         \A k \in 0 .. n : \A v \in T : F[<<k, v>>] \in T
  PROVE  \E g : ByTens(g, n, B, F) /\ \A k \in 0 .. n : g[k] \in T
<1> DEFINE Val(k, g) == IF k < 10 THEN B[k] ELSE F[<<k, g[k \div 10]>>]
           Partial(h, c) == h = [d \in 0 .. n |-> h[d]] /\ \A d \in 0 .. c : h[d] = Val(d, h)
           P == {c \in 0 .. n : \E h : Partial(h, c)}
<1>1. ASSUME NEW c \in 0 .. n, \A d \in 0 .. c - 1 : d \in P PROVE c \in P
  <2>1. PICK h : h = [d \in 0 .. n |-> h[d]] /\ \A d \in 0 .. c - 1 : h[d] = Val(d, h)
    <3>1. CASE c = 0
      <4>1. 0 .. c - 1 = {}
        BY <3>1
      <4> DEFINE k == [d \in 0 .. n |-> 0]
      <4>2. k = [d \in 0 .. n |-> k[d]]
        OBVIOUS
      <4> HIDE DEF k
      <4> QED BY <4>1, <4>2
    <3>2. CASE c # 0
      <4>1. c - 1 \in 0 .. c - 1
        BY <3>2
      <4>2. \E h : Partial(h, c - 1)
        BY <1>1, <4>1
      <4> QED BY <4>2
    <3> QED BY <3>1, <3>2
  <2> DEFINE g == [d \in 0 .. n |-> IF d = c THEN Val(c, h) ELSE h[d]]
  <2>2. g[c] = Val(c, h) /\ \A d \in 0 .. c - 1 : g[d] = h[d]
    OBVIOUS
  <2>3. g = [d \in 0 .. n |-> g[d]]
    OBVIOUS
  <2> HIDE DEF g, Val
  <2>4. ASSUME NEW d \in 0 .. c PROVE g[d] = Val(d, g)
    <3>1. d >= 10 => d \div 10 \in 0 .. c - 1
      BY Tenth
    <3>2. Val(d, g) = Val(d, h)
      BY <2>2, <3>1 DEF Val
    <3>3. CASE d = c
      BY <2>2, <3>2, <3>3
    <3>4. CASE d # c
      <4>1. d \in 0 .. c - 1
        BY <3>4
      <4> QED BY <2>1, <2>2, <3>2, <4>1
    <3> QED BY <3>3, <3>4
  <2>5. Partial(g, c)
    BY <2>3, <2>4
  <2> HIDE DEF Partial
  <2> QED BY <2>5
<1>2. n \in P
  <2> HIDE DEF P
  <2>1. 0 .. n \subseteq P
    BY <1>1, Ascent
  <2> QED BY <2>1
<1>3. PICK g : g = [d \in 0 .. n |-> g[d]] /\ \A d \in 0 .. n : g[d] = Val(d, g)
  BY <1>2
<1>4. g = [d \in 0 .. n |-> Val(d, g)]
  <2> HIDE DEF Val
  <2> QED BY <1>3
<1>5. ByTens(g, n, B, F)
  BY <1>4 DEF ByTens
<1> QED BY <1>5, TensType

\* The digits of a number.
Digits == Seq(ToSet(Digit))

\* f and l hold the digits and their count for every number up to n.
IsDecimal(f, n) ==
    /\ f \in [0 .. n -> Digits]
    /\ \A k \in 0 .. n : f[k] = IF k < 10 THEN <<Digit[k + 1]>> ELSE Append(f[k \div 10], Digit[(k % 10) + 1])
IsLength(l, n) ==
    /\ l \in [0 .. n -> Nat]
    /\ \A k \in 0 .. n : l[k] = IF k < 10 THEN 1 ELSE 1 + l[k \div 10]

\* Decimal is such a recursion.
LEMMA DecimalRun ==
  ASSUME NEW n \in Nat
  PROVE  \E f : IsDecimal(f, n) /\ Decimal(n) = f[n]
<1> DEFINE D == ToSet(Digit)
           T == Seq(D)
           B == [k \in 0 .. n |-> IF k < 10 THEN <<Digit[k + 1]>> ELSE <<>>]
           F == [p \in (0 .. n) \X T |-> Append(p[2], Digit[(p[1] % 10) + 1])]
<1>1. \A d \in 0 .. 9 : Digit[d + 1] \in D
  BY ValueOfProps
<1> HIDE DEF D
<1>2. ASSUME NEW k \in 0 .. n PROVE B[k] \in T /\ (k < 10 => B[k] = <<Digit[k + 1]>>)
  <2>1. CASE k < 10
    <3>1. Digit[k + 1] \in D
      BY <1>1, <2>1
    <3> QED BY <2>1, <3>1
  <2>2. CASE ~(k < 10)
    BY <2>2
  <2> QED BY <2>1, <2>2
<1>3. ASSUME NEW k \in 0 .. n, NEW v \in T PROVE F[<<k, v>>] = Append(v, Digit[(k % 10) + 1]) /\ F[<<k, v>>] \in T
  <2>1. F[<<k, v>>] = Append(v, Digit[(k % 10) + 1])
    OBVIOUS
  <2>2. k % 10 \in 0 .. 9
    BY Tenth
  <2>3. Digit[(k % 10) + 1] \in D
    BY <1>1, <2>2
  <2> QED BY <2>1, <2>3
<1> HIDE DEF B, F, T
<1>4. PICK g : ByTens(g, n, B, F) /\ \A k \in 0 .. n : g[k] \in T
  BY <1>2, <1>3, TensExists
<1> DEFINE Val(g1, k) == IF k < 10 THEN <<Digit[k + 1]>> ELSE Append(g1[k \div 10], Digit[(k % 10) + 1])
<1>5. ASSUME NEW g1, \A k \in 0 .. n : g1[k] \in T, NEW k \in 0 .. n
      PROVE  Val(g1, k) = IF k < 10 THEN B[k] ELSE F[<<k, g1[k \div 10]>>]
  <2>1. CASE k < 10
    BY <1>2, <2>1
  <2>2. CASE ~(k < 10)
    <3> DEFINE t == k \div 10
    <3>1. t \in 0 .. n
      BY <2>2, Tenth
    <3> HIDE DEF t
    <3>2. F[<<k, g1[t]>>] = Append(g1[t], Digit[(k % 10) + 1])
      BY <1>3, <1>5, <3>1
    <3> QED BY <2>2, <3>2 DEF t
  <2> QED BY <2>1, <2>2
<1>6. g = [k \in 0 .. n |-> Val(g, k)]
  <2>1. \A k \in 0 .. n : Val(g, k) = IF k < 10 THEN B[k] ELSE F[<<k, g[k \div 10]>>]
    BY <1>4, <1>5
  <2> HIDE DEF Val
  <2> QED BY <1>4, <2>1 DEF ByTens
<1>7. PICK h : h = [k \in 0 .. n |-> Val(h, k)] /\ Decimal(n) = h[n]
  BY <1>6, Zenon DEF Decimal
<1> HIDE DEF Val
<1> DEFINE P == {k \in 0 .. n : h[k] \in T}
<1>8. ASSUME NEW c \in 0 .. n, \A d \in 0 .. c - 1 : d \in P PROVE c \in P
  <2>1. h[c] = Val(h, c)
    BY <1>7
  <2>2. CASE c < 10
    BY <1>2, <2>1, <2>2 DEF Val
  <2>3. CASE ~(c < 10)
    <3> DEFINE t == c \div 10
    <3>1. t \in 0 .. c - 1
      BY <2>3, Tenth
    <3> HIDE DEF t
    <3>2. h[t] \in T
      BY <1>8, <3>1
    <3>3. h[c] = Append(h[t], Digit[(c % 10) + 1])
      BY <2>1, <2>3 DEF t, Val
    <3> QED BY <1>3, <3>2, <3>3
  <2> QED BY <2>2, <2>3
<1>9. 0 .. n \subseteq P
  <2> HIDE DEF P
  <2> QED BY <1>8, Ascent
<1>10. h \in [0 .. n -> T]
  <2>1. \A k \in 0 .. n : h[k] \in T
    BY <1>9
  <2>2. h = [k \in 0 .. n |-> h[k]]
    BY <1>7
  <2> QED BY <2>1, <2>2
<1>11. \A k \in 0 .. n : h[k] = Val(h, k)
  BY <1>7
<1>12. IsDecimal(h, n)
  BY <1>10, <1>11 DEF IsDecimal, Val, T, D, Digits
<1> QED BY <1>7, <1>12

\* So is DecimalLen.
LEMMA LengthRun ==
  ASSUME NEW n \in Nat
  PROVE  \E l : IsLength(l, n) /\ DecimalLen(n) = l[n]
<1> DEFINE B == [k \in 0 .. n |-> 1]
           F == [p \in (0 .. n) \X Nat |-> 1 + p[2]]
<1>1. \A k \in 0 .. n : B[k] = 1 /\ B[k] \in Nat
  OBVIOUS
<1>2. ASSUME NEW k \in 0 .. n, NEW v \in Nat PROVE F[<<k, v>>] = 1 + v /\ F[<<k, v>>] \in Nat
  OBVIOUS
<1> HIDE DEF B, F
<1>3. PICK g : ByTens(g, n, B, F) /\ \A k \in 0 .. n : g[k] \in Nat
  BY <1>1, <1>2, TensExists
<1> DEFINE Val(g1, k) == IF k < 10 THEN 1 ELSE 1 + g1[k \div 10]
<1>4. g = [k \in 0 .. n |-> Val(g, k)]
  <2>1. ASSUME NEW k \in 0 .. n PROVE Val(g, k) = IF k < 10 THEN B[k] ELSE F[<<k, g[k \div 10]>>]
    <3>1. CASE k < 10
      BY <1>1, <3>1
    <3>2. CASE ~(k < 10)
      <4> DEFINE t == k \div 10
      <4>1. t \in 0 .. n
        BY <3>2, Tenth
      <4> HIDE DEF t
      <4>2. F[<<k, g[t]>>] = 1 + g[t]
        BY <1>2, <1>3, <4>1
      <4> QED BY <3>2, <4>2 DEF t
    <3> QED BY <3>1, <3>2
  <2> HIDE DEF Val
  <2> QED BY <1>3, <2>1 DEF ByTens
<1>5. PICK h : h = [k \in 0 .. n |-> Val(h, k)] /\ DecimalLen(n) = h[n]
  BY <1>4, Zenon DEF DecimalLen
<1> HIDE DEF Val
<1> DEFINE P == {k \in 0 .. n : h[k] \in Nat}
<1>6. ASSUME NEW c \in 0 .. n, \A d \in 0 .. c - 1 : d \in P PROVE c \in P
  <2>1. h[c] = Val(h, c)
    BY <1>5
  <2>2. CASE c < 10
    BY <2>1, <2>2 DEF Val
  <2>3. CASE ~(c < 10)
    <3> DEFINE t == c \div 10
    <3>1. t \in 0 .. c - 1
      BY <2>3, Tenth
    <3> HIDE DEF t
    <3>2. h[t] \in Nat
      BY <1>6, <3>1
    <3>3. h[c] = 1 + h[t]
      BY <2>1, <2>3 DEF t, Val
    <3> QED BY <3>2, <3>3
  <2> QED BY <2>2, <2>3
<1>7. 0 .. n \subseteq P
  <2> HIDE DEF P
  <2> QED BY <1>6, Ascent
<1>8. h \in [0 .. n -> Nat]
  <2>1. \A k \in 0 .. n : h[k] \in Nat
    BY <1>7
  <2>2. h = [k \in 0 .. n |-> h[k]]
    BY <1>5
  <2> QED BY <2>1, <2>2
<1>9. \A k \in 0 .. n : h[k] = Val(h, k)
  BY <1>5
<1>10. IsLength(h, n)
  BY <1>8, <1>9 DEF IsLength, Val
<1> QED BY <1>5, <1>10

\* One more digit.
LEMMA UsizeAppend ==
  ASSUME NEW S, NEW s \in Seq(S), NEW c \in S
  PROVE  ParseUsize(Append(s, c)) = AddDigit(IF s = <<>> THEN 0 ELSE ParseUsize(s), c)
<1> DEFINE u == Append(s, c)
           N == Len(s)
<1>1. u \in Seq(S) /\ Len(u) = N + 1 /\ N \in Nat /\ u # <<>> /\ u[N + 1] = c /\ \A i \in 1 .. N : u[i] = s[i]
  OBVIOUS
<1>2. PICK f : IsNumber(f, s) /\ ParseUsize(s) = IF s = <<>> THEN -1 ELSE f[Len(s)]
  BY UsizeRun
<1> HIDE DEF u
<1>3. PICK g : IsNumber(g, u) /\ ParseUsize(u) = IF u = <<>> THEN -1 ELSE g[Len(u)]
  BY <1>1, UsizeRun
<1> DEFINE P == {n \in 0 .. N : g[n] = f[n]}
<1>4. 0 \in P
  BY <1>1, <1>2, <1>3 DEF IsNumber
<1>5. ASSUME NEW n \in 1 .. N, n - 1 \in P PROVE n \in P
  <2>1. u[n] = s[n] /\ n \in 1 .. Len(u) /\ n \in 0 .. N
    BY <1>1
  <2>2. f[n] = AddDigit(f[n - 1], s[n]) /\ g[n] = AddDigit(g[n - 1], u[n])
    BY <1>2, <1>3, <2>1 DEF IsNumber
  <2> QED BY <1>5, <2>1, <2>2
<1>6. g[N] = f[N]
  <2>1. 0 .. N \subseteq P
    <3> HIDE DEF P, N
    <3> QED BY <1>1, <1>4, <1>5, Induction
  <2>2. N \in 0 .. N
    BY <1>1
  <2> QED BY <2>1, <2>2
<1>7. g[N + 1] = AddDigit(g[N], c)
  <2>1. N + 1 \in 1 .. Len(u) /\ (N + 1) - 1 = N
    BY <1>1
  <2> QED BY <1>1, <1>3, <2>1 DEF IsNumber
<1>8. ParseUsize(u) = AddDigit(f[N], c)
  BY <1>1, <1>3, <1>6, <1>7
<1>9. CASE s = <<>>
  <2>1. N = 0
    BY <1>9
  <2>2. f[N] = 0
    BY <1>2, <2>1 DEF IsNumber
  <2> QED BY <1>8, <1>9, <2>2 DEF u
<1>10. CASE s # <<>>
  <2>1. f[N] = ParseUsize(s)
    BY <1>2, <1>10
  <2> QED BY <1>8, <1>10, <2>1 DEF u
<1> QED BY <1>9, <1>10

\* A digit is added without overflow if the number fits.
LEMMA AddDigitFits ==
  ASSUME NEW v \in Nat, NEW d \in 0 .. 9, 10 * v + d <= SizeMax
  PROVE  AddDigit(v, Digit[d + 1]) = 10 * v + d
<1>1. ValueOf(Digit[d + 1]) = d /\ Digit[d + 1] \in ToSet(Digit)
  BY ValueOfProps
<1> DEFINE c == Digit[d + 1]
<1> HIDE DEF c
<1>2. SizeMax \in Nat
  BY ProtoAssumption
<1>3. ~(v > (SizeMax - d) \div 10)
  <2> DEFINE m == SizeMax - d
             q == m \div 10
  <2>1. m \in Nat /\ 10 * v <= m
    BY <1>2
  <2> HIDE DEF m
  <2>2. q \in Nat /\ m = 10 * q + (m % 10) /\ m % 10 \in 0 .. 9
    BY <2>1, Tenth
  <2> HIDE DEF q
  <2>3. ~(v > q)
    BY <2>1, <2>2
  <2> QED BY <2>3 DEF q, m
<1>4. AddDigit(v, c) = v * 10 + d
  BY <1>1, <1>3 DEF AddDigit, c
<1> QED BY <1>4 DEF c

\* append_decimal writes digits that parse_usize reads back, as many as decimal_len says.
LEMMA DecimalProps ==
  ASSUME NEW n \in Nat
  PROVE  /\ Decimal(n) \in Digits /\ Decimal(n) # <<>>
         /\ Len(Decimal(n)) = DecimalLen(n)
         /\ n <= SizeMax => ParseUsize(Decimal(n)) = n
<1>1. PICK f : IsDecimal(f, n) /\ Decimal(n) = f[n]
  BY DecimalRun
<1>2. PICK l : IsLength(l, n) /\ DecimalLen(n) = l[n]
  BY LengthRun
<1> DEFINE D == ToSet(Digit)
           Right(k) == f[k] \in Seq(D) /\ f[k] # <<>> /\ Len(f[k]) = l[k] /\ (k <= SizeMax => ParseUsize(f[k]) = k)
           P == {k \in 0 .. n : Right(k)}
<1>3. SizeMax \in Nat
  BY ProtoAssumption
<1>4. ASSUME NEW c \in 0 .. n, \A d \in 0 .. c - 1 : d \in P PROVE c \in P
  <2>1. /\ f[c] = IF c < 10 THEN <<Digit[c + 1]>> ELSE Append(f[c \div 10], Digit[(c % 10) + 1])
        /\ l[c] = IF c < 10 THEN 1 ELSE 1 + l[c \div 10]
    BY <1>1, <1>2 DEF IsDecimal, IsLength
  <2>2. \A d \in 0 .. 9 : Digit[d + 1] \in D
    BY ValueOfProps
  <2> HIDE DEF D
  <2>3. CASE c < 10
    <3> DEFINE b == Digit[c + 1]
    <3>1. b \in D /\ f[c] = <<b>> /\ l[c] = 1
      BY <2>1, <2>2, <2>3
    <3>2. c <= SizeMax => AddDigit(0, b) = c
      <4>1. 0 \in Nat /\ c \in 0 .. 9 /\ 10 * 0 + c = c
        BY <2>3
      <4> QED BY <4>1, AddDigitFits
    <3> HIDE DEF b
    <3>3. ParseUsize(Append(<<>>, b)) = AddDigit(0, b)
      <4>1. <<>> \in Seq(D)
        OBVIOUS
      <4> QED BY <3>1, <4>1, UsizeAppend
    <3>4. Append(<<>>, b) = <<b>>
      OBVIOUS
    <3>5. f[c] \in Seq(D) /\ f[c] # <<>> /\ Len(f[c]) = l[c]
      BY <3>1
    <3>6. Right(c)
      BY <3>1, <3>2, <3>3, <3>4, <3>5
    <3> HIDE DEF Right
    <3> QED BY <3>6
  <2>4. CASE ~(c < 10)
    <3> DEFINE t == c \div 10
               r == c % 10
               b == Digit[r + 1]
    <3>1. t \in 0 .. c - 1 /\ r \in 0 .. 9 /\ c = 10 * t + r
      BY <2>4, Tenth
    <3>2. f[c] = Append(f[t], b) /\ l[c] = 1 + l[t]
      BY <2>1, <2>4
    <3> HIDE DEF t, r
    <3>3. b \in D
      BY <2>2, <3>1
    <3>4. Right(t) /\ t \in Nat /\ t <= c
      BY <1>4, <3>1
    <3>5. c <= SizeMax => AddDigit(t, b) = c
      BY <3>1, <3>4, AddDigitFits
    <3>6. l[t] \in Nat
      BY <1>2, <3>1 DEF IsLength
    <3> DEFINE s == f[t]
    <3> HIDE DEF b
    <3>7. s \in Seq(D) /\ s # <<>> /\ Len(s) = l[t] /\ (t <= SizeMax => ParseUsize(s) = t)
      BY <3>4
    <3> HIDE DEF s, Right
    <3>8. ParseUsize(Append(s, b)) = AddDigit(ParseUsize(s), b)
      BY <3>3, <3>7, UsizeAppend
    <3>9. Append(s, b) \in Seq(D) /\ Append(s, b) # <<>> /\ Len(Append(s, b)) = l[c]
      BY <3>2, <3>3, <3>6, <3>7
    <3>10. c <= SizeMax => ParseUsize(Append(s, b)) = c
      <4>1. c <= SizeMax => t <= SizeMax
        BY <1>3, <3>1, <3>4
      <4> QED BY <3>5, <3>7, <3>8, <4>1
    <3>11. Right(c)
      BY <3>2, <3>9, <3>10 DEF Right, s
    <3> QED BY <3>11
  <2> QED BY <2>3, <2>4
<1>5. 0 .. n \subseteq P
  <2> HIDE DEF P
  <2> QED BY <1>4, Ascent
<1>6. Right(n)
  <2> HIDE DEF Right
  <2>1. n \in 0 .. n
    OBVIOUS
  <2> QED BY <1>5, <2>1
<1> QED BY <1>1, <1>2, <1>6 DEF Digits

\* mb_msg_frame_len is the length of the frame.
LEMMA FrameLen ==
  ASSUME NEW S, NEW prefix \in Seq(S), NEW subject \in Seq(S), NEW sid \in Seq(S), NEW replyTo \in Seq(S),
         NEW payload \in Seq(S)
  PROVE  Len(MsgFrame(prefix, subject, sid, replyTo, payload)) = MsgFrameLen(prefix, subject, sid, replyTo, payload)
<1> DEFINE U == S \cup {"M", "S", "G", "SP", "CR", "LF"} \cup ToSet(Digit)
           num == Decimal(Len(payload))
           msg == <<"M", "S", "G", "SP">>
           crlf == <<"CR", "LF">>
           sp == <<"SP">>
           rep == IF replyTo = <<>> THEN <<>> ELSE Append(replyTo, "SP")
<1>1. /\ msg \in Seq(U) /\ Len(msg) = 4 /\ crlf \in Seq(U) /\ Len(crlf) = 2 /\ sp \in Seq(U) /\ Len(sp) = 1
  OBVIOUS
<1>2. prefix \in Seq(U) /\ subject \in Seq(U) /\ sid \in Seq(U) /\ replyTo \in Seq(U) /\ payload \in Seq(U)
  OBVIOUS
<1>3. num \in Seq(U) /\ Len(num) = DecimalLen(Len(payload)) /\ Len(num) \in Nat
  <2>1. Len(payload) \in Nat
    OBVIOUS
  <2>2. num \in Digits /\ Len(num) = DecimalLen(Len(payload))
    BY <2>1, DecimalProps
  <2> HIDE DEF num
  <2> QED BY <2>2 DEF Digits
<1>4. rep \in Seq(U) /\ Len(rep) = IF replyTo = <<>> THEN 0 ELSE Len(replyTo) + 1
  BY <1>2
<1> HIDE DEF num, msg, crlf, sp, rep, U
<1>5. Len(msg \o prefix \o subject \o sp \o sid \o sp \o rep \o num \o crlf \o payload \o crlf)
        = 4 + Len(prefix) + Len(subject) + 1 + Len(sid) + 1 + Len(rep) + Len(num) + 2 + Len(payload) + 2
  <2>1. \A a, b \in Seq(U) : a \o b \in Seq(U) /\ Len(a \o b) = Len(a) + Len(b) /\ Len(a) \in Nat /\ Len(b) \in Nat
    OBVIOUS
  <2> DEFINE c1 == msg \o prefix
             c2 == c1 \o subject
             c3 == c2 \o sp
             c4 == c3 \o sid
             c5 == c4 \o sp
             c6 == c5 \o rep
             c7 == c6 \o num
             c8 == c7 \o crlf
             c9 == c8 \o payload
             c10 == c9 \o crlf
  <2>2. c1 \in Seq(U) /\ Len(c1) = 4 + Len(prefix)
    BY <1>1, <1>2, <2>1
  <2> HIDE DEF c1
  <2>3. c2 \in Seq(U) /\ Len(c2) = Len(c1) + Len(subject)
    BY <1>2, <2>1, <2>2
  <2> HIDE DEF c2
  <2>4. c3 \in Seq(U) /\ Len(c3) = Len(c2) + 1
    BY <1>1, <2>1, <2>3
  <2> HIDE DEF c3
  <2>5. c4 \in Seq(U) /\ Len(c4) = Len(c3) + Len(sid)
    BY <1>2, <2>1, <2>4
  <2> HIDE DEF c4
  <2>6. c5 \in Seq(U) /\ Len(c5) = Len(c4) + 1
    BY <1>1, <2>1, <2>5
  <2> HIDE DEF c5
  <2>7. c6 \in Seq(U) /\ Len(c6) = Len(c5) + Len(rep)
    BY <1>4, <2>1, <2>6
  <2> HIDE DEF c6
  <2>8. c7 \in Seq(U) /\ Len(c7) = Len(c6) + Len(num)
    BY <1>3, <2>1, <2>7
  <2> HIDE DEF c7
  <2>9. c8 \in Seq(U) /\ Len(c8) = Len(c7) + 2
    BY <1>1, <2>1, <2>8
  <2> HIDE DEF c8
  <2>10. c9 \in Seq(U) /\ Len(c9) = Len(c8) + Len(payload)
    BY <1>2, <2>1, <2>9
  <2> HIDE DEF c9
  <2>11. Len(c10) = Len(c9) + 2
    BY <1>1, <2>1, <2>10
  <2>12. Len(c10) = 4 + Len(prefix) + Len(subject) + 1 + Len(sid) + 1 + Len(rep) + Len(num) + 2 + Len(payload) + 2
    BY <2>2, <2>3, <2>4, <2>5, <2>6, <2>7, <2>8, <2>9, <2>10, <2>11
  <2> QED BY <2>12 DEF c1, c2, c3, c4, c5, c6, c7, c8, c9, c10
<1>6. MsgFrame(prefix, subject, sid, replyTo, payload)
        = msg \o prefix \o subject \o sp \o sid \o sp \o rep \o num \o crlf \o payload \o crlf
  BY DEF MsgFrame, num, msg, crlf, sp, rep
<1> QED BY <1>3, <1>4, <1>5, <1>6 DEF MsgFrameLen

\* The words a line is made of, and the bytes.
Clean(S) == {t \in Seq(S) : t # <<>> /\ \A i \in 1 .. Len(t) : t[i] \notin Control}
Unbroken(s) == \A i \in 1 .. Len(s) : s[i] \notin {"CR", "LF"}

\* A line of the verb and the first n arguments.
LinesOf(S, verb, args, n) ==
    {s \in Seq(S) : s # <<>> /\ Unbroken(s) /\ Tokens(s) = <<verb>> \o SubSeq(args, 1, n)}

\* Two runs of bytes without a line end make one.
LEMMA UnbrokenConcat ==
  ASSUME NEW S, NEW s \in Seq(S), NEW t \in Seq(S), Unbroken(s), Unbroken(t)
  PROVE  Unbroken(s \o t)
<1> DEFINE u == s \o t
<1>1. /\ Len(u) = Len(s) + Len(t) /\ Len(s) \in Nat /\ Len(t) \in Nat
      /\ \A i \in 1 .. Len(s) + Len(t) : u[i] = IF i <= Len(s) THEN s[i] ELSE t[i - Len(s)]
  BY ConcatProperties
<1> HIDE DEF u
<1>2. ASSUME NEW i \in 1 .. Len(u) PROVE u[i] \notin {"CR", "LF"}
  <2>1. CASE i <= Len(s)
    <3>1. u[i] = s[i] /\ i \in 1 .. Len(s)
      BY <1>1, <2>1
    <3> QED BY <3>1 DEF Unbroken
  <2>2. CASE ~(i <= Len(s))
    <3>1. u[i] = t[i - Len(s)] /\ i - Len(s) \in 1 .. Len(t)
      BY <1>1, <2>2
    <3> QED BY <3>1 DEF Unbroken
  <2> QED BY <2>1, <2>2
<1> QED BY <1>2 DEF Unbroken, u

\* A word without control bytes is a word for next_token and does not break a line.
LEMMA CleanProps ==
  ASSUME NEW S, NEW t \in Clean(S)
  PROVE  t \in Word(S) /\ t \in Seq(S) /\ t # <<>> /\ Unbroken(t)
BY DEF Clean, Word, Unbroken, Control

\* A blank and a word more.
LEMMA WordAdded ==
  ASSUME NEW S, NEW verb \in Clean(S), NEW args \in Seq(Clean(S)), NEW gap \in S \cap Blank,
         NEW n \in 1 .. Len(args), NEW s \in LinesOf(S, verb, args, n - 1)
  PROVE  Append(s, gap) \o args[n] \in LinesOf(S, verb, args, n)
<1> DEFINE u == Append(s, gap)
           t == args[n]
           W == Clean(S)
<1>1. s \in Seq(S) /\ s # <<>> /\ Unbroken(s) /\ Tokens(s) = <<verb>> \o SubSeq(args, 1, n - 1)
  BY DEF LinesOf
<1>2. t \in Clean(S)
  BY ElementOfSeq
<1>3. t \in Word(S) /\ t \in Seq(S) /\ t # <<>> /\ Unbroken(t)
  BY <1>2, CleanProps
<1>4. u \in Seq(S) /\ u # <<>> /\ u[Len(u)] \in Blank
  BY <1>1
<1>5. Tokens(u) = Tokens(s)
  BY <1>1, TokensBlank
<1>6. Unbroken(u)
  <2>1. gap \notin {"CR", "LF"}
    BY DEF Blank
  <2> QED BY <1>1, <2>1 DEF Unbroken
<1> HIDE DEF u, t
<1>7. Tokens(u \o t) = Append(Tokens(u), t)
  BY <1>3, <1>4, TokensWord
<1>8. u \o t \in Seq(S) /\ u \o t # <<>> /\ Unbroken(u \o t)
  <2>1. u \o t \in Seq(S) /\ u \o t # <<>>
    BY <1>3, <1>4
  <2> QED BY <1>3, <1>4, <1>6, <2>1, UnbrokenConcat
<1>9. Append(<<verb>> \o SubSeq(args, 1, n - 1), t) = <<verb>> \o SubSeq(args, 1, n)
  <2> HIDE DEF W
  <2>1. verb \in W /\ args \in Seq(W) /\ t \in W /\ t = args[n]
    BY <1>2 DEF W, t
  <2> DEFINE a == SubSeq(args, 1, n - 1)
  <2>2. a \in Seq(W) /\ SubSeq(args, 1, n) = Append(a, t)
    BY <2>1
  <2> HIDE DEF a
  <2>3. Append(<<verb>> \o a, t) = <<verb>> \o Append(a, t)
    BY <2>1, <2>2
  <2> QED BY <2>2, <2>3 DEF a
<1> QED BY <1>1, <1>5, <1>7, <1>8, <1>9 DEF LinesOf, u, t

\* Before the first argument, the verb is all there is.
LEMMA FirstWord ==
  ASSUME NEW T, NEW v \in T, NEW a \in Seq(T)
  PROVE  Append(<<>>, v) = <<v>> \o SubSeq(a, 1, 0)
<1>1. SubSeq(a, 1, 0) = <<>>
  OBVIOUS
<1>2. <<v>> \o <<>> = <<v>>
  OBVIOUS
<1> QED BY <1>1, <1>2

\* A line is its words.
LEMMA LineProps ==
  ASSUME NEW S, NEW verb \in Clean(S), NEW args \in Seq(Clean(S)), NEW gap \in S \cap Blank
  PROVE  /\ Line(verb, args, gap) \in Seq(S) /\ Line(verb, args, gap) # <<>>
         /\ Unbroken(Line(verb, args, gap))
         /\ Tokens(Line(verb, args, gap)) = <<verb>> \o args
<1> DEFINE N == Len(args)
           T == [n \in 0 .. N |-> LinesOf(S, verb, args, n)]
           F == [p \in (1 .. N) \X Seq(S) |-> Append(p[2], gap) \o args[p[1]]]
<1>1. N \in Nat
  OBVIOUS
<1>2. ASSUME NEW n \in 1 .. N, NEW x \in Seq(S) PROVE F[<<n, x>>] = Append(x, gap) \o args[n]
  OBVIOUS
<1>3. ASSUME NEW n \in 0 .. N PROVE T[n] = LinesOf(S, verb, args, n) /\ T[n] \subseteq Seq(S)
  BY DEF LinesOf
<1>4. verb \in T[0]
  <2>1. verb \in Word(S) /\ verb \in Seq(S) /\ verb # <<>> /\ Unbroken(verb)
    BY CleanProps
  <2>2. Tokens(<<>> \o verb) = Append(Tokens(<<>>), verb)
    <3>1. <<>> \in Seq(S) /\ (<<>> # <<>> => <<>>[Len(<<>>)] \in Blank)
      OBVIOUS
    <3> QED BY <2>1, <3>1, TokensWord
  <2>3. Tokens(<<>>) = <<>>
    <3>1. <<>> \in Seq(S) /\ Len(<<>>) = 0
      OBVIOUS
    <3>2. PICK f : IsScan(f, S, <<>>) /\ Tokens(<<>>) = f[Len(<<>>)]
      BY <3>1, TokensScan
    <3> QED BY <3>1, <3>2 DEF IsScan
  <2>4. <<>> \o verb = verb
    BY <2>1, ConcatEmptySeq
  <2>5. Append(<<>>, verb) = <<verb>> \o SubSeq(args, 1, 0)
    BY FirstWord
  <2>6. verb \in LinesOf(S, verb, args, 0)
    BY <2>1, <2>2, <2>3, <2>4, <2>5 DEF LinesOf
  <2> QED BY <1>1, <1>3, <2>6
<1> HIDE DEF F, T, N
<1>5. ASSUME NEW n \in 1 .. N, NEW x \in T[n - 1]
      PROVE  F[<<n, x>>] \in T[n] /\ x \in Seq(S) /\ Append(x, gap) \o args[n] \in T[n]
  <2>1. n \in 0 .. N /\ n - 1 \in 0 .. N
    BY <1>1
  <2>2. x \in LinesOf(S, verb, args, n - 1) /\ x \in Seq(S)
    BY <1>3, <2>1
  <2>3. Append(x, gap) \o args[n] \in LinesOf(S, verb, args, n)
    BY <2>2, WordAdded DEF N
  <2> QED BY <1>2, <1>3, <2>1, <2>2, <2>3
<1>6. PICK g : IsRun(g, N, verb, F) /\ \A n \in 0 .. N : g[n] \in T[n]
  BY <1>1, <1>4, <1>5, Recursion
<1>7. g = [n \in 0 .. N |-> IF n = 0 THEN verb ELSE Append(g[n - 1], gap) \o args[n]]
  <2>1. \A n \in 0 .. N : n # 0 => n \in 1 .. N /\ n - 1 \in 0 .. N
    BY <1>1
  <2>2. \A n \in 0 .. N : n # 0 => F[<<n, g[n - 1]>>] = Append(g[n - 1], gap) \o args[n]
    BY <1>2, <1>3, <1>6, <2>1
  <2> QED BY <1>6, <2>2 DEF IsRun
<1>8. PICK h : /\ h = [n \in 0 .. N |-> IF n = 0 THEN verb ELSE Append(h[n - 1], gap) \o args[n]]
               /\ Line(verb, args, gap) = h[N]
  BY <1>7, Zenon DEF Line, N
<1>9. h[0] = verb /\ \A n \in 1 .. N : h[n] = Append(h[n - 1], gap) \o args[n]
  <2>1. 0 \in 0 .. N /\ \A n \in 1 .. N : n \in 0 .. N /\ n # 0
    BY <1>1
  <2> QED BY <1>8, <2>1, Zenon
<1>10. \A n \in 0 .. N : h[n] \in T[n]
  <2>1. h[0] \in T[0]
    BY <1>4, <1>9
  <2>2. ASSUME NEW n \in 1 .. N, h[n - 1] \in T[n - 1] PROVE h[n] \in T[n]
    BY <1>5, <1>9, <2>2
  <2> QED BY <1>1, <2>1, <2>2, Stays
<1>11. h[N] \in LinesOf(S, verb, args, N)
  <2>1. N \in 0 .. N
    BY <1>1
  <2> QED BY <1>3, <1>10, <2>1
<1>12. SubSeq(args, 1, N) = args
  BY DEF N
<1> QED BY <1>8, <1>11, <1>12 DEF LinesOf

\* Where the line of a buffer ends, and what it says.
LEMMA LineParsed ==
  ASSUME NEW S, NEW s \in Seq(S), Unbroken(s), Tokens(s) # <<>>, NEW eol \in Eols, eol \in Seq(S), NEW y \in Seq(S),
         Len(s \o eol) <= MaxControlLine + 1, NEW buf, buf = (s \o eol) \o y
  PROVE  ParseClientOp(buf) = ParseVerb(buf, Head(Tokens(s)), Tail(Tokens(s)), Len(s \o eol))
<1> DEFINE M == Len(s)
           K == Len(eol)
           h == s \o eol
<1>1. K \in {1, 2} /\ eol[K] = "LF" /\ (K = 2 => eol[1] = "CR")
  <2>1. CASE eol = <<"LF">>
    BY <2>1
  <2>2. CASE eol = <<"CR", "LF">>
    BY <2>2
  <2> QED BY <2>1, <2>2 DEF Eols
<1>2. /\ h \in Seq(S) /\ Len(h) = M + K /\ M \in Nat
      /\ \A i \in 1 .. M + K : h[i] = IF i <= M THEN s[i] ELSE eol[i - M]
  BY ConcatProperties
<1> HIDE DEF h, M, K
<1>3. /\ buf \in Seq(S) /\ Len(buf) = (M + K) + Len(y) /\ Len(y) \in Nat
      /\ \A i \in 1 .. M + K : buf[i] = h[i]
      /\ \A n \in 0 .. M + K : SubSeq(buf, 1, n) = SubSeq(h, 1, n)
  <2>1. buf = h \o y
    BY DEF h
  <2>2. 1 \in Nat /\ 1 >= 1
    OBVIOUS
  <2>3. buf \in Seq(S) /\ Len(buf) = Len(h) + Len(y) /\ Len(y) \in Nat
        /\ \A i \in 1 .. Len(h) : buf[i] = h[i]
    BY <1>2, <2>1, ConcatProperties
  <2>4. \A n \in 0 .. Len(h) : SubSeq(buf, 1, n) = SubSeq(h, 1, n)
    BY <1>2, <2>1, <2>2, Concat
  <2> QED BY <1>2, <2>3, <2>4
<1>4. \A i \in 1 .. M : buf[i] = s[i]
  BY <1>1, <1>2, <1>3, SMTT(30)
<1>5. buf[M + K] = "LF" /\ (K = 2 => buf[M + 1] = "CR")
  BY <1>1, <1>2, <1>3, SMTT(30)
<1> DEFINE nl == LineLen(buf)
<1>6. nl \in 0 .. Len(buf) /\ (\A i \in 1 .. nl : buf[i] # "LF") /\ (nl < Len(buf) => buf[nl + 1] = "LF")
  BY <1>3, LineLenProps
<1> HIDE DEF nl
<1>7. nl = (M + K) - 1
  <2>1. ~(nl >= M + K)
    <3>1. nl >= M + K => M + K \in 1 .. nl
      BY <1>1, <1>2, <1>6
    <3> QED BY <1>5, <1>6, <3>1
  <2>2. \A i \in 1 .. (M + K) - 1 : buf[i] # "LF"
    <3>1. ASSUME NEW i \in 1 .. (M + K) - 1 PROVE buf[i] # "LF"
      <4>1. CASE i <= M
        <5>1. i \in 1 .. Len(s)
          BY <1>2, <4>1 DEF M
        <5> QED BY <1>4, <4>1, <5>1 DEF Unbroken, M
      <4>2. CASE ~(i <= M)
        <5>1. K = 2 /\ i = M + 1
          BY <1>1, <1>2, <4>2
        <5> QED BY <1>5, <5>1
      <4> QED BY <4>1, <4>2
    <3> QED BY <3>1
  <2>3. ~(nl < (M + K) - 1)
    BY <1>1, <1>2, <1>3, <1>6, <2>2
  <2> QED BY <1>1, <1>2, <1>3, <1>6, <2>1, <2>3
<1>8. LineTokens(buf, nl) = Tokens(s)
  <2> DEFINE m == IF nl > 0 /\ buf[nl] = "CR" THEN nl - 1 ELSE nl
  <2>1. m = M
    <3>1. CASE K = 2
      <4>1. nl = M + 1 /\ nl > 0 /\ buf[nl] = "CR"
        <5>1. nl = M + 1
          BY <1>2, <1>7, <3>1
        <5>2. buf[nl] = "CR"
          BY <1>5, <3>1, <5>1
        <5>3. nl > 0
          BY <1>2, <5>1
        <5> QED BY <5>1, <5>2, <5>3
      <4> QED BY <1>2, <4>1
    <3>2. CASE K = 1
      <4>1. nl = M
        BY <1>2, <1>7, <3>2
      <4>2. M > 0 => buf[M] # "CR"
        <5>1. M > 0 => M \in 1 .. Len(s) /\ M \in 1 .. M
          BY <1>2 DEF M
        <5> QED BY <1>4, <5>1 DEF Unbroken
      <4> QED BY <4>1, <4>2
    <3> QED BY <1>1, <3>1, <3>2
  <2>2. LineTokens(buf, nl) = Tokens(SubSeq(buf, 1, m))
    BY DEF LineTokens
  <2> HIDE DEF m
  <2>3. M \in 0 .. M + K
    BY <1>1, <1>2
  <2>4. SubSeq(buf, 1, M) = SubSeq(h, 1, M)
    BY <1>3, <2>3
  <2>5. SubSeq(h, 1, M) = s
    <3>1. SubSeq(s \o eol, 1, Len(s)) = SubSeq(s, 1, Len(s))
      <4>1. Len(s) \in 0 .. Len(s) /\ 1 \in Nat /\ 1 >= 1
        OBVIOUS
      <4> QED BY <4>1, Concat
    <3>2. SubSeq(s, 1, Len(s)) = s
      OBVIOUS
    <3> QED BY <3>1, <3>2 DEF h, M
  <2> QED BY <2>1, <2>2, <2>4, <2>5
<1>9. ~(nl > MaxControlLine) /\ nl # Len(buf) /\ nl + 1 = Len(h)
  <2>1. MaxControlLine \in Nat /\ Len(h) <= MaxControlLine + 1
    BY ProtoAssumption DEF h
  <2> QED BY <1>1, <1>2, <1>3, <1>7, <2>1
<1> QED BY <1>8, <1>9 DEF ParseClientOp, nl, h

\* The bytes a client writes.
Alphabet == STRING \cup ToSet(Digit) \cup Control \cup {"PING", "CONNECT", "SUB", "UNSUB", "PUB"}

\* A sequence is one over every set that has its elements.
LEMMA SeqWider ==
  ASSUME NEW A, NEW B, NEW s \in Seq(A), \A i \in 1 .. Len(s) : s[i] \in B
  PROVE  s \in Seq(B)
<1>1. Len(s) \in Nat /\ s = [i \in 1 .. Len(s) |-> s[i]]
  OBVIOUS
<1> QED BY <1>1

\* What the run writes are bytes a client writes,
LEMMA StringsAreBytes ==
  ASSUME NEW s \in Seq(STRING)
  PROVE  s \in Seq(Alphabet)
BY SeqWider DEF Alphabet

\* and so are the digits of a number.
LEMMA DecimalIsBytes ==
  ASSUME NEW n \in Nat
  PROVE  Decimal(n) \in Seq(Alphabet)
<1>1. Decimal(n) \in Seq(ToSet(Digit))
  BY DecimalProps DEF Digits
<1> DEFINE d == Decimal(n)
           D == ToSet(Digit)
<1>2. d \in Seq(D)
  BY <1>1
<1>3. D \subseteq Alphabet
  BY DEF Alphabet
<1> HIDE DEF d, D
<1> QED BY <1>2, <1>3, SeqWider DEF d

\* Short sequences.
LEMMA Pairs ==
  ASSUME NEW T, NEW a \in T, NEW b \in T, NEW c \in T
  PROVE  /\ <<a>> \in Seq(T) /\ <<a, b>> \in Seq(T) /\ <<a, b, c>> \in Seq(T)
         /\ Len(<<a>>) = 1 /\ Len(<<a, b>>) = 2 /\ Len(<<a, b, c>>) = 3
         /\ <<a>>[1] = a /\ <<a, b>>[1] = a /\ <<a, b>>[2] = b
         /\ <<a, b, c>>[1] = a /\ <<a, b, c>>[2] = b /\ <<a, b, c>>[3] = c
OBVIOUS

\* The operations of each kind.
LEMMA Kinds ==
  ASSUME NEW op \in ClientOp
  PROVE  /\ op.kind \in {"ping", "connect", "sub", "unsub", "pub"}
         /\ op.kind = "ping" => op = [kind |-> "ping"]
         /\ op.kind = "connect" => op.json \in Seq(Seq(STRING)) /\ op = [kind |-> "connect", json |-> op.json]
         /\ op.kind = "sub" => /\ op.subject \in Seq(STRING) /\ op.sid \in Seq(STRING) /\ op.queue \in Seq(STRING)
                               /\ op = [kind |-> "sub", subject |-> op.subject, sid |-> op.sid, queue |-> op.queue]
         /\ op.kind = "unsub" => /\ op.sid \in Seq(STRING) /\ op.hasMax \in BOOLEAN /\ op.max \in Nat
                                 /\ op = [kind |-> "unsub", sid |-> op.sid, hasMax |-> op.hasMax, max |-> op.max]
         /\ op.kind = "pub" => /\ op.subject \in Seq(STRING) /\ op.replyTo \in Seq(STRING) /\ op.payload \in Seq(STRING)
                               /\ op = [kind |-> "pub", subject |-> op.subject, replyTo |-> op.replyTo,
                                        payload |-> op.payload]
<1> DEFINE W == Seq(STRING)
           WW == Seq(Seq(STRING))
<1>1. op \in [kind : {"ping"}] \cup [kind : {"connect"}, json : WW]
             \cup [kind : {"sub"}, subject : W, sid : W, queue : W]
             \cup [kind : {"unsub"}, sid : W, hasMax : BOOLEAN, max : Nat]
             \cup [kind : {"pub"}, subject : W, replyTo : W, payload : W]
  BY DEF ClientOp
<1> HIDE DEF W, WW
<1>2. CASE op \in [kind : {"ping"}]
  BY <1>2 DEF W, WW
<1>3. CASE op \in [kind : {"connect"}, json : WW]
  BY <1>3 DEF W, WW
<1>4. CASE op \in [kind : {"sub"}, subject : W, sid : W, queue : W]
  BY <1>4 DEF W, WW
<1>5. CASE op \in [kind : {"unsub"}, sid : W, hasMax : BOOLEAN, max : Nat]
  BY <1>5 DEF W, WW
<1>6. CASE op \in [kind : {"pub"}, subject : W, replyTo : W, payload : W]
  BY <1>6 DEF W, WW
<1> QED BY <1>1, <1>2, <1>3, <1>4, <1>5, <1>6

\* What a client writes is words without control bytes.
LEMMA OpWords ==
  ASSUME NEW op, WellFormed(op)
  PROVE  Verb[op.kind] \in Clean(Alphabet) /\ Args(op) \in Seq(Clean(Alphabet))
<1> DEFINE A == Seq(Alphabet)
           C == Clean(Alphabet)
           args == Args(op)
<1>1. op \in ClientOp /\ \A i \in 1 .. Len(args) : TokenValid(args[i])
  BY DEF WellFormed
<1>2. Verb[op.kind] \in C
  <2>1. op.kind \in {"ping", "connect", "sub", "unsub", "pub"}
    BY <1>1, Kinds
  <2>2. \A v \in {"PING", "CONNECT", "SUB", "UNSUB", "PUB"} : <<v>> \in C
    <3>1. TAKE v \in {"PING", "CONNECT", "SUB", "UNSUB", "PUB"}
    <3>2. v \in Alphabet /\ v \notin Control
      BY DEF Alphabet, Control, Blank
    <3> QED BY <3>2 DEF Clean
  <2> HIDE DEF C
  <2> QED BY <2>1, <2>2 DEF Verb
<1>3. args \in Seq(A)
  <2>1. \A s \in Seq(STRING) : s \in A
    BY StringsAreBytes
  <2>2. \A n \in Nat : Decimal(n) \in A
    BY DecimalIsBytes
  <2> HIDE DEF A
  <2>3. CASE op.kind = "ping"
    BY <2>3 DEF Args
  <2>4. CASE op.kind = "connect"
    <3>1. op.json \in Seq(Seq(STRING)) /\ args = op.json
      BY <1>1, <2>4, Kinds DEF Args
    <3> DEFINE B == Seq(STRING)
    <3>2. op.json \in Seq(B) /\ \A s \in B : s \in A
      BY <2>1, <3>1
    <3> HIDE DEF B, args
    <3> QED BY <3>1, <3>2, SeqWider
  <2>5. CASE op.kind = "sub"
    <3>1. op.subject \in A /\ op.sid \in A /\ op.queue \in A
      BY <1>1, <2>1, <2>5, Kinds
    <3>2. args = IF op.queue = <<>> THEN <<op.subject, op.sid>> ELSE <<op.subject, op.queue, op.sid>>
      BY <2>5 DEF Args
    <3> QED BY <3>1, <3>2, Pairs
  <2>6. CASE op.kind = "unsub"
    <3>1. op.sid \in A /\ Decimal(op.max) \in A
      BY <1>1, <2>1, <2>2, <2>6, Kinds
    <3>2. args = IF op.hasMax THEN <<op.sid, Decimal(op.max)>> ELSE <<op.sid>>
      BY <2>6 DEF Args
    <3> QED BY <3>1, <3>2, Pairs
  <2>7. CASE op.kind = "pub"
    <3>1. op.subject \in A /\ op.replyTo \in A /\ Len(op.payload) \in Nat
      BY <1>1, <2>1, <2>7, Kinds
    <3>2. Decimal(Len(op.payload)) \in A
      BY <2>2, <3>1
    <3>3. args = IF op.replyTo = <<>> THEN <<op.subject, Decimal(Len(op.payload))>>
                 ELSE <<op.subject, op.replyTo, Decimal(Len(op.payload))>>
      BY <2>7 DEF Args
    <3> QED BY <3>1, <3>2, <3>3, Pairs
  <2> QED BY <1>1, <2>3, <2>4, <2>5, <2>6, <2>7, Kinds
<1>4. \A t \in A : TokenValid(t) => t \in C
  <2>1. \A t \in Seq(Alphabet) : DOMAIN t = 1 .. Len(t)
    OBVIOUS
  <2> QED BY <2>1 DEF TokenValid, Clean
<1>5. args \in Seq(C)
  <2> HIDE DEF A, C, args
  <2>1. \A i \in 1 .. Len(args) : args[i] \in A
    BY <1>3, ElementOfSeq
  <2>2. \A i \in 1 .. Len(args) : args[i] \in C
    BY <1>1, <1>4, <2>1
  <2> QED BY <1>3, <2>2, SeqWider
<1> QED BY <1>2, <1>5

\* What parse_sub asks of its words.
SubAllowed(subject, sid, queue) ==
    SubjectValid(subject, TRUE) /\ TokenValid(sid) /\ (queue # <<>> => TokenValid(queue))

\* What parse_pub asks of its subjects.
PubAllowed(subject, replyTo) ==
    SubjectValid(subject, FALSE) /\ (replyTo # <<>> => SubjectValid(replyTo, FALSE))

\* What the parsers of the arguments return for words they allow, whatever these are.
LEMMA SubParsed ==
  ASSUME NEW subject, NEW sid, NEW queue, NEW k,
         SubAllowed(subject, sid, queue),
         NEW args, args = IF queue = <<>> THEN <<subject, sid>> ELSE <<subject, queue, sid>>
  PROVE  ParseSub(args, k) = Ok([kind |-> "sub", subject |-> subject, sid |-> sid, queue |-> queue], k)
<1>0. SubjectValid(subject, TRUE) /\ TokenValid(sid) /\ (queue # <<>> => TokenValid(queue))
  BY DEF SubAllowed
<1>1. CASE queue = <<>>
  <2>1. Len(args) = 2 /\ args[1] = subject /\ args[2] = sid
    BY <1>1
  <2>2. \A i \in 2 .. 2 : TokenValid(args[i])
    BY <1>0, <2>1
  <2> QED BY <1>0, <1>1, <2>1, <2>2 DEF ParseSub
<1>2. CASE queue # <<>>
  <2>1. Len(args) = 3 /\ args[1] = subject /\ args[2] = queue /\ args[3] = sid
    BY <1>2
  <2>2. \A i \in 2 .. 3 : TokenValid(args[i])
    BY <1>0, <1>2, <2>1
  <2> QED BY <1>0, <1>2, <2>1, <2>2 DEF ParseSub
<1> QED BY <1>1, <1>2

\* parse_unsub, with the number that parse_usize reads.
LEMMA UnsubParsed ==
  ASSUME NEW sid, NEW hasMax \in BOOLEAN, NEW max \in Nat, NEW k, NEW word,
         TokenValid(sid), ParseUsize(word) = max, ~hasMax => max = 0,
         NEW args, args = IF hasMax THEN <<sid, word>> ELSE <<sid>>
  PROVE  ParseUnsub(args, k) = Ok([kind |-> "unsub", sid |-> sid, hasMax |-> hasMax, max |-> max], k)
<1>0. max # -1
  OBVIOUS
<1>1. CASE hasMax
  <2>1. Len(args) = 2 /\ args[1] = sid /\ args[2] = word
    BY <1>1
  <2>2. (Len(args) = 2) = hasMax
    BY <1>1, <2>1
  <2>3. Len(args) \in {1, 2}
    BY <2>1
  <2> QED BY <1>0, <2>1, <2>2, <2>3, Zenon DEF ParseUnsub
<1>2. CASE ~hasMax
  <2>1. Len(args) = 1 /\ args[1] = sid
    BY <1>2
  <2>2. (Len(args) = 2) = hasMax /\ ~(Len(args) = 2)
    BY <1>2, <2>1
  <2>3. Len(args) \in {1, 2}
    BY <2>1
  <2>4. max = 0
    BY <1>2
  <2> QED BY <1>0, <2>1, <2>2, <2>3, <2>4, Zenon DEF ParseUnsub
<1> QED BY <1>1, <1>2

\* A payload and its trailer.
LEMMA TrailerRead ==
  ASSUME NEW S, NEW eol \in Eols, eol \in Seq(S), NEW y \in Seq(S)
  PROVE  Trailer(eol \o y) = Len(eol) /\ Len(eol) \in {1, 2}
<1> DEFINE t == eol \o y
<1>1. /\ Len(t) = Len(eol) + Len(y) /\ Len(y) \in Nat
      /\ \A i \in 1 .. Len(eol) : t[i] = eol[i]
  BY Concat
<1> HIDE DEF t
<1>2. CASE eol = <<"LF">>
  <2>1. Len(eol) = 1 /\ eol[1] = "LF"
    BY <1>2
  <2>2. t[1] = "LF"
    BY <1>1, <2>1
  <2> QED BY <2>1, <2>2 DEF Trailer, t
<1>3. CASE eol = <<"CR", "LF">>
  <2>1. Len(eol) = 2 /\ eol[1] = "CR" /\ eol[2] = "LF"
    BY <1>3
  <2>2. t[1] = "CR" /\ t[2] = "LF" /\ ~(Len(t) < 2)
    BY <1>1, <2>1
  <2> QED BY <2>1, <2>2 DEF Trailer, t
<1> QED BY <1>2, <1>3 DEF Eols

\* A part of a sequence.
LEMMA Slice ==
  ASSUME NEW S, NEW s \in Seq(S), NEW m \in Nat, NEW k \in Nat, m + k <= Len(s)
  PROVE  /\ SubSeq(s, m + 1, m + k) \in Seq(S) /\ Len(SubSeq(s, m + 1, m + k)) = k
         /\ \A i \in 1 .. k : SubSeq(s, m + 1, m + k)[i] = s[m + i]
BY SMTT(30)

\* The words of a PUB.
PubArgs(subject, replyTo, word) ==
    IF replyTo = <<>> THEN <<subject, word>> ELSE <<subject, replyTo, word>>

\* parse_pub takes the payload by its length and the trailer as the line end it is.
LEMMA PubParsed ==
  ASSUME NEW S, NEW head \in Seq(S), NEW payload \in Seq(S), NEW eol \in Eols, eol \in Seq(S), NEW y \in Seq(S),
         NEW subject, NEW replyTo, NEW word, ParseUsize(word) = Len(payload), Len(payload) <= MaxPayload,
         PubAllowed(subject, replyTo)
  PROVE  ParsePub(head \o (payload \o (eol \o y)), PubArgs(subject, replyTo, word), Len(head))
           = Ok([kind |-> "pub", subject |-> subject, replyTo |-> replyTo, payload |-> payload],
                Len(head) + Len(payload) + Len(eol))
<1>0. SubjectValid(subject, FALSE) /\ (replyTo # <<>> => SubjectValid(replyTo, FALSE))
  BY DEF PubAllowed
<1> DEFINE args == PubArgs(subject, replyTo, word)
           buf == head \o (payload \o (eol \o y))
<1>a. args = IF replyTo = <<>> THEN <<subject, word>> ELSE <<subject, replyTo, word>>
  BY DEF PubArgs
<1>b. buf = head \o (payload \o (eol \o y))
  OBVIOUS
<1> HIDE DEF args, buf
<1> DEFINE N == Len(args)
           M == Len(head)
           P == Len(payload)
           t == eol \o y
           u == payload \o t
<1>1. t \in Seq(S) /\ Len(t) = Len(eol) + Len(y) /\ Len(y) \in Nat /\ Len(eol) \in Nat
  BY Concat
<1>2. Trailer(t) = Len(eol) /\ Len(eol) \in {1, 2}
  BY TrailerRead
<1> HIDE DEF t
<1>3. u \in Seq(S) /\ Len(u) = P + Len(t) /\ P \in Nat /\ SubSeq(u, 1, P) = payload
  <2>1. u \in Seq(S) /\ Len(u) = P + Len(t) /\ P \in Nat
    BY <1>1, Concat
  <2>2. P \in 0 .. Len(payload) /\ 1 \in Nat /\ 1 >= 1
    OBVIOUS
  <2>3. SubSeq(u, 1, P) = SubSeq(payload, 1, P)
    BY <1>1, <2>2, Concat
  <2>4. SubSeq(payload, 1, P) = payload
    OBVIOUS
  <2> QED BY <2>1, <2>3, <2>4
<1>4. SubSeq(u, P + 1, Len(u)) = t
  <2>1. P + 1 \in 1 .. Len(payload) + 1
    OBVIOUS
  <2>2. SubSeq(u, P + 1, Len(u)) = SubSeq(payload, P + 1, Len(payload)) \o t
    BY <1>1, <2>1, ConcatRest
  <2>3. SubSeq(payload, P + 1, Len(payload)) = <<>>
    OBVIOUS
  <2>4. <<>> \o t = t
    BY <1>1
  <2> QED BY <2>2, <2>3, <2>4
<1>5. buf = head \o u
  BY <1>b DEF u, t
<1> HIDE DEF u, P
<1>6. buf \in Seq(S) /\ Len(buf) = M + Len(u) /\ M \in Nat
  <2>1. head \o u \in Seq(S) /\ Len(head \o u) = M + Len(u) /\ M \in Nat
    <3>1. u \in Seq(S)
      BY <1>3
    <3> QED BY <3>1, ConcatProperties
  <2> QED BY <1>5, <2>1
<1>7. \A k \in 0 .. P : SubSeq(buf, M + 1, M + k) = SubSeq(u, 1, k)
  <2> SUFFICES ASSUME NEW k \in 0 .. P PROVE SubSeq(buf, M + 1, M + k) = SubSeq(u, 1, k)
    OBVIOUS
  <2> DEFINE l == SubSeq(buf, M + 1, M + k)
             r == SubSeq(u, 1, k)
  <2>1. \A i \in 1 .. Len(u) : buf[M + i] = u[i]
    BY <1>3, <1>5, <1>6
  <2>2. k <= Len(u) /\ M + k <= Len(buf)
    BY <1>1, <1>3, <1>6
  <2>3. l \in Seq(S) /\ Len(l) = k /\ \A i \in 1 .. k : l[i] = buf[M + i]
    <3> HIDE DEF M
    <3>1. k \in Nat
      BY <1>3
    <3>2. /\ SubSeq(buf, M + 1, M + k) \in Seq(S) /\ Len(SubSeq(buf, M + 1, M + k)) = k
          /\ \A i \in 1 .. k : SubSeq(buf, M + 1, M + k)[i] = buf[M + i]
      BY <1>6, <2>2, <3>1, Slice, Zenon
    <3> QED BY <3>2
  <2>4. r \in Seq(S) /\ Len(r) = k /\ \A i \in 1 .. k : r[i] = u[i]
    BY <1>3, <2>2
  <2> HIDE DEF l, r
  <2>5. \A i \in 1 .. k : l[i] = r[i]
    <3>1. \A i \in 1 .. k : i \in 1 .. Len(u)
      BY <1>1, <1>3, <2>2
    <3> QED BY <2>1, <2>3, <2>4, <3>1
  <2>6. l = r
    BY <2>3, <2>4, <2>5, SeqEqual
  <2> QED BY <2>6 DEF l, r
<1>8. SubSeq(buf, M + 1, M + P) = payload
  <2>1. P \in 0 .. P /\ SubSeq(u, 1, P) = payload
    BY <1>3
  <2> QED BY <1>7, <2>1, Zenon
<1>9. SubSeq(buf, M + P + 1, Len(buf)) = t
  <2>1. P + 1 \in 1 .. Len(u) + 1
    BY <1>1, <1>3
  <2>2. SubSeq(buf, M + (P + 1), Len(buf)) = SubSeq(u, P + 1, Len(u))
    <3>1. M + 1 \in 1 .. Len(head) + 1
      BY <1>6
    <3> DEFINE l == SubSeq(buf, M + (P + 1), Len(buf))
               r == SubSeq(u, P + 1, Len(u))
               L == Len(u) - P
    <3>2. \A i \in 1 .. Len(u) : buf[M + i] = u[i]
      BY <1>3, <1>5, <1>6
    <3>3. L \in Nat
      BY <1>1, <1>3
    <3>4. l \in Seq(S) /\ Len(l) = L /\ \A i \in 1 .. L : l[i] = buf[M + (P + i)]
      <4> DEFINE m == M + P
      <4>1. m \in Nat /\ m + L = Len(buf) /\ M + (P + 1) = m + 1
        BY <1>1, <1>3, <1>6
      <4>2. \A i \in 1 .. L : m + i = M + (P + i)
        BY <1>3, <1>6
      <4>3. l = SubSeq(buf, m + 1, m + L)
        <5> HIDE DEF m, L
        <5> QED BY <4>1
      <4> DEFINE n == Len(buf)
      <4>4. m + L <= n
        <5>1. n \in Nat /\ n = m + L
          BY <1>6, <4>1
        <5> HIDE DEF n, m, L
        <5> QED BY <3>3, <5>1
      <4> HIDE DEF m, L
      <4>5. SubSeq(buf, m + 1, m + L) \in Seq(S) /\ Len(SubSeq(buf, m + 1, m + L)) = L
            /\ \A i \in 1 .. L : SubSeq(buf, m + 1, m + L)[i] = buf[m + i]
        <5>1. buf \in Seq(S) /\ m \in Nat /\ L \in Nat /\ m + L <= Len(buf)
          BY <1>6, <3>3, <4>1, <4>4
        <5> QED BY <5>1, Slice, Zenon
      <4>6. l \in Seq(S) /\ Len(l) = L /\ \A i \in 1 .. L : l[i] = buf[m + i]
        BY <4>3, <4>5, Zenon
      <4> QED BY <4>2, <4>6
    <3>5. r \in Seq(S) /\ Len(r) = L /\ \A i \in 1 .. L : r[i] = u[P + i]
      BY <1>1, <1>3, <3>3
    <3>6. \A i \in 1 .. L : P + i \in 1 .. Len(u)
      BY <1>1, <1>3
    <3> HIDE DEF l, r, L
    <3>7. l = r
      BY <3>2, <3>3, <3>4, <3>5, <3>6, SeqEqual
    <3> QED BY <3>7 DEF l, r
  <2>3. M + (P + 1) = M + P + 1
    BY <1>3, <1>6
  <2> QED BY <1>4, <2>2, <2>3
<1> DEFINE e == Len(eol)
           b == Len(buf)
<1>10. ~(b - M <= P) /\ Trailer(t) # 0 /\ Trailer(t) # -1 /\ P # -1 /\ ~(P > MaxPayload)
  <2>1. e \in {1, 2} /\ b = M + (P + (e + Len(y))) /\ Len(y) \in Nat
    BY <1>1, <1>2, <1>3, <1>6
  <2>2. Trailer(t) = e /\ P <= MaxPayload /\ MaxPayload \in Nat
    BY <1>2, ProtoAssumption DEF P
  <2> HIDE DEF e, b, M
  <2> QED BY <1>3, <1>6, <2>1, <2>2
<1>11. /\ N \in {2, 3} /\ args[N] = word /\ args[1] = subject
       /\ replyTo = (IF N = 3 THEN args[2] ELSE <<>>)
       /\ \A i \in 1 .. N - 1 : SubjectValid(args[i], FALSE)
  <2>1. CASE replyTo = <<>>
    <3>1. N = 2 /\ args[1] = subject /\ args[2] = word
      BY <1>a, <2>1
    <3>2. \A i \in 1 .. N - 1 : i = 1
      BY <3>1
    <3> HIDE DEF N
    <3>3. \A i \in 1 .. N - 1 : SubjectValid(args[i], FALSE)
      BY <1>0, <3>1, <3>2, Zenon
    <3>4. N # 3
      BY <3>1
    <3>5. replyTo = (IF N = 3 THEN args[2] ELSE <<>>)
      BY <2>1, <3>4
    <3> QED BY <3>1, <3>3, <3>5
  <2>2. CASE replyTo # <<>>
    <3>1. N = 3 /\ args[1] = subject /\ args[2] = replyTo /\ args[3] = word
      BY <1>a, <2>2
    <3>2. \A i \in 1 .. N - 1 : i = 1 \/ i = 2
      BY <3>1
    <3> QED BY <1>0, <2>2, <3>1, <3>2
  <2> QED BY <2>1, <2>2
<1>12. ParseUsize(args[N]) = P
  BY <1>11 DEF P
<1> HIDE DEF N, M, b, e
<1>13. ParsePub(buf, args, M)
         = Ok([kind |-> "pub", subject |-> args[1], replyTo |-> IF N = 3 THEN args[2] ELSE <<>>,
               payload |-> SubSeq(buf, M + 1, M + P)], M + P + Trailer(t))
  BY <1>9, <1>10, <1>11, <1>12, Zenon DEF ParsePub, N, b
<1> QED BY <1>2, <1>8, <1>11, <1>13 DEF M, P, args, buf

\* A line by its verb.
LEMMA VerbParsed ==
  ASSUME NEW op, WellFormed(op), op.kind # "pub", NEW buf, NEW k
  PROVE  ParseVerb(buf, Verb[op.kind], Args(op), k) = Ok(op, k)
<1> DEFINE args == Args(op)
<1>1. op \in ClientOp /\ \A i \in 1 .. Len(args) : TokenValid(args[i])
  BY DEF WellFormed
<1>2. CASE op.kind = "ping"
  <2>1. op = [kind |-> "ping"] /\ args = <<>> /\ Verb[op.kind] = <<"PING">>
    BY <1>1, <1>2, Kinds DEF Args, Verb
  <2> QED BY <2>1 DEF ParseVerb
<1>3. CASE op.kind = "connect"
  <2>1. op = [kind |-> "connect", json |-> op.json] /\ args = op.json /\ Verb[op.kind] = <<"CONNECT">>
    BY <1>1, <1>3, Kinds DEF Args, Verb
  <2>2. <<"CONNECT">> # <<"PING">>
    OBVIOUS
  <2>3. ParseVerb(buf, <<"CONNECT">>, args, k) = Ok([kind |-> "connect", json |-> args], k)
    BY <2>2 DEF ParseVerb
  <2> QED BY <2>1, <2>3
<1>4. CASE op.kind = "sub"
  <2>1. /\ op = [kind |-> "sub", subject |-> op.subject, sid |-> op.sid, queue |-> op.queue]
        /\ Verb[op.kind] = <<"SUB">>
        /\ args = IF op.queue = <<>> THEN <<op.subject, op.sid>> ELSE <<op.subject, op.queue, op.sid>>
    BY <1>1, <1>4, Kinds DEF Args, Verb
  <2>2. SubjectValid(op.subject, TRUE)
    BY <1>4 DEF WellFormed
  <2>3. TokenValid(op.sid) /\ (op.queue # <<>> => TokenValid(op.queue))
    <3>1. CASE op.queue = <<>>
      <4>1. 2 \in 1 .. Len(args) /\ args[2] = op.sid
        BY <2>1, <3>1
      <4> QED BY <1>1, <3>1, <4>1
    <3>2. CASE op.queue # <<>>
      <4>1. 2 \in 1 .. Len(args) /\ args[2] = op.queue /\ 3 \in 1 .. Len(args) /\ args[3] = op.sid
        BY <2>1, <3>2
      <4> QED BY <1>1, <4>1
    <3> QED BY <3>1, <3>2
  <2> DEFINE r == [kind |-> "sub", subject |-> op.subject, sid |-> op.sid, queue |-> op.queue]
  <2>4. ParseSub(args, k) = Ok(r, k)
    <3> DEFINE a == op.subject
               b == op.sid
               q == op.queue
    <3>1. args = IF q = <<>> THEN <<a, b>> ELSE <<a, q, b>>
      BY <2>1
    <3>2. SubAllowed(a, b, q)
      BY <2>2, <2>3 DEF SubAllowed
    <3> HIDE DEF args, a, b, q
    <3>3. ParseSub(args, k) = Ok([kind |-> "sub", subject |-> a, sid |-> b, queue |-> q], k)
      BY <3>1, <3>2, SubParsed
    <3> QED BY <3>3 DEF a, b, q
  <2>5. <<"SUB">> # <<"PING">> /\ <<"SUB">> # <<"CONNECT">>
    OBVIOUS
  <2>6. ParseVerb(buf, <<"SUB">>, args, k) = ParseSub(args, k)
    BY <2>5 DEF ParseVerb
  <2> QED BY <2>1, <2>4, <2>6
<1>5. CASE op.kind = "unsub"
  <2>1. /\ op = [kind |-> "unsub", sid |-> op.sid, hasMax |-> op.hasMax, max |-> op.max]
        /\ op.max \in Nat /\ op.hasMax \in BOOLEAN
        /\ Verb[op.kind] = <<"UNSUB">>
        /\ args = IF op.hasMax THEN <<op.sid, Decimal(op.max)>> ELSE <<op.sid>>
    BY <1>1, <1>5, Kinds DEF Args, Verb
  <2>2. op.max <= SizeMax /\ (~op.hasMax => op.max = 0)
    BY <1>5 DEF WellFormed
  <2>3. ParseUsize(Decimal(op.max)) = op.max
    BY <2>1, <2>2, DecimalProps
  <2>4. TokenValid(op.sid)
    <3>1. 1 \in 1 .. Len(args) /\ args[1] = op.sid
      BY <2>1
    <3> QED BY <1>1, <3>1
  <2> DEFINE r == [kind |-> "unsub", sid |-> op.sid, hasMax |-> op.hasMax, max |-> op.max]
  <2>5. ParseUnsub(args, k) = Ok(r, k)
    <3> HIDE DEF args
    <3> QED BY <2>1, <2>2, <2>3, <2>4, UnsubParsed
  <2>6. <<"UNSUB">> # <<"PING">> /\ <<"UNSUB">> # <<"CONNECT">> /\ <<"UNSUB">> # <<"SUB">>
    OBVIOUS
  <2>7. ParseVerb(buf, <<"UNSUB">>, args, k) = ParseUnsub(args, k)
    BY <2>6 DEF ParseVerb
  <2> QED BY <2>1, <2>5, <2>7
<1> QED BY <1>1, <1>2, <1>3, <1>4, <1>5, Kinds

\* What a client wrote is what mb_parse_client_op returns, whatever follows it.
LEMMA OpParsed ==
  ASSUME NEW op, WellFormed(op), NEW gap \in Blank, NEW eol \in Eols, LineFits(op, gap, eol),
         NEW y \in Seq(Alphabet)
  PROVE  /\ Wire(op, gap, eol) \in Seq(Alphabet) /\ Wire(op, gap, eol) # <<>>
         /\ ParseClientOp(Wire(op, gap, eol) \o y) = Ok(op, Len(Wire(op, gap, eol)))
<1> DEFINE S == Alphabet
           C == Clean(S)
           verb == Verb[op.kind]
           args == Args(op)
           line == Line(verb, args, gap)
           head == line \o eol
<1>1. op \in ClientOp /\ verb \in C /\ args \in Seq(C)
  BY OpWords DEF WellFormed
<1>2. gap \in S \cap Blank
  BY DEF Alphabet, Control
<1>3. eol \in Seq(S) /\ eol # <<>> /\ Len(eol) \in Nat
  <2>1. "CR" \in S /\ "LF" \in S
    BY DEF Alphabet, Control
  <2> HIDE DEF S
  <2>2. CASE eol = <<"LF">>
    BY <2>1, <2>2
  <2>3. CASE eol = <<"CR", "LF">>
    BY <2>1, <2>3
  <2> QED BY <2>2, <2>3 DEF Eols
<1> HIDE DEF S, verb, args
<1>4. line \in Seq(S) /\ line # <<>> /\ Unbroken(line) /\ Tokens(line) = <<verb>> \o args
  BY <1>1, <1>2, LineProps
<1> HIDE DEF C, line
<1>5. Tokens(line) # <<>> /\ Head(Tokens(line)) = verb /\ Tail(Tokens(line)) = args
  <2>1. <<verb>> \o args # <<>> /\ Head(<<verb>> \o args) = verb /\ Tail(<<verb>> \o args) = args
    BY <1>1
  <2> QED BY <1>4, <2>1
<1>6. head \in Seq(S) /\ head # <<>> /\ Len(head) \in Nat
  BY <1>3, <1>4
<1>7. Len(head) <= MaxControlLine + 1
  BY DEF LineFits, line, verb, args
<1>8. ASSUME NEW z \in Seq(S), NEW buf, buf = head \o z
      PROVE  ParseClientOp(buf) = ParseVerb(buf, verb, args, Len(head))
  <2>1. ParseClientOp(buf) = ParseVerb(buf, Head(Tokens(line)), Tail(Tokens(line)), Len(line \o eol))
    BY <1>3, <1>4, <1>5, <1>7, <1>8, LineParsed
  <2> QED BY <1>5, <2>1
<1>9. CASE op.kind # "pub"
  <2>1. Wire(op, gap, eol) = head
    <3>1. Wire(op, gap, eol) = head \o <<>>
      BY <1>9 DEF Wire, line, verb, args
    <3> HIDE DEF head
    <3> QED BY <1>6, <3>1
  <2>2. ParseVerb(head \o y, verb, args, Len(head)) = Ok(op, Len(head))
    BY <1>9, VerbParsed DEF verb, args
  <2>3. ParseClientOp(head \o y) = ParseVerb(head \o y, verb, args, Len(head))
    <3> HIDE DEF head
    <3> QED BY <1>8 DEF S
  <2> HIDE DEF head
  <2> QED BY <1>6, <2>1, <2>2, <2>3 DEF S
<1>10. CASE op.kind = "pub"
  <2> DEFINE p == op.payload
             a == op.subject
             q == op.replyTo
             word == Decimal(Len(p))
             t == eol \o y
             z == p \o t
             w == head \o (p \o eol)
  <2>1. /\ op = [kind |-> "pub", subject |-> a, replyTo |-> q, payload |-> p]
        /\ p \in Seq(STRING)
    BY <1>1, <1>10, Kinds
  <2>2. p \in Seq(S) /\ Len(p) \in Nat
    BY <2>1, StringsAreBytes DEF S
  <2>3. /\ verb = <<"PUB">>
        /\ args = IF q = <<>> THEN <<a, word>> ELSE <<a, q, word>>
    BY <1>10 DEF verb, args, Verb, Args
  <2>4. /\ SubjectValid(a, FALSE) /\ (q # <<>> => SubjectValid(q, FALSE))
        /\ Len(p) <= MaxPayload /\ Len(p) <= SizeMax
    BY <1>10 DEF WellFormed
  <2>5. ParseUsize(word) = Len(p)
    BY <2>2, <2>4, DecimalProps
  <2>6. Wire(op, gap, eol) = w
    BY <1>10 DEF Wire, line, verb, args
  <2> HIDE DEF p, a, q, word, head
  <2>7. t \in Seq(S) /\ z \in Seq(S) /\ p \o eol \in Seq(S) /\ Len(p \o eol) = Len(p) + Len(eol)
    <3>1. t \in Seq(S)
      BY <1>3 DEF S
    <3> HIDE DEF t
    <3> QED BY <1>3, <2>2, <3>1
  <2>8. w \in Seq(S) /\ w # <<>> /\ Len(w) = Len(head) + (Len(p) + Len(eol))
    <3> DEFINE pe == p \o eol
    <3>1. pe \in Seq(S) /\ Len(pe) = Len(p) + Len(eol)
      BY <2>7
    <3> HIDE DEF pe
    <3>2. head \o pe \in Seq(S) /\ head \o pe # <<>> /\ Len(head \o pe) = Len(head) + Len(pe)
      BY <1>6, <3>1
    <3> QED BY <3>1, <3>2 DEF pe
  <2>9. w \o y = head \o z
    <3> DEFINE pe == p \o eol
    <3>1. y \in Seq(S)
      BY DEF S
    <3>2. pe \o y = z
      BY <1>3, <2>2, <3>1, ConcatAssociative
    <3>3. pe \in Seq(S)
      BY <2>7
    <3> HIDE DEF pe, z
    <3>4. (head \o pe) \o y = head \o (pe \o y)
      BY <1>6, <3>1, <3>3, ConcatAssociative
    <3> QED BY <3>2, <3>4 DEF pe
  <2> DEFINE buf == head \o z
             r == [kind |-> "pub", subject |-> a, replyTo |-> q, payload |-> p]
  <2>10. ParsePub(buf, args, Len(head)) = Ok(r, Len(head) + Len(p) + Len(eol))
    <3>1. y \in Seq(S)
      BY DEF S
    <3>2. PubAllowed(a, q) /\ ParseUsize(word) = Len(p) /\ Len(p) <= MaxPayload
      BY <2>4, <2>5 DEF PubAllowed
    <3>3. head \in Seq(S) /\ p \in Seq(S) /\ eol \in Seq(S)
      BY <1>3, <1>6, <2>2
    <3>4. args = PubArgs(a, q, word)
      BY <2>3 DEF PubArgs
    <3>5. ParsePub(head \o (p \o (eol \o y)), PubArgs(a, q, word), Len(head))
            = Ok([kind |-> "pub", subject |-> a, replyTo |-> q, payload |-> p], Len(head) + Len(p) + Len(eol))
      BY <3>1, <3>2, <3>3, PubParsed
    <3> QED BY <3>4, <3>5
  <2> HIDE DEF z, w, buf, r
  <2>11. ParseClientOp(buf) = ParseVerb(buf, verb, args, Len(head))
    BY <1>8, <2>7 DEF buf
  <2>12. ParseVerb(buf, verb, args, Len(head)) = ParsePub(buf, args, Len(head))
    <3>1. args # <<>>
      BY <2>3
    <3>2. <<"PUB">> # <<"PING">> /\ <<"PUB">> # <<"CONNECT">> /\ <<"PUB">> # <<"SUB">> /\ <<"PUB">> # <<"UNSUB">>
      OBVIOUS
    <3> QED BY <2>3, <3>1, <3>2 DEF ParseVerb
  <2>13. Len(head) + Len(p) + Len(eol) = Len(w)
    BY <1>3, <1>6, <2>2, <2>8
  <2>14. ParseClientOp(w \o y) = Ok(op, Len(w))
    BY <2>1, <2>9, <2>10, <2>11, <2>12, <2>13 DEF buf, r
  <2> QED BY <2>6, <2>8, <2>14 DEF S
<1> QED BY <1>9, <1>10

\* The operations of a result replaced.
LEMMA OpsSet ==
  ASSUME NEW S, NEW r \in Results(S), NEW x
  PROVE  [r EXCEPT !.ops = x] = [ops |-> x, rx |-> r.rx, closed |-> r.closed]
<1> DEFINE E == Events(S)
<1>1. r \in [ops : Seq(E), rx : Seq(S), closed : BOOLEAN]
  BY DEF Results
<1> HIDE DEF E
<1> QED BY <1>1

\* And it is what process_rx executes.
LEMMA OpFed ==
  ASSUME NEW op, WellFormed(op), NEW gap \in Blank, NEW eol \in Eols, LineFits(op, gap, eol),
         NEW ops \in Seq(Events(Alphabet))
  PROVE  /\ op \in Events(Alphabet)
         /\ Feed([ops |-> ops, rx |-> <<>>, closed |-> FALSE], Wire(op, gap, eol))
              = [ops |-> Append(ops, op), rx |-> <<>>, closed |-> FALSE]
<1> DEFINE S == Alphabet
           E == Events(S)
           w == Wire(op, gap, eol)
           L == Len(w)
           st == [ops |-> ops, rx |-> <<>>, closed |-> FALSE]
<1>1. <<>> \in Seq(Alphabet)
  OBVIOUS
<1>2. w \in Seq(S) /\ w # <<>> /\ ParseClientOp(w \o <<>>) = Ok(op, L)
  BY <1>1, OpParsed
<1> HIDE DEF S, w
<1>3. w \o <<>> = w /\ <<>> \o w = w /\ L \in Nat /\ L # 0
  BY <1>2
<1>4. ParseClientOp(w) = Ok(op, L)
  BY <1>2, <1>3
<1>5. PICK h : IsLoop(h, S, w) /\ RxLoop(w) = h[0]
  BY <1>2, LoopExists
<1>6. 0 \in 0 .. L /\ L \in 0 .. L /\ h[0] = RxTurn(w, 0, h) /\ h[L] = RxTurn(w, L, h)
  BY <1>3, <1>5 DEF IsLoop
<1>7. RestAt(w, 0) = w
  BY <1>2 DEF RestAt
<1>8. RestAt(w, L) = <<>>
  BY <1>2, <1>6, RestProps
<1>9. ~Waits(w) /\ ~Closes(w) /\ Event(w) = op /\ Stride(w) = L
  BY <1>2, <1>4 DEF Waits, Closes, Event, Stride, Ok, Violations
<1> HIDE DEF L
<1>10. h[0] = AfterEvent(op, h[0 + L]) /\ op \in E
  BY <1>2, <1>6, <1>7, <1>9, TurnKinds DEF L
<1>11. h[L] = [ops |-> <<>>, rx |-> <<>>, closed |-> FALSE]
  <2>1. Waits(<<>>)
    BY DEF Waits
  <2> QED BY <1>2, <1>6, <1>8, <2>1, TurnKinds DEF L
<1> HIDE DEF E
<1>12. RxLoop(w) = [ops |-> <<op>>, rx |-> <<>>, closed |-> FALSE]
  <2>1. 0 + L = L
    BY <1>3
  <2>2. <<op>> \o <<>> = <<op>>
    OBVIOUS
  <2>3. AfterEvent(op, h[L]) = [ops |-> <<op>> \o h[L].ops, rx |-> h[L].rx, closed |-> h[L].closed]
    <3>1. h[L] \in Results(S)
      BY <1>5, <1>6 DEF IsLoop, L
    <3> QED BY <1>10, <3>1, AfterProps DEF E
  <2> QED BY <1>5, <1>10, <1>11, <2>1, <2>2, <2>3
<1>13. ops \o <<op>> = Append(ops, op)
  <2>1. ops \in Seq(E)
    BY DEF E, S
  <2> QED BY <1>10, <2>1
<1>14. Feed(st, w) = [RxLoop(<<>> \o w) EXCEPT !.ops = ops \o @]
  BY DEF Feed
<1>15. Feed(st, w) = [ops |-> ops \o <<op>>, rx |-> <<>>, closed |-> FALSE]
  <2> DEFINE r == RxLoop(w)
             o == ops \o r.ops
  <2>1. r \in Results(S)
    BY <1>5, <1>6 DEF IsLoop, L
  <2>2. Feed(st, w) = [r EXCEPT !.ops = o]
    BY <1>3, <1>14
  <2> HIDE DEF o
  <2>3. [r EXCEPT !.ops = o] = [ops |-> o, rx |-> r.rx, closed |-> r.closed]
    BY <2>1, OpsSet
  <2>4. r.ops = <<op>> /\ r.rx = <<>> /\ r.closed = FALSE
    BY <1>12
  <2>5. o = ops \o <<op>>
    BY <2>4 DEF o
  <2> HIDE DEF r
  <2> QED BY <2>2, <2>3, <2>4, <2>5
<1> QED BY <1>10, <1>13, <1>15 DEF E, S, w

\* A sequence is its two parts at any cut.
LEMMA CutAndJoin ==
  ASSUME NEW S, NEW w \in Seq(S), NEW k \in 0 .. Len(w)
  PROVE  /\ SubSeq(w, 1, k) \in Seq(S) /\ SubSeq(w, k + 1, Len(w)) \in Seq(S)
         /\ SubSeq(w, 1, k) \o SubSeq(w, k + 1, Len(w)) = w
<1> DEFINE a == SubSeq(w, 1, k)
           b == SubSeq(w, k + 1, Len(w))
           N == Len(w)
           c == a \o b
<1>1. N \in Nat /\ k \in Nat /\ k <= N
  OBVIOUS
<1>2. a \in Seq(S) /\ Len(a) = k /\ \A i \in 1 .. k : a[i] = w[i]
  OBVIOUS
<1>3. b \in Seq(S) /\ Len(b) = N - k /\ \A i \in 1 .. N - k : b[i] = w[k + i]
  OBVIOUS
<1> HIDE DEF a, b
<1>4. c \in Seq(S) /\ Len(c) = k + (N - k) /\ \A i \in 1 .. k + (N - k) : c[i] = IF i <= k THEN a[i] ELSE b[i - k]
  <2>1. /\ c \in Seq(S) /\ Len(c) = Len(a) + Len(b)
        /\ \A i \in 1 .. Len(a) + Len(b) : c[i] = IF i <= Len(a) THEN a[i] ELSE b[i - Len(a)]
    <3>1. a \in Seq(S) /\ b \in Seq(S)
      BY <1>2, <1>3
    <3> QED BY <3>1, ConcatProperties
  <2>2. Len(a) = k /\ Len(b) = N - k
    BY <1>2, <1>3
  <2> HIDE DEF c, N
  <2> QED BY <2>1, <2>2
<1> HIDE DEF c
<1>5. \A i \in 1 .. N : c[i] = w[i]
  <2> SUFFICES ASSUME NEW i \in 1 .. N PROVE c[i] = w[i]
    OBVIOUS
  <2> HIDE DEF N
  <2>1. i \in 1 .. k + (N - k)
    BY <1>1
  <2>2. CASE i <= k
    BY <1>1, <1>2, <1>4, <2>1, <2>2
  <2>3. CASE ~(i <= k)
    <3>1. i - k \in 1 .. N - k /\ k + (i - k) = i
      BY <1>1, <2>3
    <3>2. c[i] = b[i - k] /\ b[i - k] = w[k + (i - k)]
      BY <1>3, <1>4, <2>1, <2>3, <3>1
    <3> QED BY <3>1, <3>2
  <2> QED BY <2>2, <2>3
<1>6. Len(c) = N
  <2> HIDE DEF N
  <2> QED BY <1>1, <1>4
<1>7. c = w
  BY <1>4, <1>5, <1>6, SeqEqual
<1> QED BY <1>2, <1>3, <1>7 DEF a, b, c

\* Two elements, one after the other.
LEMMA TwoAppended ==
  ASSUME NEW T, NEW x \in T, NEW y \in T
  PROVE  Append(<<>>, x) \in Seq(T) /\ Append(Append(<<>>, x), y) = <<x, y>>
<1>1. Append(<<>>, x) = <<x>> /\ <<x>> \in Seq(T)
  OBVIOUS
<1>2. Append(<<x>>, y) = <<x, y>>
  <2> DEFINE l == Append(<<x>>, y)
             r == <<x, y>>
  <2>1. l \in Seq(T) /\ Len(l) = 2 /\ l[1] = x /\ l[2] = y
    OBVIOUS
  <2>2. r \in Seq(T) /\ Len(r) = 2 /\ r[1] = x /\ r[2] = y
    OBVIOUS
  <2> HIDE DEF l, r
  <2>3. \A i \in 1 .. 2 : l[i] = r[i]
    <3>1. \A i \in 1 .. 2 : i = 1 \/ i = 2
      OBVIOUS
    <3> QED BY <2>1, <2>2, <3>1, Zenon
  <2>4. l = r
    BY <2>1, <2>2, <2>3, SeqEqual
  <2> QED BY <2>4 DEF l, r
<1> QED BY <1>1, <1>2

\* A new connection is a state to feed.
LEMMA NewIsResult ==
  ASSUME NEW S
  PROVE  NewStream \in Results(S)
<1> DEFINE E == Events(S)
<1> HIDE DEF E
<1>1. NewStream \in [ops : Seq(E), rx : Seq(S), closed : BOOLEAN]
  BY DEF NewStream
<1> QED BY <1>1 DEF Results, E

\* How the network cuts a stream into reads has no effect: process_rx on two reads, from any
\* state of a connection and for any bytes, leaves what it leaves on one read of both, the
\* operations, what waits in rx and whether the connection was closed.  In particular for
\* every cut of what the run writes.
THEOREM CutsDoNotMatter ==
  /\ \A S : \A st \in Results(S), a \in Seq(S), b \in Seq(S) : Feed(Feed(st, a), b) = Feed(st, a \o b)
  /\ ConnSpec => []CutsIrrelevant
<1>1. \A S : \A st \in Results(S), a \in Seq(S), b \in Seq(S) : Feed(Feed(st, a), b) = Feed(st, a \o b)
  BY FeedJoins
<1>2. ASSUME NEW p \in Pieces, NEW q \in Pieces, NEW k \in 0 .. Len(p \o q)
      PROVE  Feed(Feed(NewStream, SubSeq(p \o q, 1, k)), SubSeq(p \o q, k + 1, Len(p \o q)))
               = Feed(NewStream, p \o q)
  <2> DEFINE w == p \o q
             a == SubSeq(w, 1, k)
             b == SubSeq(w, k + 1, Len(w))
  <2>1. p \in Seq(STRING) /\ q \in Seq(STRING)
    BY PiecesAssumption
  <2>2. w \in Seq(STRING)
    BY <2>1
  <2> HIDE DEF w
  <2>3. k \in 0 .. Len(w)
    BY DEF w
  <2>4. a \in Seq(STRING) /\ b \in Seq(STRING) /\ a \o b = w
    BY <2>2, <2>3, CutAndJoin
  <2> HIDE DEF a, b
  <2>5. Feed(Feed(NewStream, a), b) = Feed(NewStream, a \o b)
    <3> DEFINE S == STRING
    <3>1. NewStream \in Results(S) /\ a \in Seq(S) /\ b \in Seq(S)
      BY <2>4, NewIsResult
    <3> HIDE DEF S
    <3> QED BY <3>1, FeedJoins
  <2> QED BY <2>4, <2>5 DEF a, b, w
<1>3. ASSUME NEW p \in Pieces, NEW q \in Pieces
      PROVE  Cardinality({Feed(Feed(NewStream, SubSeq(p \o q, 1, k)), SubSeq(p \o q, k + 1, Len(p \o q)))
                            : k \in 0 .. Len(p \o q)}) = 1
  <2> DEFINE TwoReads(k) == Feed(Feed(NewStream, SubSeq(p \o q, 1, k)), SubSeq(p \o q, k + 1, Len(p \o q)))
             N == Len(p \o q)
             whole == Feed(NewStream, p \o q)
  <2>1. \A k \in 0 .. N : TwoReads(k) = whole
    BY <1>2
  <2>2. 0 \in 0 .. N
    BY PiecesAssumption
  <2> HIDE DEF TwoReads, N, whole
  <2>3. {TwoReads(k) : k \in 0 .. N} = {whole}
    BY <2>1, <2>2
  <2>4. Cardinality({TwoReads(k) : k \in 0 .. N}) = 1
    BY <2>3, FS_Singleton
  <2> QED BY <2>4 DEF TwoReads, N
<1>4. CutsIrrelevant
  BY <1>3 DEF CutsIrrelevant
<1> QED BY <1>1, <1>4, PTL

\* Framing is exact.  Any operation in order, with any blank and line end, is executed as it
\* was written when it is fed to an open connection that waits for nothing, which it leaves
\* waiting for nothing, so that any number of them are; and what is written for a message is
\* as long as mb_msg_frame_len says, for all subjects, subscriptions and payloads.
THEOREM FramingIsExact ==
  /\ \A op : \A gap \in Blank, eol \in Eols, ops \in Seq(Events(Alphabet)) :
        WellFormed(op) /\ LineFits(op, gap, eol) =>
          Feed([ops |-> ops, rx |-> <<>>, closed |-> FALSE], Wire(op, gap, eol))
            = [ops |-> Append(ops, op), rx |-> <<>>, closed |-> FALSE]
  /\ \A S : \A prefix \in Seq(S), subject \in Seq(S), sid \in Seq(S), replyTo \in Seq(S), payload \in Seq(S) :
        Len(MsgFrame(prefix, subject, sid, replyTo, payload)) = MsgFrameLen(prefix, subject, sid, replyTo, payload)
  /\ ConnSpec => []FramingExact
<1> DEFINE State(o) == [ops |-> o, rx |-> <<>>, closed |-> FALSE]
           S == Alphabet
           E == Events(S)
<1>1. \A op : \A gap \in Blank, eol \in Eols, ops \in Seq(E) :
        WellFormed(op) /\ LineFits(op, gap, eol) => Feed(State(ops), Wire(op, gap, eol)) = State(Append(ops, op))
  BY OpFed
<1>2. \A T : \A prefix \in Seq(T), subject \in Seq(T), sid \in Seq(T), replyTo \in Seq(T), payload \in Seq(T) :
        Len(MsgFrame(prefix, subject, sid, replyTo, payload)) = MsgFrameLen(prefix, subject, sid, replyTo, payload)
  BY FrameLen
<1>3. ASSUME NEW o \in SomeOps, NEW p \in SomeOps, NEW e \in Eols, NEW f \in Eols, NEW gap \in Blank
      PROVE  Feed(NewStream, Wire(o, gap, e) \o Wire(p, gap, f)) = [NewStream EXCEPT !.ops = <<o, p>>]
  <2> DEFINE a == Wire(o, gap, e)
             b == Wire(p, gap, f)
  <2>1. WellFormed(o) /\ WellFormed(p) /\ LineFits(o, gap, e) /\ LineFits(p, gap, f)
    BY OpsAssumption
  <2>2. a \in Seq(S) /\ b \in Seq(S)
    <3>1. <<>> \in Seq(Alphabet)
      OBVIOUS
    <3> QED BY <2>1, <3>1, OpParsed
  <2>3. o \in E /\ p \in E /\ <<>> \in Seq(E)
    <3>1. <<>> \in Seq(Events(Alphabet))
      OBVIOUS
    <3> QED BY <2>1, <3>1, OpFed
  <2>4. Feed(State(<<>>), a) = State(Append(<<>>, o))
    BY <1>1, <2>1, <2>3
  <2> HIDE DEF E
  <2>5. Append(<<>>, o) \in Seq(E) /\ Append(Append(<<>>, o), p) = <<o, p>>
    BY <2>3, TwoAppended, Zenon
  <2>6. Feed(State(Append(<<>>, o)), b) = State(Append(Append(<<>>, o), p))
    BY <1>1, <2>1, <2>5
  <2>7. NewStream = State(<<>>) /\ NewStream \in Results(S)
    BY NewIsResult DEF NewStream
  <2>8. [NewStream EXCEPT !.ops = <<o, p>>] = State(<<o, p>>)
    <3> DEFINE x == <<o, p>>
    <3> HIDE DEF x, S
    <3>1. NewStream.rx = <<>> /\ NewStream.closed = FALSE
      BY DEF NewStream
    <3>2. [NewStream EXCEPT !.ops = x] = [ops |-> x, rx |-> NewStream.rx, closed |-> NewStream.closed]
      BY <2>7, OpsSet
    <3> QED BY <3>1, <3>2 DEF x
  <2> HIDE DEF a, b, S
  <2>9. Feed(Feed(NewStream, a), b) = Feed(NewStream, a \o b)
    BY <2>2, <2>7, FeedJoins
  <2> HIDE DEF State
  <2> QED BY <2>4, <2>5, <2>6, <2>7, <2>8, <2>9 DEF a, b
<1>4. ASSUME NEW prefix \in {<<>>, <<"$">>}, NEW replyTo \in {<<>>, <<"r">>},
             NEW n \in {0, 1, 9, 10, 11, 99, 100, 101}
      PROVE  Len(MsgFrame(prefix, <<"a">>, <<"1">>, replyTo, [i \in 1 .. n |-> "x"]))
               = MsgFrameLen(prefix, <<"a">>, <<"1">>, replyTo, [i \in 1 .. n |-> "x"])
  <2> DEFINE T == {"$", "a", "1", "r", "x"}
             payload == [i \in 1 .. n |-> "x"]
             subject == <<"a">>
             sid == <<"1">>
  <2>1. prefix \in Seq(T) /\ replyTo \in Seq(T)
    <3>1. <<>> \in Seq(T) /\ <<"$">> \in Seq(T) /\ <<"r">> \in Seq(T)
      OBVIOUS
    <3> QED BY <3>1
  <2>2. subject \in Seq(T) /\ sid \in Seq(T)
    OBVIOUS
  <2>3. payload \in Seq(T)
    <3>1. n \in Nat /\ "x" \in T
      OBVIOUS
    <3> HIDE DEF T
    <3> QED BY <3>1
  <2> HIDE DEF T, payload, subject, sid
  <2>4. Len(MsgFrame(prefix, subject, sid, replyTo, payload)) = MsgFrameLen(prefix, subject, sid, replyTo, payload)
    BY <2>1, <2>2, <2>3, FrameLen
  <2> QED BY <2>4 DEF payload, subject, sid
<1>5. FramingExact
  BY <1>3, <1>4, Zenon DEF FramingExact
<1>6. ConnSpec => []FramingExact
  BY <1>5, PTL
<1> QED BY <1>1, <1>2, <1>6
=============================================================================
