----------------------------- MODULE HttpProofs -----------------------------
(***************************************************************************)
(* Machine-checked proofs about module Http, for every set of clients and  *)
(* requests and every value of the limits.                                 *)
(*                                                                         *)
(* PostsExact is not inductive: that all of the request has arrived when   *)
(* it is published rests on rx never holding more than what arrived, and   *)
(* that its poster is still there to be counted rests on only event        *)
(* streams being subscribed, so that a publish never closes the connection *)
(* that asked for it (Sound).  The functions of http.c that write, deliver *)
(* and answer leave a connection as it was in everything PostsExact speaks *)
(* of, or closing (Follows); only the read itself and the count of a       *)
(* publish move it on.  They also leave it counted or not, which is why    *)
(* conn_count is the number of connections of both listeners (LimitKept).  *)
(*                                                                         *)
(* The second half shows the event streams whole, by Streams: as long as a *)
(* connection is open, has a stream and no event of it was torn, all that  *)
(* was made for it (written, in flight or waiting) is Whole, and before    *)
(* the subscription it is answers only.  Writing moves items from one      *)
(* place to the next; a publish adds one, or the message is left out.      *)
(***************************************************************************)
EXTENDS Http, FiniteSetTheorems, SequenceTheorems, TLAPS

RequestType == [head : Nat \ {0}, parses : BOOLEAN, method : {"GET", "POST"},
                te : BOOLEAN, cl : Nat \cup {-1}, auth : BOOLEAN, ctype : BOOLEAN,
                path : {"pub", "sub", "latest", "other"}, decodes : BOOLEAN,
                space : {"plain", "lvc", "stats"}, nul : BOOLEAN]

Item == {"response", "event", "part", "raw"} \X Nat

ConnType == [st : {"none", "open", "closing", "freed"}, counted : BOOLEAN,
             req : RequestType \cup {NoRequest}, rx : Nat, arrived : Nat,
             sse : BOOLEAN, sub : BOOLEAN, since : Nat, replay : Nat, closeAfter : BOOLEAN,
             writePending : BOOLEAN, out : Seq(Item), inFlight : Seq(Item), wire : Seq(Item),
             posted : Nat, torn : BOOLEAN]

BusType == [log : Seq(BOOLEAN), failed : SUBSET Nat, latest : Nat]

ServerType == [count : Int, nats : Nat, closing : BOOLEAN, lvc : BOOLEAN, pubs : BOOLEAN]

\* Every field of a connection, of the server and of the router has its type.
TypeOK ==
    /\ conns \in [Clients -> ConnType]
    /\ server \in ServerType
    /\ bus \in BusType

\* The checks of process_request, handle_post and mb_server_client_publish.
Passes(r) ==
    /\ r.method = "POST" /\ r.parses /\ ~r.te /\ r.auth /\ r.ctype
    /\ r.path = "pub" /\ r.decodes /\ r.space = "plain" /\ ~r.nul
    /\ r.head <= MaxHeader /\ r.cl \in 0 .. MaxPayload

\* posts publishes of the request are accounted for by what arrived.
Accounted(c, posts) ==
    posts > 0 => /\ Passes(c.req)
                 /\ c.arrived >= c.req.head + c.req.cl
                 /\ posts > 1 => c.arrived > c.req.head + c.req.cl

\* What PostsExact needs of a connection.
Sound(c) ==
    /\ c.rx <= c.arrived
    /\ c.sub => c.sse
    /\ c.st = "open" => c.req \in RequestType
    /\ c.st = "none" => ~c.counted
    /\ Accounted(c, c.posted)

\* The connections that http_conn_create has counted and close_cb has not.
Counted == {k \in Clients : conns[k].counted}

\* conn_count is the number of connections of both listeners, and within the limit: each
\* is counted once and taken back once, however it ends.
LimitKept ==
    /\ server.count = Cardinality(Counted) + server.nats
    /\ server.count <= MaxConnections

Inv == TypeOK /\ (\A k \in Clients : Sound(conns[k])) /\ IsFiniteSet(Counted) /\ LimitKept

\* d is c after writing, delivering or answering: the same request and what was read of it
\* and published, or closing.
Gone(d) ==
    /\ d.st = "closing" /\ d.rx = 0 /\ d.arrived = 0 /\ d.posted = 0 /\ ~d.sse /\ ~d.sub

Kept(c, d) ==
    /\ d.st = c.st /\ d.req = c.req /\ d.rx = c.rx /\ d.arrived = c.arrived
    /\ d.posted = c.posted /\ (d.sse <=> c.sse) /\ (d.sub <=> c.sub)

Follows(c, d) == d \in ConnType /\ (d.counted <=> c.counted) /\ (Gone(d) \/ Kept(c, d))

\* A state a handler works on, and one with the connections of C counted.
Typed(w) == w \in [conns : [Clients -> ConnType], bus : BusType]

World(w, C) ==
    /\ w \in [conns : [Clients -> ConnType], bus : BusType]
    /\ \A j \in Clients : Sound(w.conns[j]) /\ (w.conns[j].counted <=> j \in C)

\* More of the client's bytes has arrived than the request has, if it was published before.
Fresh(c) == c.posted > 0 => c.arrived > c.req.head + c.req.cl

\* Connections ds after the event m was written to the subscribed ones in S.
Served(cs, S, ds, m, nul) ==
    \A j \in Clients : IF j \in S THEN ds[j] \in DeliverEvent(cs[j], m, nul) ELSE ds[j] = cs[j]

\* Connections ds after a publish: only subscribed ones of cs are touched.
Spread(cs, ds) ==
    /\ ds \in [Clients -> ConnType]
    /\ \A j \in Clients : Follows(cs[j], ds[j]) /\ (~cs[j].sub => ds[j] = cs[j])

-----------------------------------------------------------------------------
(* Connections.                                                            *)

\* A blank record is well typed and sound, whatever its state but open.
LEMMA BlankSound ==
    ASSUME NEW st \in {"none", "closing", "freed"}
    PROVE  Blank(st) \in ConnType /\ Sound(Blank(st))
<1>1. <<>> \in Seq(Item)
  OBVIOUS
<1>2. Blank(st) \in ConnType
  BY <1>1 DEF Blank, ConnType
<1>3. Sound(Blank(st))
  BY DEF Blank, Sound, Accounted
<1>. QED  BY <1>2, <1>3

\* Nothing that only writes, delivers or answers makes a connection unsound.
LEMMA FollowsSound ==
    ASSUME NEW c, NEW d, Sound(c), Follows(c, d)
    PROVE  d \in ConnType /\ Sound(d)
<1>1. CASE Gone(d)
  BY <1>1 DEF Follows, Gone, Sound, Accounted
<1>2. CASE Kept(c, d)
  BY <1>2 DEF Follows, Kept, Sound, Accounted
<1>. QED  BY <1>1, <1>2 DEF Follows

\* Two such functions in a row are one.
LEMMA FollowsTransitive ==
    ASSUME NEW c, NEW d, NEW e, Follows(c, d), Follows(d, e)
    PROVE  Follows(c, e)
BY DEF Follows, Gone, Kept

\* http_conn_begin_close
LEMMA BeginCloseFollows ==
    ASSUME NEW c \in ConnType
    PROVE  Follows(c, BeginClose(c))
<1>1. CASE c.st # "open"
  BY <1>1 DEF BeginClose, Follows, Kept
<1>2. CASE c.st = "open"
  <2>1. Blank("closing") \in ConnType
    BY BlankSound
  <2>2. BeginClose(c) = [Blank("closing") EXCEPT !.counted = c.counted, !.writePending = c.writePending]
    BY <1>2 DEF BeginClose
  <2>3. BeginClose(c) \in ConnType
    BY <2>1, <2>2 DEF ConnType
  <2>4. Gone(BeginClose(c))
    BY <2>2 DEF Blank, Gone
  <2>5. BeginClose(c).counted <=> c.counted
    BY <2>1, <2>2 DEF ConnType
  <2>. QED  BY <2>3, <2>4, <2>5 DEF Follows
<1>. QED  BY <1>1, <1>2

\* write_socket
LEMMA WriteSocketFollows ==
    ASSUME NEW c \in ConnType, NEW d \in WriteSocket(c)
    PROVE  Follows(c, d)
<1>. DEFINE e == [c EXCEPT !.inFlight = c.out, !.out = <<>>]
            f == [e EXCEPT !.writePending = TRUE]
<1>1. <<>> \in Seq(Item)
  OBVIOUS
<1>2. Follows(c, c)
  BY DEF Follows, Kept
<1>3. Follows(c, e)
  BY <1>1 DEF ConnType, Follows, Kept
<1>4. Follows(e, f)
  BY <1>3 DEF ConnType, Follows, Kept
<1>5. Follows(e, BeginClose(e))
  BY <1>3, BeginCloseFollows DEF Follows
<1>6. d = c \/ d = f \/ d = BeginClose(e)
  BY DEF WriteSocket
<1>. HIDE DEF e, f
<1>. QED  BY <1>2, <1>3, <1>4, <1>5, <1>6, FollowsTransitive

\* kick_write
LEMMA KickWriteFollows ==
    ASSUME NEW c \in ConnType, NEW d \in KickWrite(c)
    PROVE  Follows(c, d)
<1>1. d = c \/ d = BeginClose(c) \/ d \in WriteSocket(c)
  BY DEF KickWrite
<1>2. Follows(c, c)
  BY DEF Follows, Kept
<1>. QED  BY <1>1, <1>2, BeginCloseFollows, WriteSocketFollows

\* An item put into out, by whichever function.
LEMMA AppendFollows ==
    ASSUME NEW c \in ConnType, NEW item \in Item
    PROVE  Follows(c, [c EXCEPT !.out = Append(@, item)])
<1>1. Append(c.out, item) \in Seq(Item)
  BY DEF ConnType
<1>. DEFINE more == Append(c.out, item)
<1>. HIDE DEF more
<1>2. Follows(c, [c EXCEPT !.out = more])
  BY <1>1 DEF more, ConnType, Follows, Kept
<1>. QED  BY <1>2 DEF more

\* respond_and_close
LEMMA RespondFollows ==
    ASSUME NEW c \in ConnType, NEW code \in Nat, NEW d \in RespondAndClose(c, code)
    PROVE  Follows(c, d)
<1>. DEFINE more == Append(c.out, <<"response", code>>)
            e == [c EXCEPT !.out = more, !.closeAfter = TRUE]
<1>1. more \in Seq(Item)
  BY DEF ConnType, Item
<1>. HIDE DEF more
<1>2. Follows(c, e)
  BY <1>1 DEF ConnType, Follows, Kept
<1>3. d = BeginClose(c) \/ d \in KickWrite(e)
  BY DEF RespondAndClose, more
<1>4. e \in ConnType
  BY <1>2 DEF Follows
<1>. HIDE DEF e
<1>. QED  BY <1>2, <1>3, <1>4, BeginCloseFollows, KickWriteFollows, FollowsTransitive

\* deliver_to_sub
LEMMA DeliverFollows ==
    ASSUME NEW c \in ConnType, NEW m \in Nat, NEW nul \in BOOLEAN, NEW d \in DeliverEvent(c, m, nul)
    PROVE  Follows(c, d)
<1>. DEFINE e == [c EXCEPT !.out = Append(@, <<"event", m>>)]
<1>1. <<"event", m>> \in Item
  BY DEF Item
<1>2. Follows(c, e)
  BY <1>1, AppendFollows
<1>3. d = c \/ d = BeginClose(c) \/ d \in KickWrite(e)
  BY DEF DeliverEvent
<1>4. e \in ConnType
  BY <1>2 DEF Follows
<1>5. Follows(c, c)
  BY DEF Follows, Kept
<1>. HIDE DEF e
<1>. QED  BY <1>2, <1>3, <1>4, <1>5, BeginCloseFollows, KickWriteFollows, FollowsTransitive

\* A write of an event that fails in the middle.
LEMMA TornFollows ==
    ASSUME NEW c \in ConnType, NEW m \in Nat
    PROVE  Follows(c, TornEvent(c, m))
<1>. DEFINE more == Append(c.out, <<"part", m>>)
<1>1. more \in Seq(Item)
  BY DEF ConnType, Item
<1>2. TornEvent(c, m) = [c EXCEPT !.out = more, !.torn = TRUE]
  BY DEF TornEvent
<1>. HIDE DEF more
<1>. QED  BY <1>1, <1>2, ZenonT(30) DEF ConnType, Follows, Kept

-----------------------------------------------------------------------------
(* Publishing.                                                             *)

\* The subscribed connections served by a publish.
LEMMA ServedSpread ==
    ASSUME NEW cs \in [Clients -> ConnType], NEW S \in SUBSET Subscribed(cs), NEW ds,
           NEW m \in Nat, NEW nul \in BOOLEAN,
           ds = [j \in Clients |-> ds[j]], Served(cs, S, ds, m, nul)
    PROVE  Spread(cs, ds)
<1>1. ASSUME NEW j \in Clients
      PROVE  Follows(cs[j], ds[j]) /\ (~cs[j].sub => ds[j] = cs[j])
  <2>1. cs[j] \in ConnType
    OBVIOUS
  <2>2. CASE j \in S
    <3>1. ds[j] \in DeliverEvent(cs[j], m, nul)
      BY <2>2 DEF Served
    <3>2. cs[j].sub
      BY <2>2 DEF Subscribed
    <3>. QED  BY <2>1, <3>1, <3>2, DeliverFollows
  <2>3. CASE j \notin S
    BY <2>1, <2>3 DEF Served, Follows, Kept
  <2>. QED  BY <2>2, <2>3
<1>2. \A j \in Clients : ds[j] \in ConnType
  BY <1>1 DEF Follows
<1>3. ds \in [Clients -> ConnType]
  BY <1>2
<1>. QED  BY <1>1, <1>3 DEF Spread

\* The router's record stays well typed: the message is logged, and cached or not, and
\* listed among the failed ones or not.
LEMMA BusTyped ==
    ASSUME NEW w, w.bus \in BusType, NEW nul \in BOOLEAN, NEW b \in {w.bus, Stored(w, Len(w.bus.log) + 1)}
    PROVE  /\ [b EXCEPT !.log = Append(@, nul)] \in BusType
           /\ [[b EXCEPT !.log = Append(@, nul)] EXCEPT !.failed = @ \cup {Len(w.bus.log) + 1}] \in BusType
<1>. DEFINE m == Len(w.bus.log) + 1
<1>1. m \in Nat
  BY DEF BusType
<1>. HIDE DEF m
<1>2. b \in BusType
  BY <1>1 DEF m, Stored, BusType
<1>. DEFINE l == Append(b.log, nul)
            d == [b EXCEPT !.log = l]
<1>3. l \in Seq(BOOLEAN)
  BY <1>2 DEF BusType
<1>. HIDE DEF l
<1>4. d \in BusType
  BY <1>2, <1>3 DEF BusType
<1>5. [d EXCEPT !.failed = @ \cup {m}] \in BusType
  BY <1>1, <1>4 DEF BusType
<1>. QED  BY <1>4, <1>5 DEF l, m

\* The connections Each chooses are served ones.
LEMMA EachServed ==
    ASSUME NEW cs \in [Clients -> ConnType], NEW S \in SUBSET Subscribed(cs),
           NEW m \in Nat, NEW nul \in BOOLEAN,
           NEW ds \in Each(cs, S, LAMBDA c : DeliverEvent(c, m, nul))
    PROVE  Spread(cs, ds)
<1>1. ds = [j \in Clients |-> ds[j]]
  BY DEF Each
<1>2. Served(cs, S, ds, m, nul)
  BY DEF Each, Served
<1>. QED  BY <1>1, <1>2, ServedSpread

\* mb_router_publish touches subscribed connections only.
LEMMA PublishSpread ==
    ASSUME NEW w, Typed(w), NEW nul \in BOOLEAN, NEW p \in RouterPublish(w, nul)
    PROVE  p.bus \in BusType /\ Spread(w.conns, p.conns)
<1>. DEFINE m == Len(w.bus.log) + 1
            subs == Subscribed(w.conns)
            logged(b) == [b EXCEPT !.log = Append(@, nul)]
            lost(b) == [logged(b) EXCEPT !.failed = @ \cup {m}]
            served(S) == Each(w.conns, S, LAMBDA c : DeliverEvent(c, m, nul))
            torn == {k \in subs : ~nul /\ Len(w.conns[k].out) < MaxPending}
            whole == {[ok |-> TRUE, conns |-> cs, bus |-> logged(Stored(w, m))] : cs \in served(subs)}
            before == {[ok |-> FALSE, conns |-> w.conns, bus |-> lost(b)] : b \in {w.bus, Stored(w, m)}}
            amid == UNION {{[ok |-> FALSE, conns |-> [cs EXCEPT ![k] = TornEvent(@, m)], bus |-> lost(Stored(w, m))] :
                            cs \in UNION {served(T) : T \in SUBSET (subs \ {k})}} : k \in torn}
<1>1. w.bus \in BusType /\ w.conns \in [Clients -> ConnType]
  BY DEF Typed
<1>2. m \in Nat
  BY <1>1 DEF BusType
<1>3. p \in whole \/ p \in before \/ p \in amid
  BY DEF RouterPublish
<1>4. \A b \in {w.bus, Stored(w, m)} : logged(b) \in BusType /\ lost(b) \in BusType
  BY <1>1, BusTyped
<1>. HIDE DEF m, logged, lost
<1>5. CASE p \in whole
  <2>1. PICK cs \in served(subs) : p = [ok |-> TRUE, conns |-> cs, bus |-> logged(Stored(w, m))]
    BY <1>5
  <2>2. Spread(w.conns, cs)
    BY <1>1, <1>2, EachServed
  <2>. QED  BY <1>4, <2>1, <2>2
<1>6. CASE p \in before
  <2>1. PICK b \in {w.bus, Stored(w, m)} : p = [ok |-> FALSE, conns |-> w.conns, bus |-> lost(b)]
    BY <1>6
  <2>2. \A j \in Clients : w.conns[j] \in ConnType
    BY <1>1
  <2>3. Spread(w.conns, w.conns)
    BY <1>1, <2>2 DEF Spread, Follows, Kept
  <2>. QED  BY <1>4, <2>1, <2>3
<1>7. CASE p \in amid
  <2>1. PICK k \in torn : p \in
           {[ok |-> FALSE, conns |-> [cs EXCEPT ![k] = TornEvent(@, m)], bus |-> lost(Stored(w, m))] :
               cs \in UNION {served(T) : T \in SUBSET (subs \ {k})}}
    BY <1>7
  <2>2. PICK ds \in UNION {served(T) : T \in SUBSET (subs \ {k})} :
           p = [ok |-> FALSE, conns |-> [ds EXCEPT ![k] = TornEvent(@, m)], bus |-> lost(Stored(w, m))]
    BY <2>1
  <2>3. PICK T \in SUBSET (subs \ {k}) : ds \in served(T)
    BY <2>2
  <2>4. k \in Clients /\ w.conns[k].sub
    BY DEF Subscribed
  <2>5. T \in SUBSET Subscribed(w.conns)
    OBVIOUS
  <2>6. ds \in Each(w.conns, T, LAMBDA c : DeliverEvent(c, m, nul))
    BY <2>3
  <2>7. w.conns \in [Clients -> ConnType]
    BY <1>1
  <2>8. Spread(w.conns, ds)
    BY <1>2, <2>5, <2>6, <2>7, EachServed, ZenonT(30)
  <2>9. ds[k] = w.conns[k]
    BY <2>3, <2>4 DEF Each
  <2>10. Follows(w.conns[k], TornEvent(w.conns[k], m))
    BY <1>1, <1>2, <2>4, TornFollows
  <2>. DEFINE t == TornEvent(w.conns[k], m)
  <2>. HIDE DEF t
  <2>11. p.conns = [ds EXCEPT ![k] = t]
    BY <2>2, <2>4, <2>8, <2>9 DEF t, Spread
  <2>12. t \in ConnType /\ Follows(w.conns[k], t)
    BY <2>10 DEF t, Follows
  <2>13. p.conns \in [Clients -> ConnType]
    BY <2>8, <2>11, <2>12 DEF Spread
  <2>14. ASSUME NEW j \in Clients
        PROVE  Follows(w.conns[j], p.conns[j]) /\ (~w.conns[j].sub => p.conns[j] = w.conns[j])
    BY <2>4, <2>8, <2>11, <2>12 DEF Spread
  <2>15. Spread(w.conns, p.conns)
    BY <2>13, <2>14 DEF Spread
  <2>16. p.bus = lost(Stored(w, m))
    BY <2>2
  <2>. QED  BY <1>4, <2>15, <2>16
<1>. QED  BY <1>3, <1>5, <1>6, <1>7

-----------------------------------------------------------------------------
(* Handling a request.                                                     *)

\* One connection replaced by a sound one.
LEMMA WorldUpdate ==
    ASSUME NEW w, NEW C, World(w, C), NEW k \in Clients, NEW d \in ConnType, Sound(d),
           d.counted <=> k \in C, NEW b \in BusType
    PROVE  World([conns |-> [w.conns EXCEPT ![k] = d], bus |-> b], C)
<1>1. w.conns \in [Clients -> ConnType]
  BY DEF World
<1>2. [w.conns EXCEPT ![k] = d] \in [Clients -> ConnType]
  BY <1>1
<1>3. \A j \in Clients : Sound([w.conns EXCEPT ![k] = d][j])
  BY <1>1 DEF World
<1>4. \A j \in Clients : [w.conns EXCEPT ![k] = d][j].counted <=> j \in C
  BY <1>1 DEF World
<1>. QED  BY <1>2, <1>3, <1>4 DEF World

\* Replacing it by EXCEPT is the same.
LEMMA WorldExcept ==
    ASSUME NEW w, NEW C, World(w, C), NEW k \in Clients, NEW d
    PROVE  [w EXCEPT !.conns[k] = d] = [conns |-> [w.conns EXCEPT ![k] = d], bus |-> w.bus]
BY DEF World

\* An answer leaves every connection sound.
LEMMA AnswerWorld ==
    ASSUME NEW w, NEW C, World(w, C), NEW k \in Clients, NEW code \in Nat, NEW u \in Answer(w, k, code)
    PROVE  World(u, C)
<1>1. PICK d \in RespondAndClose(w.conns[k], code) :
         u = [conns |-> [w.conns EXCEPT ![k] = d], bus |-> w.bus]
  BY DEF Answer
<1>2. w.conns[k] \in ConnType /\ Sound(w.conns[k]) /\ w.bus \in BusType
  BY DEF World
<1>3. Follows(w.conns[k], d)
  BY <1>2, RespondFollows
<1>4. d \in ConnType /\ Sound(d)
  BY <1>2, <1>3, FollowsSound
<1>5. d.counted <=> k \in C
  BY <1>3 DEF Follows, World
<1>. QED  BY <1>1, <1>2, <1>4, <1>5, WorldUpdate

\* mb_server_client_publish: the connection is still there to count the publish, because it
\* is not subscribed.
LEMMA ClientPublishWorld ==
    ASSUME NEW w, NEW C, World(w, C), NEW k \in Clients, NEW r, ~w.conns[k].sub,
           r.space = "plain" => Accounted(w.conns[k], w.conns[k].posted + 1),
           NEW u \in ClientPublish(w, k, r)
    PROVE  World(u, C)
<1>1. CASE \E code \in Nat : u \in Answer(w, k, code)
  BY <1>1, AnswerWorld
<1>2. ASSUME r.space = "plain", NEW p \in RouterPublish(w, FALSE), NEW code \in {202, 500},
             u \in Answer([conns |-> [p.conns EXCEPT ![k].posted = @ + 1], bus |-> p.bus], k, code)
      PROVE  World(u, C)
  <2>. DEFINE c == w.conns[k]
              more == c.posted + 1
              d == [c EXCEPT !.posted = more]
              v == [conns |-> [p.conns EXCEPT ![k].posted = @ + 1], bus |-> p.bus]
  <2>1. p.bus \in BusType /\ Spread(w.conns, p.conns)
    <3>. DEFINE no == FALSE
    <3>1. no \in BOOLEAN /\ p \in RouterPublish(w, no)
      BY <1>2
    <3>. HIDE DEF no
    <3>2. Typed(w)
      BY DEF World, Typed
    <3>. QED  BY <3>1, <3>2, PublishSpread
  <2>2. World([conns |-> p.conns, bus |-> p.bus], C)
    <3>1. ASSUME NEW j \in Clients
          PROVE  Sound(p.conns[j]) /\ (p.conns[j].counted <=> j \in C)
      <4>1. Sound(w.conns[j]) /\ Follows(w.conns[j], p.conns[j])
        BY <2>1 DEF World, Spread
      <4>2. w.conns[j].counted <=> j \in C
        BY DEF World
      <4>3. p.conns[j].counted <=> j \in C
        BY <4>1, <4>2 DEF Follows
      <4>. QED  BY <4>1, <4>3, FollowsSound
    <3>. QED  BY <2>1, <3>1 DEF World, Spread
  <2>3. p.conns[k] = c
    BY <2>1 DEF Spread
  <2>4. c \in ConnType /\ Sound(c)
    BY DEF World
  <2>5. more \in Nat
    BY <2>4 DEF ConnType
  <2>6. v = [conns |-> [p.conns EXCEPT ![k] = d], bus |-> p.bus]
    BY <2>3
  <2>7. Sound(d)
    BY <1>2, <2>4 DEF Sound, Accounted, ConnType
  <2>. HIDE DEF more
  <2>8. d \in ConnType
    BY <2>4, <2>5 DEF ConnType
  <2>9. d.counted <=> k \in C
    BY <2>4 DEF World, ConnType
  <2>10. p.bus \in BusType
    BY <2>1
  <2>. HIDE DEF d
  <2>11. World(v, C)
    BY <2>2, <2>6, <2>7, <2>8, <2>9, <2>10, WorldUpdate
  <2>12. u \in Answer(v, k, code)
    BY <1>2
  <2>. HIDE DEF v
  <2>. QED  BY <2>11, <2>12, AnswerWorld
<1>3. CASE server.pubs /\ r.space = "plain"
  <2>. DEFINE counted(p) == [conns |-> [p.conns EXCEPT ![k].posted = @ + 1], bus |-> p.bus]
              answered(p) == Answer(counted(p), k, 500) \cup (IF p.ok THEN Answer(counted(p), k, 202) ELSE {})
  <2>1. u \in UNION {answered(p) : p \in RouterPublish(w, FALSE)}
    BY <1>3 DEF ClientPublish
  <2>. HIDE DEF answered
  <2>2. PICK p \in RouterPublish(w, FALSE) : u \in answered(p)
    BY <2>1
  <2>. HIDE DEF counted
  <2>3. u \in Answer(counted(p), k, 500) \/ u \in Answer(counted(p), k, 202)
    BY <2>2 DEF answered
  <2>4. \A code \in {202, 500} : u \in Answer(counted(p), k, code) => World(u, C)
    BY <1>2, <1>3, ZenonT(30) DEF counted
  <2>. QED  BY <2>3, <2>4
<1>4. CASE ~(server.pubs /\ r.space = "plain")
  <2>1. u \in Answer(w, k, 403) \/ u \in Answer(w, k, 409)
    BY <1>4 DEF ClientPublish
  <2>. QED  BY <1>1, <2>1
<1>. QED  BY <1>3, <1>4

\* handle_post with all of the request in rx
LEMMA HandlePostWorld ==
    ASSUME NEW w, NEW C, World(w, C), NEW k \in Clients, NEW r \in RequestType, r = w.conns[k].req,
           ~w.conns[k].sub, Fresh(w.conns[k]),
           r.method = "POST", r.parses, ~r.te, r.head <= MaxHeader, r.cl \in 0 .. MaxPayload,
           w.conns[k].rx - r.head >= r.cl,
           NEW u \in HandlePost(w, k, r)
    PROVE  World(u, C)
<1>1. CASE \E code \in Nat : u \in Answer(w, k, code)
  BY <1>1, AnswerWorld
<1>2. ASSUME r.auth, r.ctype, r.path = "pub", r.decodes, ~r.nul, u \in ClientPublish(w, k, r)
      PROVE  World(u, C)
  <2>. DEFINE c == w.conns[k]
  <2>1. c \in ConnType /\ Sound(c)
    BY DEF World
  <2>2. c.rx \in Nat /\ c.arrived \in Nat /\ c.posted \in Nat
    BY <2>1 DEF ConnType
  <2>3. r.head \in Nat /\ r.cl \in Int
    BY DEF RequestType
  <2>4. c.arrived >= r.head + r.cl
    BY <2>1, <2>2, <2>3 DEF Sound
  <2>5. r.space = "plain" => Passes(c.req)
    BY <1>2 DEF Passes
  <2>6. r.space = "plain" => Accounted(c, c.posted + 1)
    BY <2>2, <2>3, <2>4, <2>5 DEF Accounted, Fresh
  <2>. QED  BY <1>2, <2>6, ClientPublishWorld
<1>. QED  BY <1>1, <1>2 DEF HandlePost, RequestAuthorized, ContentTypeAllowed, DecodeSubjectPath

\* The end of handle_get
LEMMA SubscribeWorld ==
    ASSUME NEW w, NEW C, World(w, C), NEW k \in Clients, NEW r, NEW u \in Subscribe(w, k, r)
    PROVE  World(u, C)
<1>. DEFINE c == w.conns[k]
            replay == IF r.space = "lvc" THEN w.bus.latest ELSE 0
            items == Append(c.out, StreamHead) \o (IF replay = 0 THEN <<>> ELSE << <<"raw", replay>> >>)
            n == Len(w.bus.log)
            live == [c EXCEPT !.sse = TRUE, !.sub = TRUE, !.rx = 0, !.since = n,
                              !.replay = replay, !.out = items]
            none == [c EXCEPT !.out = <<>>]
            refused == [w EXCEPT !.conns[k].out = <<>>]
<1>1. c \in ConnType /\ Sound(c) /\ w.bus \in BusType
  BY DEF World
<1>2. replay \in Nat /\ n \in Nat
  BY <1>1 DEF BusType
<1>3. items \in Seq(Item)
  <2>1. c.out \in Seq(Item)
    BY <1>1 DEF ConnType
  <2>2. StreamHead \in Item /\ <<"raw", replay>> \in Item
    BY <1>2 DEF StreamHead, Item
  <2>. HIDE DEF replay
  <2>3. Append(c.out, StreamHead) \in Seq(Item)
    BY <2>1, <2>2
  <2>4. (IF replay = 0 THEN <<>> ELSE << <<"raw", replay>> >>) \in Seq(Item)
    BY <2>2
  <2>. QED  BY <2>3, <2>4
<1>4. \/ u \in {[w EXCEPT !.conns[k] = d] : d \in {BeginClose(c)} \cup KickWrite(live)}
      \/ u \in Answer(refused, k, 500)
  BY ZenonT(30) DEF Subscribe
<1>. HIDE DEF items, replay, n
<1>5. live \in ConnType
  BY <1>1, <1>2, <1>3 DEF ConnType
<1>6. Sound(live)
  BY <1>1 DEF Sound, Accounted, ConnType
<1>7. none \in ConnType
  <2>1. <<>> \in Seq(Item)
    OBVIOUS
  <2>. QED  BY <1>1, <2>1 DEF ConnType
<1>8. Sound(none)
  BY <1>1 DEF Sound, Accounted, ConnType
<1>9. refused = [conns |-> [w.conns EXCEPT ![k] = none], bus |-> w.bus]
  BY DEF World
<1>10. w.bus \in BusType
  BY <1>1
<1>11. (c.counted <=> k \in C) /\ (live.counted <=> c.counted) /\ (none.counted <=> c.counted)
  BY <1>1 DEF World, ConnType
<1>. HIDE DEF none, refused
<1>12. none.counted <=> k \in C
  BY <1>11
<1>13. World(refused, C)
  BY <1>7, <1>8, <1>9, <1>10, <1>12, WorldUpdate
<1>. HIDE DEF live, refused, none
<1>14. CASE u \in Answer(refused, k, 500)
  BY <1>13, <1>14, AnswerWorld
<1>15. CASE u \in {[w EXCEPT !.conns[k] = d] : d \in {BeginClose(c)} \cup KickWrite(live)}
  <2>1. PICK d \in {BeginClose(c)} \cup KickWrite(live) : u = [w EXCEPT !.conns[k] = d]
    BY <1>15
  <2>2. d \in ConnType /\ Sound(d)
    BY <1>1, <1>5, <1>6, BeginCloseFollows, KickWriteFollows, FollowsSound
  <2>3. Follows(c, d) \/ Follows(live, d)
    BY <1>1, <1>5, BeginCloseFollows, KickWriteFollows
  <2>4. d.counted <=> k \in C
    BY <1>11, <2>3 DEF Follows
  <2>5. u = [conns |-> [w.conns EXCEPT ![k] = d], bus |-> w.bus]
    BY <2>1, WorldExcept
  <2>. QED  BY <1>10, <2>2, <2>4, <2>5, WorldUpdate
<1>. QED  BY <1>4, <1>14, <1>15

\* handle_latest and handle_get
LEMMA HandleGetWorld ==
    ASSUME NEW w, NEW C, World(w, C), NEW k \in Clients, NEW r, NEW u \in HandleGet(w, k, r)
    PROVE  World(u, C)
<1>1. CASE \E code \in Nat : u \in Answer(w, k, code)
  BY <1>1, AnswerWorld
<1>2. CASE u \in Subscribe(w, k, r)
  BY <1>2, SubscribeWorld
<1>3. CASE u \in HandleLatest(w, k, r)
  <2>1. \/ u \in Answer(w, k, 400) \/ u \in Answer(w, k, 409)
        \/ u \in Answer(w, k, 404) \/ u \in Answer(w, k, 200)
    BY <1>3 DEF HandleLatest
  <2>. QED  BY <1>1, <2>1
<1>4. \/ u \in Answer(w, k, 400) \/ u \in Answer(w, k, 401) \/ u \in Answer(w, k, 409)
      \/ u \in HandleLatest(w, k, r) \/ u \in Subscribe(w, k, r)
  BY DEF HandleGet
<1>. QED  BY <1>1, <1>2, <1>3, <1>4

\* process_request
LEMMA ProcessRequestWorld ==
    ASSUME NEW w, NEW C, World(w, C), NEW k \in Clients, w.conns[k].st = "open", ~w.conns[k].sub,
           Fresh(w.conns[k]), NEW u \in ProcessRequest(w, k)
    PROVE  World(u, C)
<1>. DEFINE c == w.conns[k]
            r == c.req
<1>1. CASE \E code \in Nat : u \in Answer(w, k, code)
  BY <1>1, AnswerWorld
<1>2. CASE u \in HandleGet(w, k, r)
  BY <1>2, HandleGetWorld
<1>3. CASE r.method # "GET" /\ r.parses /\ ~r.te /\ r.head <= MaxHeader /\ r.cl # -1
           /\ ~(r.cl > MaxPayload) /\ ~(c.rx - r.head < r.cl) /\ u \in HandlePost(w, k, r)
  <2>1. c \in ConnType /\ r \in RequestType
    BY DEF World, Sound
  <2>2. r.method = "POST" /\ r.cl \in 0 .. MaxPayload
    BY <1>3, <2>1, LimitsAssumption DEF RequestType
  <2>3. c.rx \in Nat /\ r.head \in Nat /\ MaxPayload \in Nat
    BY <2>1, LimitsAssumption DEF ConnType, RequestType
  <2>4. c.rx \in Nat /\ r.head \in Nat /\ r.cl \in Nat
    BY <2>2, <2>3
  <2>5. c.rx - r.head >= r.cl
    BY <1>3, <2>4
  <2>6. r.parses /\ ~r.te /\ r.head <= MaxHeader /\ u \in HandlePost(w, k, r)
    BY <1>3
  <2>. QED  BY <2>1, <2>2, <2>5, <2>6, HandlePostWorld
<1>4. \/ u \in Answer(w, k, 431) \/ u \in Answer(w, k, 400) \/ u \in Answer(w, k, 411)
      \/ u \in Answer(w, k, 413) \/ u = w \/ u \in HandleGet(w, k, r)
      \/ /\ r.method # "GET" /\ r.parses /\ ~r.te /\ ~(r.head > MaxHeader) /\ r.cl # -1
         /\ ~(r.cl > MaxPayload) /\ ~(c.rx - r.head < r.cl) /\ u \in HandlePost(w, k, r)
  BY DEF ProcessRequest, ParseHeaders
<1>5. ~(r.head > MaxHeader) => r.head <= MaxHeader
  BY LimitsAssumption DEF World, Sound, RequestType
<1>. QED  BY <1>1, <1>2, <1>3, <1>4, <1>5

\* read_cb: n more units have arrived.
LEMMA ReceivedWorld ==
    ASSUME NEW w, NEW C, World(w, C), NEW k \in Clients, w.conns[k].st = "open", NEW n \in Nat \ {0},
           NEW u \in Received(w, k, n)
    PROVE  World(u, C)
<1>. DEFINE b == w.conns[k]
            a == b.arrived + n
            x == b.rx + n
            c == [b EXCEPT !.arrived = a]
            d == [c EXCEPT !.rx = x]
            v == [w EXCEPT !.conns[k] = c]
            z == [w EXCEPT !.conns[k] = d]
            closed == [w EXCEPT !.conns[k] = BeginClose(c)]
<1>1. b \in ConnType /\ Sound(b) /\ w.bus \in BusType /\ b.req \in RequestType
  BY DEF World, Sound
<1>2. b.arrived \in Nat /\ b.posted \in Nat /\ b.rx \in Nat /\ b.req.head \in Nat
  BY <1>1 DEF ConnType, RequestType
<1>3. b.rx <= b.arrived
  BY <1>1 DEF Sound
<1>4. a \in Nat /\ x \in Nat /\ x <= a /\ b.rx <= a /\ a > b.arrived
  BY <1>2, <1>3
<1>5. b.posted > 0 => Passes(b.req) /\ b.req.cl \in Nat /\ a > b.req.head + b.req.cl
  BY <1>1, <1>2, <1>4, LimitsAssumption DEF Sound, Accounted, Passes
<1>6. \/ u = closed
      \/ u \in Answer(v, k, 413)
      \/ ~c.sse /\ u \in ProcessRequest(z, k)
  <2>1. z = [w EXCEPT !.conns[k] = [c EXCEPT !.rx = @ + n]]
    BY <1>1 DEF ConnType
  <2>. QED  BY <2>1 DEF Received
<1>. HIDE DEF a, x
<1>7. c \in ConnType /\ d \in ConnType
  BY <1>1, <1>4 DEF ConnType
<1>8. /\ c.rx = b.rx /\ c.arrived = a /\ c.req = b.req /\ c.posted = b.posted /\ c.st = b.st
      /\ d.rx = x /\ d.arrived = a /\ d.req = b.req /\ d.posted = b.posted /\ d.st = b.st
  BY <1>1 DEF ConnType
<1>9. (c.sub <=> b.sub) /\ (c.sse <=> b.sse) /\ (d.sub <=> b.sub) /\ (d.sse <=> b.sse)
  BY <1>1 DEF ConnType
<1>10. (c.counted <=> k \in C) /\ (d.counted <=> k \in C)
  BY <1>1 DEF ConnType, World
<1>. HIDE DEF c, d
<1>11. Accounted(c, c.posted) /\ Accounted(d, d.posted)
  BY <1>2, <1>4, <1>5, <1>8 DEF Accounted
<1>12. Sound(c)
  BY <1>1, <1>4, <1>8, <1>9, <1>11 DEF Sound
<1>13. Sound(d)
  BY <1>1, <1>4, <1>8, <1>9, <1>11 DEF Sound
<1>14. Fresh(d)
  BY <1>5, <1>8 DEF Fresh
<1>15. w.bus \in BusType
  BY <1>1
<1>16. ASSUME NEW e \in ConnType, Sound(e), e.counted <=> k \in C
       PROVE  World([w EXCEPT !.conns[k] = e], C) /\ [w EXCEPT !.conns[k] = e].conns[k] = e
  <2>1. [w EXCEPT !.conns[k] = e] = [conns |-> [w.conns EXCEPT ![k] = e], bus |-> w.bus]
    BY WorldExcept
  <2>2. World([conns |-> [w.conns EXCEPT ![k] = e], bus |-> w.bus], C)
    BY <1>15, <1>16, WorldUpdate
  <2>3. w.conns \in [Clients -> ConnType]
    BY DEF World
  <2>. QED  BY <2>1, <2>2, <2>3
<1>17. World(v, C) /\ World(z, C) /\ z.conns[k] = d
  BY <1>7, <1>10, <1>12, <1>13, <1>16
<1>18. World(closed, C)
  <2>1. BeginClose(c) \in ConnType /\ Sound(BeginClose(c))
    BY <1>7, <1>12, BeginCloseFollows, FollowsSound
  <2>2. BeginClose(c).counted <=> k \in C
    BY <1>7, <1>10, BeginCloseFollows DEF Follows
  <2>. QED  BY <1>16, <2>1, <2>2
<1>. HIDE DEF v, z, closed
<1>19. CASE u \in Answer(v, k, 413)
  BY <1>17, <1>19, AnswerWorld
<1>20. CASE ~c.sse /\ u \in ProcessRequest(z, k)
  <2>1. ~d.sub /\ d.st = "open"
    BY <1>1, <1>8, <1>9, <1>20 DEF Sound
  <2>. QED  BY <1>14, <1>17, <1>20, <2>1, ProcessRequestWorld
<1>. QED  BY <1>6, <1>18, <1>19, <1>20

-----------------------------------------------------------------------------
(* Every action preserves Inv.                                             *)

\* Inv in the terms of the lemmas above.
LEMMA InvWorld ==
    ASSUME Inv
    PROVE  World([conns |-> conns, bus |-> bus], Counted)
BY DEF Inv, TypeOK, World, Counted

\* A callback that counts no connection and takes none back.
LEMMA SameCount ==
    ASSUME Inv, server' = server, conns' \in [Clients -> ConnType], bus' \in BusType,
           \A j \in Clients : Sound(conns'[j]) /\ (conns'[j].counted <=> j \in Counted)
    PROVE  Inv'
<1>1. Counted' = Counted
  BY DEF Counted
<1>2. IsFiniteSet(Counted)' /\ LimitKept'
  BY <1>1 DEF Inv, LimitKept
<1>. QED  BY <1>2 DEF Inv, TypeOK

\* One connection replaced by a sound one, counted as before.
LEMMA OneConn ==
    ASSUME Inv, NEW k \in Clients, NEW d \in ConnType, Sound(d), d.counted <=> conns[k].counted,
           conns' = [conns EXCEPT ![k] = d], bus' = bus, server' = server
    PROVE  Inv'
<1>1. conns \in [Clients -> ConnType] /\ \A j \in Clients : Sound(conns[j])
  BY DEF Inv, TypeOK
<1>2. conns' \in [Clients -> ConnType]
  BY <1>1
<1>3. \A j \in Clients : Sound(conns'[j])
  BY <1>1
<1>4. \A j \in Clients : conns'[j].counted <=> j \in Counted
  BY <1>1 DEF Counted
<1>5. bus' \in BusType
  BY DEF Inv, TypeOK
<1>. QED  BY <1>2, <1>3, <1>4, <1>5, SameCount

\* A callback that changes the server's record only.
LEMMA OnlyServer ==
    ASSUME Inv, conns' = conns, bus' = bus, server' \in ServerType, LimitKept'
    PROVE  Inv'
<1>1. Counted' = Counted
  BY DEF Counted
<1>. QED  BY <1>1 DEF Inv, TypeOK

\* close_cb takes a counted connection back, and conn_count is not 0 then.
LEMMA CloseCbInv ==
    ASSUME Inv, NEW k \in Clients, CloseCb(k)
    PROVE  Inv'
<1>1. conns \in [Clients -> ConnType] /\ server \in ServerType /\ (\A j \in Clients : Sound(conns[j]))
  BY DEF Inv, TypeOK
<1>2. Blank("freed") \in ConnType /\ Sound(Blank("freed")) /\ ~Blank("freed").counted
  BY BlankSound DEF Blank
<1>3. conns' = [conns EXCEPT ![k] = Blank("freed")] /\ bus' = bus
  BY DEF CloseCb
<1>4. CASE ~conns[k].counted
  <2>1. server' = server
    BY <1>1, <1>4 DEF CloseCb, ServerType
  <2>. QED  BY <1>2, <1>3, <1>4, <2>1, OneConn
<1>5. CASE conns[k].counted
  <2>. DEFINE n == Cardinality(Counted)
              m == Cardinality(Counted \ {k})
              less == server.count - 1
  <2>1. k \in Counted /\ IsFiniteSet(Counted)
    BY <1>5 DEF Counted, Inv
  <2>2. IsFiniteSet(Counted \ {k}) /\ m = n - 1 /\ n \in Nat /\ m \in Nat
    BY <2>1, FS_RemoveElement, FS_CardinalityType
  <2>3. Counted' = Counted \ {k}
    BY <1>1, <1>2, <1>3 DEF Counted
  <2>4. server.count = n + server.nats /\ server.count <= MaxConnections
    BY DEF Inv, LimitKept
  <2>5. server.count > 0 /\ less \in Int /\ server.nats \in Nat /\ server.count \in Int /\ MaxConnections \in Nat
    <3>1. server.nats \in Nat /\ server.count \in Int
      BY <1>1 DEF ServerType
    <3>2. MaxConnections \in Nat
      BY LimitsAssumption
    <3>. QED  BY <2>2, <2>4, <3>1, <3>2
  <2>6. less = m + server.nats /\ less <= MaxConnections
    BY <2>2, <2>4, <2>5
  <2>7. server' = [server EXCEPT !.count = less]
    BY <1>5, <2>5 DEF CloseCb
  <2>. HIDE DEF n, m, less
  <2>8. server' \in ServerType /\ server'.count = less /\ server'.nats = server.nats
    BY <1>1, <2>5, <2>7 DEF ServerType
  <2>9. IsFiniteSet(Counted)' /\ LimitKept'
    BY <2>2, <2>3, <2>6, <2>8 DEF LimitKept, m
  <2>10. conns' \in [Clients -> ConnType] /\ (\A j \in Clients : Sound(conns'[j]))
    BY <1>1, <1>2, <1>3
  <2>11. bus' \in BusType
    BY <1>3 DEF Inv, TypeOK
  <2>. QED  BY <2>8, <2>9, <2>10, <2>11 DEF Inv, TypeOK
<1>. QED  BY <1>4, <1>5

\* http_conn_create counts a connection that was not counted.
LEMMA AcceptInv ==
    ASSUME Inv, NEW k \in Clients, Accept(k)
    PROVE  Inv'
<1>1. conns \in [Clients -> ConnType] /\ server \in ServerType /\ (\A j \in Clients : Sound(conns[j]))
  BY DEF Inv, TypeOK
<1>2. PICK r \in Requests[k] : \E d \in {Accepted(r), BeginClose(Accepted(r))} :
         conns' = [conns EXCEPT ![k] = d]
  BY DEF Accept
<1>3. PICK d \in {Accepted(r), BeginClose(Accepted(r))} : conns' = [conns EXCEPT ![k] = d]
  BY <1>2
<1>4. r \in RequestType
  BY RequestsAssumption DEF RequestType
<1>5. Accepted(r) \in ConnType
  <2>1. <<>> \in Seq(Item)
    OBVIOUS
  <2>. QED  BY <1>4, <2>1 DEF Accepted, Blank, ConnType
<1>6. Sound(Accepted(r)) /\ Accepted(r).counted
  BY <1>4 DEF Accepted, Blank, Sound, Accounted
<1>7. d \in ConnType /\ Sound(d) /\ d.counted
  <2>1. Follows(Accepted(r), BeginClose(Accepted(r)))
    BY <1>5, BeginCloseFollows
  <2>2. BeginClose(Accepted(r)).counted
    BY <1>6, <2>1 DEF Follows
  <2>. QED  BY <1>3, <1>5, <1>6, <2>1, <2>2, FollowsSound
<1>. DEFINE n == Cardinality(Counted)
            m == Cardinality(Counted \cup {k})
            more == server.count + 1
<1>8. k \notin Counted /\ IsFiniteSet(Counted)
  BY <1>1 DEF Accept, Sound, Counted, Inv
<1>9. IsFiniteSet(Counted \cup {k}) /\ m = n + 1 /\ n \in Nat /\ m \in Nat
  BY <1>8, FS_AddElement, FS_CardinalityType
<1>10. Counted' = Counted \cup {k}
  BY <1>1, <1>3, <1>7 DEF Counted
<1>11. server.nats \in Nat /\ server.count \in Int /\ MaxConnections \in Nat
  BY <1>1, LimitsAssumption DEF ServerType
<1>12. server.count = n + server.nats /\ server.count < MaxConnections
  BY DEF Inv, LimitKept, Accept
<1>13. more \in Int /\ more = m + server.nats /\ more <= MaxConnections
  BY <1>9, <1>11, <1>12
<1>14. server' = [server EXCEPT !.count = more] /\ bus' = bus
  BY DEF Accept
<1>. HIDE DEF n, m, more
<1>15. server' \in ServerType /\ server'.count = more /\ server'.nats = server.nats
  BY <1>1, <1>13, <1>14 DEF ServerType
<1>16. IsFiniteSet(Counted)' /\ LimitKept'
  BY <1>9, <1>10, <1>13, <1>15 DEF LimitKept, m
<1>17. conns' \in [Clients -> ConnType] /\ (\A j \in Clients : Sound(conns'[j]))
  BY <1>1, <1>3, <1>7
<1>18. bus' \in BusType
  BY <1>14 DEF Inv, TypeOK
<1>. QED  BY <1>15, <1>16, <1>17, <1>18 DEF Inv, TypeOK

\* A callback of one connection.
LEMMA ConnectionInv ==
    ASSUME Inv, NEW k \in Clients, Connection(k) \/ Stream(k)
    PROVE  Inv'
<1>1. /\ conns \in [Clients -> ConnType] /\ server \in ServerType /\ bus \in BusType
      /\ conns[k] \in ConnType /\ Sound(conns[k])
  BY DEF Inv, TypeOK
<1>2. CASE \E n \in Reads : ReadCb(k, n)
  <2>. DEFINE w == [conns |-> conns, bus |-> bus]
  <2>1. PICK n \in Reads : ReadCb(k, n)
    BY <1>2
  <2>2. PICK u \in Received(w, k, n) : conns' = u.conns /\ bus' = u.bus
    BY <2>1 DEF ReadCb, Becomes
  <2>3. World(w, Counted) /\ w.conns[k].st = "open" /\ n \in Nat \ {0}
    BY <2>1, InvWorld, LimitsAssumption DEF ReadCb
  <2>4. World(u, Counted)
    BY <2>2, <2>3, ReceivedWorld
  <2>5. server' = server
    BY <2>1 DEF ReadCb
  <2>6. conns' \in [Clients -> ConnType] /\ bus' \in BusType
    BY <2>2, <2>4 DEF World
  <2>7. \A j \in Clients : Sound(conns'[j]) /\ (conns'[j].counted <=> j \in Counted)
    BY <2>2, <2>4 DEF World
  <2>. QED  BY <2>5, <2>6, <2>7, SameCount
<1>3. CASE ReadEnds(k)
  <2>1. Follows(conns[k], BeginClose(conns[k]))
    BY <1>1, BeginCloseFollows
  <2>2. BeginClose(conns[k]) \in ConnType /\ Sound(BeginClose(conns[k]))
    BY <1>1, <2>1, FollowsSound
  <2>3. BeginClose(conns[k]).counted <=> conns[k].counted
    BY <2>1 DEF Follows
  <2>4. conns' = [conns EXCEPT ![k] = BeginClose(conns[k])] /\ server' = server /\ bus' = bus
    BY <1>3 DEF ReadEnds
  <2>. QED  BY <2>2, <2>3, <2>4, OneConn
<1>4. CASE WriteCb(k)
  <2>. DEFINE c == conns[k]
              more == c.wire \o c.inFlight
              e == [c EXCEPT !.writePending = FALSE, !.inFlight = <<>>, !.wire = more]
  <2>1. more \in Seq(Item) /\ <<>> \in Seq(Item)
    <3>1. c.wire \in Seq(Item) /\ c.inFlight \in Seq(Item)
      BY <1>1 DEF ConnType
    <3>. QED  BY <3>1
  <2>2. PICK d \in AfterWrite(e) : conns' = [conns EXCEPT ![k] = d]
    BY <1>4 DEF WriteCb
  <2>. HIDE DEF more
  <2>3. e \in ConnType /\ (e.counted <=> c.counted)
    BY <1>1, <2>1 DEF ConnType
  <2>4. Sound(e)
    BY <1>1 DEF ConnType, Sound, Accounted
  <2>. HIDE DEF e
  <2>5. d = BeginClose(e) \/ d \in KickWrite(e)
    BY <2>2 DEF AfterWrite
  <2>6. Follows(e, d)
    BY <2>3, <2>5, BeginCloseFollows, KickWriteFollows
  <2>7. d \in ConnType /\ Sound(d)
    BY <2>4, <2>6, FollowsSound
  <2>8. d.counted <=> conns[k].counted
    BY <2>3, <2>6 DEF Follows
  <2>9. server' = server /\ bus' = bus
    BY <1>4 DEF WriteCb
  <2>. QED  BY <2>2, <2>7, <2>8, <2>9, OneConn
<1>5. CASE WriteFails(k)
  <2>. DEFINE e == [conns[k] EXCEPT !.writePending = FALSE]
  <2>1. e \in ConnType /\ (e.counted <=> conns[k].counted)
    BY <1>1 DEF ConnType
  <2>2. Sound(e)
    BY <1>1 DEF ConnType, Sound, Accounted
  <2>3. conns' = [conns EXCEPT ![k] = BeginClose(e)]
    BY <1>5 DEF WriteFails
  <2>. HIDE DEF e
  <2>4. Follows(e, BeginClose(e))
    BY <2>1, BeginCloseFollows
  <2>5. BeginClose(e) \in ConnType /\ Sound(BeginClose(e))
    BY <2>2, <2>4, FollowsSound
  <2>6. BeginClose(e).counted <=> conns[k].counted
    BY <2>1, <2>4 DEF Follows
  <2>7. server' = server /\ bus' = bus
    BY <1>5 DEF WriteFails
  <2>. QED  BY <2>3, <2>5, <2>6, <2>7, OneConn
<1>6. CASE CloseCb(k)
  BY <1>6, CloseCbInv
<1>7. CASE Refuse(k)
  <2>1. conns' = [conns EXCEPT ![k] = Blank("freed")] /\ bus' = bus /\ server' = server
    BY <1>7 DEF Refuse
  <2>2. Blank("freed") \in ConnType /\ Sound(Blank("freed"))
    BY BlankSound
  <2>3. Blank("freed").counted <=> conns[k].counted
    BY <1>1, <1>7 DEF Refuse, Sound, Blank
  <2>. QED  BY <2>1, <2>2, <2>3, OneConn
<1>8. CASE AcceptFails(k)
  <2>1. conns' = [conns EXCEPT ![k] = Blank("closing")] /\ bus' = bus /\ server' = server
    BY <1>8 DEF AcceptFails
  <2>2. Blank("closing") \in ConnType /\ Sound(Blank("closing"))
    BY BlankSound
  <2>3. Blank("closing").counted <=> conns[k].counted
    BY <1>1, <1>8 DEF AcceptFails, Sound, Blank
  <2>. QED  BY <2>1, <2>2, <2>3, OneConn
<1>9. CASE Accept(k)
  BY <1>9, AcceptInv
<1>. QED  BY <1>2, <1>3, <1>4, <1>5, <1>6, <1>7, <1>8, <1>9 DEF Connection, Stream

\* The NATS listener takes a place while there is one and gives back what it took.
LEMMA NatsInv ==
    ASSUME Inv, NatsAccept \/ NatsClose
    PROVE  Inv'
<1>. DEFINE by == IF NatsAccept THEN 1 ELSE -1
            c == server.count + by
            n == server.nats + by
            h == Cardinality(Counted)
<1>1. server \in ServerType /\ IsFiniteSet(Counted)
  BY DEF Inv, TypeOK
<1>2. server.count = h + server.nats /\ server.count <= MaxConnections
  BY DEF Inv, LimitKept
<1>3. server.count \in Int /\ server.nats \in Nat /\ h \in Nat /\ MaxConnections \in Nat
  BY <1>1, LimitsAssumption, FS_CardinalityType DEF ServerType
<1>4. (NatsAccept => server.count < MaxConnections) /\ (~NatsAccept => server.nats > 0)
  BY DEF NatsAccept, NatsClose
<1>5. server' = [server EXCEPT !.count = c, !.nats = n] /\ conns' = conns /\ bus' = bus
  <2>1. CASE NatsAccept
    BY <2>1 DEF NatsAccept
  <2>2. CASE ~NatsAccept
    <3>1. NatsClose
      BY <2>2
    <3>2. server' = [server EXCEPT !.count = @ - 1, !.nats = @ - 1] /\ conns' = conns /\ bus' = bus
      BY <3>1 DEF NatsClose
    <3>3. c = server.count - 1 /\ n = server.nats - 1
      BY <1>3, <2>2
    <3>. QED  BY <3>2, <3>3
  <2>. QED  BY <2>1, <2>2
<1>6. c \in Int /\ n \in Nat /\ c = h + n /\ c <= MaxConnections
  BY <1>2, <1>3, <1>4
<1>. HIDE DEF c, n, h
<1>7. server' \in ServerType /\ server'.count = c /\ server'.nats = n
  BY <1>1, <1>5, <1>6 DEF ServerType
<1>8. Counted' = Counted
  BY <1>5 DEF Counted
<1>9. LimitKept'
  BY <1>6, <1>7, <1>8 DEF LimitKept, h
<1>. QED  BY <1>5, <1>7, <1>9, OnlyServer

\* One callback, or a publish from elsewhere, leads from Inv to Inv.
LEMMA StepInv ==
    ASSUME Inv, [Next]_vars
    PROVE  Inv'
<1>1. /\ conns \in [Clients -> ConnType] /\ server \in ServerType /\ bus \in BusType
      /\ \A j \in Clients : conns[j] \in ConnType /\ Sound(conns[j])
  BY DEF Inv, TypeOK
<1>2. CASE \E k \in Clients : Connection(k) \/ Stream(k)
  BY <1>2, ConnectionInv
<1>3. CASE NatsAccept \/ NatsClose
  BY <1>3, NatsInv
<1>4. CASE OtherPublish
  <2>. DEFINE w == [conns |-> conns, bus |-> bus]
  <2>1. PICK nul \in BOOLEAN : \E p \in RouterPublish(w, nul) : conns' = p.conns /\ bus' = p.bus
    BY <1>4 DEF OtherPublish
  <2>2. PICK p \in RouterPublish(w, nul) : conns' = p.conns /\ bus' = p.bus
    BY <2>1
  <2>3. World(w, Counted) /\ w.conns = conns
    BY InvWorld
  <2>. HIDE DEF w
  <2>4. p.bus \in BusType /\ Spread(w.conns, p.conns)
    <3>1. Typed(w)
      BY <2>3 DEF World, Typed
    <3>. QED  BY <2>2, <3>1, PublishSpread
  <2>5. conns' \in [Clients -> ConnType] /\ bus' \in BusType
    BY <2>2, <2>4 DEF Spread
  <2>6. ASSUME NEW j \in Clients
        PROVE  Sound(conns'[j]) /\ (conns'[j].counted <=> j \in Counted)
    <3>1. Follows(conns[j], conns'[j])
      BY <2>2, <2>3, <2>4 DEF Spread
    <3>2. conns'[j].counted <=> j \in Counted
      BY <3>1 DEF Follows, Counted
    <3>. QED  BY <1>1, <3>1, <3>2, FollowsSound
  <2>7. server' = server
    BY <1>4 DEF OtherPublish
  <2>. QED  BY <2>5, <2>6, <2>7, SameCount
<1>5. CASE OnSignal
  <2>1. server' \in ServerType /\ server'.count = server.count /\ server'.nats = server.nats
    BY <1>1, <1>5 DEF OnSignal, ServerType
  <2>2. conns' = conns /\ bus' = bus
    BY <1>5 DEF OnSignal
  <2>3. LimitKept'
    BY <2>1, <2>2 DEF Inv, LimitKept, Counted
  <2>. QED  BY <2>1, <2>2, <2>3, OnlyServer
<1>6. CASE HttpClose
  <2>1. ASSUME NEW j \in Clients
        PROVE  conns'[j] \in ConnType /\ Sound(conns'[j]) /\ (conns'[j].counted <=> j \in Counted)
    <3>1. conns'[j] = BeginClose(conns[j])
      BY <1>6 DEF HttpClose
    <3>2. Follows(conns[j], conns'[j])
      BY <1>1, <3>1, BeginCloseFollows
    <3>3. conns'[j].counted <=> j \in Counted
      BY <3>2 DEF Follows, Counted
    <3>. QED  BY <1>1, <3>2, <3>3, FollowsSound
  <2>2. conns' \in [Clients -> ConnType]
    BY <1>6, <2>1 DEF HttpClose
  <2>3. server' = server /\ bus' = bus
    BY <1>6 DEF HttpClose
  <2>. QED  BY <1>1, <2>1, <2>2, <2>3, SameCount
<1>7. CASE UNCHANGED vars
  <2>1. \A j \in Clients : Sound(conns'[j]) /\ (conns'[j].counted <=> j \in Counted)
    BY <1>1, <1>7 DEF vars, Counted
  <2>. QED  BY <1>1, <1>7, <2>1, SameCount DEF vars
<1>. QED  BY <1>2, <1>3, <1>4, <1>5, <1>6, <1>7 DEF Next

\* When mb_http_listen has set up the listener, before the first connection, Inv holds.
LEMMA InitInv ==
    ASSUME Init
    PROVE  Inv
<1>1. Blank("none") \in ConnType /\ Sound(Blank("none"))
  BY BlankSound
<1>2. conns \in [Clients -> ConnType] /\ \A k \in Clients : Sound(conns[k])
  BY <1>1 DEF Init
<1>3. server \in ServerType
  BY ModesAssumption DEF Init, ServerType
<1>4. bus \in BusType
  <2>1. <<>> \in Seq(BOOLEAN) /\ {} \in SUBSET Nat
    OBVIOUS
  <2>. QED  BY <2>1 DEF Init, BusType
<1>5. Counted = {}
  BY <1>1 DEF Init, Counted, Blank
<1>6. IsFiniteSet(Counted) /\ Cardinality(Counted) = 0
  BY <1>5, FS_EmptySet
<1>7. server.count = 0 /\ server.nats = 0 /\ MaxConnections \in Nat
  BY LimitsAssumption DEF Init
<1>8. LimitKept
  BY <1>6, <1>7 DEF LimitKept
<1>. QED  BY <1>2, <1>3, <1>4, <1>6, <1>8 DEF Inv, TypeOK

\* The front end keeps Inv, with any clients, requests and limits.
THEOREM Invariance == Spec => []Inv
<1>1. Init => Inv
  BY InitInv
<1>2. Inv /\ [Next]_vars => Inv'
  BY StepInv
<1>. QED  BY <1>1, <1>2, PTL DEF Spec

\* Every field of a connection, of the server and of the router keeps its type.
THEOREM TypeCorrect == Spec => []TypeOK
<1>1. Inv => TypeOK
  BY DEF Inv
<1>. QED  BY <1>1, Invariance, PTL

\* A request reaches the router only when all of it has arrived, within the limits and with
\* every check of the handlers passed, and a second time only if the client sent more than
\* the request: for any reads, of any number of clients.
THEOREM PostsAreExact == Spec => []PostsExact
<1>1. Inv => PostsExact
  <2>. SUFFICES ASSUME Inv, NEW k \in Clients, conns[k].posted > 0
                PROVE  LET c == conns[k] IN
                         /\ Passes(c.req)
                         /\ c.arrived >= c.req.head + c.req.cl
                         /\ c.posted > 1 => c.arrived > c.req.head + c.req.cl
    BY DEF PostsExact, Passes
  <2>. QED  BY DEF Inv, Sound, Accounted
<1>. QED  BY <1>1, Invariance, PTL

\* conn_count agrees with the connections of the two listeners that share it and never passes
\* MB_MAX_CONNECTIONS: whatever is accepted, refused, fails half way or is closed.
THEOREM LimitIsKept == Spec => []LimitKept
<1>1. Inv => LimitKept
  BY DEF Inv
<1>. QED  BY <1>1, Invariance, PTL

-----------------------------------------------------------------------------
(* The items of a stream.                                                  *)

\* Nothing but answers.
Answers(made) == \A i \in DOMAIN made : made[i][1] = "response"

\* What StreamComplete needs of an open connection: nothing is in flight that is not being
\* written, and before the subscription there are only answers.
Steady(c, b) ==
    c.st = "open" =>
        /\ ~c.writePending => c.inFlight = <<>>
        /\ ~c.sub => Answers(Made(c))
        /\ c.sub => c.since <= Len(b.log)
        /\ c.sub /\ ~c.torn => Whole(Made(c), c.replay, c.since, b)

\* One more element.
LEMMA OneMore ==
    ASSUME NEW S, NEW s \in Seq(S), NEW x \in S
    PROVE  /\ Append(s, x) \in Seq(S) /\ Len(s) \in Nat /\ Len(Append(s, x)) = Len(s) + 1
           /\ DOMAIN s = 1 .. Len(s) /\ DOMAIN Append(s, x) = 1 .. Len(s) + 1
           /\ Append(s, x)[Len(s) + 1] = x
           /\ \A i \in 1 .. Len(s) : Append(s, x)[i] = s[i]
OBVIOUS

\* Where the parts of a sequence end does not matter.
LEMMA Parts ==
    ASSUME NEW S, NEW a \in Seq(S), NEW b \in Seq(S), NEW c \in Seq(S)
    PROVE  /\ a \o <<>> \o c = a \o c \o <<>>
           /\ (a \o b) \o <<>> \o c = a \o b \o c
           /\ a \o b \o <<>> = a \o b
           /\ a \o b \in Seq(S)
<1>1. <<>> \in Seq(S) /\ a \o b \in Seq(S)
  OBVIOUS
<1>2. a \o <<>> = a /\ (a \o c) \o <<>> = a \o c /\ (a \o b) \o <<>> = a \o b
  OBVIOUS
<1>. QED  BY <1>1, <1>2

\* The items of a connection.
LEMMA MadeItems ==
    ASSUME NEW c \in ConnType
    PROVE  /\ c.wire \in Seq(Item) /\ c.inFlight \in Seq(Item) /\ c.out \in Seq(Item)
           /\ Made(c) \in Seq(Item)
<1>1. c.wire \in Seq(Item) /\ c.inFlight \in Seq(Item) /\ c.out \in Seq(Item)
  BY DEF ConnType
<1>2. c.wire \o c.inFlight \o c.out \in Seq(Item)
  BY <1>1
<1>. QED  BY <1>1, <1>2 DEF Made

\* An answer more.
LEMMA AnswersMore ==
    ASSUME NEW s \in Seq(Item), Answers(s), NEW code \in Nat
    PROVE  Answers(Append(s, <<"response", code>>))
<1>. DEFINE x == <<"response", code>>
            t == Append(s, x)
            N == Len(s)
<1>1. x \in Item /\ x[1] = "response"
  BY DEF Item
<1>. HIDE DEF x
<1>2. N \in Nat /\ DOMAIN s = 1 .. N /\ DOMAIN t = 1 .. N + 1 /\ t[N + 1] = x /\ \A i \in 1 .. N : t[i] = s[i]
  BY <1>1, OneMore
<1>. HIDE DEF t, N
<1>3. ASSUME NEW i \in 1 .. N + 1 PROVE t[i][1] = "response"
  <2>1. i = N + 1 \/ i \in 1 .. N
    BY <1>2
  <2>. QED  BY <1>1, <1>2, <2>1 DEF Answers
<1>. QED  BY <1>2, <1>3 DEF Answers, t, x

\* The log after a publish.
Logs(a, b, m, nul) ==
    /\ a \in BusType /\ b \in BusType /\ m = Len(a.log) + 1 /\ b.log = Append(a.log, nul)
    /\ b.failed \in {a.failed, a.failed \cup {m}}

\* What the log has.
LEMMA LogMore ==
    ASSUME NEW nul \in BOOLEAN, NEW a, NEW b, NEW m, Logs(a, b, m, nul)
    PROVE  /\ Len(a.log) \in Nat /\ m = Len(a.log) + 1 /\ Len(b.log) = m /\ (b.log[m] <=> nul)
           /\ \A i \in 1 .. Len(a.log) : b.log[i] <=> a.log[i]
           /\ \A i \in 1 .. Len(a.log) : i \in b.failed <=> i \in a.failed
<1>1. a.log \in Seq(BOOLEAN)
  BY DEF Logs, BusType
<1>2. /\ Len(a.log) \in Nat /\ Len(b.log) = Len(a.log) + 1
      /\ b.log[Len(a.log) + 1] = nul /\ \A i \in 1 .. Len(a.log) : b.log[i] = a.log[i]
  BY <1>1, OneMore DEF Logs
<1>3. \A i \in 1 .. Len(a.log) : i # m
  BY <1>2 DEF Logs
<1>. QED  BY <1>2, <1>3 DEF Logs

\* A message that is left out, because of its NUL or its failure.
LEMMA WholeWithout ==
    ASSUME NEW s \in Seq(Item), NEW replay \in Nat, NEW since \in Nat, NEW nul \in BOOLEAN, NEW a, NEW b, NEW m,
           Logs(a, b, m, nul), since <= Len(a.log), Whole(s, replay, since, a), nul \/ m \in b.failed
    PROVE  Whole(s, replay, since, b)
<1>. DEFINE L == Len(a.log)
<1>1. /\ L \in Nat /\ m = L + 1 /\ Len(b.log) = L + 1 /\ (b.log[m] <=> nul)
      /\ \A i \in 1 .. L : b.log[i] <=> a.log[i]
      /\ \A i \in 1 .. L : i \in b.failed <=> i \in a.failed
  BY LogMore
<1>. HIDE DEF L
<1>2. \A i \in since + 1 .. L : i \in since + 1 .. L + 1 /\ i \in 1 .. L
  BY <1>1
<1>3. \A i \in since + 1 .. L + 1 : i = m \/ i \in since + 1 .. L
  BY <1>1
<1>. QED  BY <1>1, <1>2, <1>3 DEF Whole, L

\* A message that is delivered.
LEMMA WholeEvent ==
    ASSUME NEW s \in Seq(Item), NEW replay \in Nat, NEW since \in Nat, NEW a, NEW b, NEW m,
           Logs(a, b, m, FALSE), since <= Len(a.log), Whole(s, replay, since, a)
    PROVE  Whole(Append(s, <<"event", m>>), replay, since, b)
<1>. DEFINE L == Len(a.log)
            x == <<"event", m>>
            t == Append(s, x)
            N == Len(s)
            nul == FALSE
<1>1. /\ L \in Nat /\ m = L + 1 /\ Len(b.log) = L + 1 /\ (b.log[m] <=> nul)
      /\ \A i \in 1 .. L : b.log[i] <=> a.log[i]
      /\ \A i \in 1 .. L : i \in b.failed <=> i \in a.failed
  <2>1. nul \in BOOLEAN /\ Logs(a, b, m, nul)
    OBVIOUS
  <2>. HIDE DEF nul
  <2>. QED  BY <2>1, LogMore
<1>. HIDE DEF L
<1>2. x \in Item /\ x[1] = "event" /\ x[2] = m
  BY <1>1 DEF Item
<1>3. /\ N \in Nat /\ DOMAIN s = 1 .. N /\ DOMAIN t = 1 .. N + 1
      /\ t[N + 1] = x /\ \A i \in 1 .. N : t[i] = s[i]
  <2>. HIDE DEF x
  <2>. QED  BY <1>2, OneMore
<1>. HIDE DEF t, N
<1>4. \A i \in 1 .. N + 1 : i = N + 1 \/ i \in 1 .. N
  BY <1>3
<1>5. \A i \in 1 .. N : i \in 1 .. N + 1 /\ i # N + 1 /\ ~(N + 1 < i)
  BY <1>3
<1>6. ~(N + 1 < N + 1)
  BY <1>3
<1>7. \A i \in since + 1 .. L : i \in since + 1 .. L + 1 /\ i \in 1 .. L /\ i < m
  BY <1>1
<1>8. \A i \in since + 1 .. L + 1 : i = m \/ i \in since + 1 .. L
  BY <1>1
<1>9. m \in since + 1 .. L + 1
  BY <1>1 DEF L
<1>10. \E h \in 1 .. N + 1 : t[h] = StreamHead /\ \A i \in 1 .. h : t[i][1] = "response"
  <2>1. PICK h \in 1 .. N : s[h] = StreamHead /\ \A i \in 1 .. h : s[i][1] = "response"
    BY <1>3 DEF Whole
  <2>2. h \in 1 .. N + 1 /\ \A i \in 1 .. h : i \in 1 .. N
    BY <1>3
  <2>. QED  BY <1>3, <2>1, <2>2
<1>11. ASSUME NEW i \in 1 .. N + 1, t[i][1] # "response"
       PROVE  \/ replay # 0 /\ t[i] = <<"raw", replay>>
              \/ t[i][1] = "event" /\ t[i][2] \in since + 1 .. L + 1 /\ ~b.log[t[i][2]]
  <2>1. CASE i = N + 1
    BY <1>1, <1>2, <1>3, <1>9, <2>1
  <2>2. CASE i \in 1 .. N
    <3>1. \/ replay # 0 /\ s[i] = <<"raw", replay>>
          \/ s[i][1] = "event" /\ s[i][2] \in since + 1 .. L /\ ~a.log[s[i][2]]
      BY <1>3, <1>11, <2>2 DEF Whole, L
    <3>. QED  BY <1>1, <1>3, <1>7, <2>2, <3>1
  <2>. QED  BY <1>4, <2>1, <2>2
<1>12. ASSUME NEW i \in 1 .. N + 1, NEW j \in 1 .. N + 1, t[i][1] # "response", t[j][1] # "response", i < j
       PROVE  t[j][1] = "event" /\ (t[i][1] = "event" => t[i][2] < t[j][2])
  <2>1. i \in 1 .. N
    BY <1>3, <1>12
  <2>2. CASE j = N + 1
    <3>1. \/ replay # 0 /\ s[i] = <<"raw", replay>>
          \/ s[i][1] = "event" /\ s[i][2] \in since + 1 .. L
      BY <1>3, <1>12, <2>1 DEF Whole, L
    <3>2. t[i][1] = "event" => t[i][2] < m
      BY <1>3, <1>7, <2>1, <3>1
    <3>. QED  BY <1>2, <1>3, <2>2, <3>2
  <2>3. CASE j \in 1 .. N
    BY <1>3, <1>12, <2>1, <2>3 DEF Whole
  <2>. QED  BY <1>4, <2>2, <2>3
<1>13. replay # 0 => \E i \in 1 .. N + 1 : t[i] = <<"raw", replay>>
  <2>1. replay # 0 => \E i \in 1 .. N : s[i] = <<"raw", replay>>
    BY <1>3 DEF Whole
  <2>. QED  BY <1>3, <1>5, <2>1
<1>14. ASSUME NEW n \in since + 1 .. L + 1
       PROVE  n \in b.failed \/ b.log[n] \/ \E i \in 1 .. N + 1 : t[i] = <<"event", n>>
  <2>1. CASE n = m
    <3>1. N + 1 \in 1 .. N + 1 /\ t[N + 1] = <<"event", n>>
      BY <1>3, <2>1 DEF x
    <3>. QED  BY <3>1
  <2>2. CASE n \in since + 1 .. L
    <3>1. n \in a.failed \/ a.log[n] \/ \E i \in 1 .. N : s[i] = <<"event", n>>
      BY <1>3, <2>2 DEF Whole, L
    <3>2. CASE n \in a.failed
      BY <1>1, <1>7, <2>2, <3>2
    <3>3. CASE a.log[n]
      BY <1>1, <1>7, <2>2, <3>3
    <3>4. CASE \E i \in 1 .. N : s[i] = <<"event", n>>
      BY <1>3, <1>5, <3>4
    <3>. QED  BY <3>1, <3>2, <3>3, <3>4
  <2>. QED  BY <1>8, <2>1, <2>2
<1>. HIDE DEF x
<1>15. Whole(t, replay, since, b)
  BY <1>1, <1>3, <1>10, <1>11, <1>12, <1>13, <1>14 DEF Whole
<1>. QED  BY <1>15 DEF t, x

\* A stream begins.
LEMMA WholeBegins ==
    ASSUME NEW s \in Seq(Item), Answers(s), NEW replay \in Nat, NEW a \in BusType
    PROVE  LET t == Append(s, StreamHead) IN
           Whole(IF replay = 0 THEN t ELSE Append(t, <<"raw", replay>>), replay, Len(a.log), a)
<1>. DEFINE t == Append(s, StreamHead)
            N == Len(s)
            x == <<"raw", replay>>
            u == Append(t, x)
            L == Len(a.log)
<1>1. StreamHead \in Item /\ x \in Item /\ StreamHead[1] = "response" /\ x[1] = "raw"
  BY DEF StreamHead, Item
<1>. HIDE DEF x
<1>2. /\ N \in Nat /\ DOMAIN s = 1 .. N /\ t \in Seq(Item) /\ Len(t) = N + 1 /\ DOMAIN t = 1 .. N + 1
      /\ t[N + 1] = StreamHead /\ \A i \in 1 .. N : t[i] = s[i]
  BY <1>1, OneMore
<1>3. \A i \in 1 .. N + 1 : t[i][1] = "response"
  <2>1. \A i \in 1 .. N + 1 : i = N + 1 \/ i \in 1 .. N
    BY <1>2
  <2>. HIDE DEF t
  <2>. QED  BY <1>1, <1>2, <2>1 DEF Answers
<1>. HIDE DEF t, N
<1>4. L \in Nat /\ L + 1 .. L = {}
  <2>1. a.log \in Seq(BOOLEAN)
    BY DEF BusType
  <2>2. L \in Nat
    BY <2>1
  <2>. QED  BY <2>2
<1>. HIDE DEF L
<1>5. CASE replay = 0
  <2>1. N + 1 \in 1 .. N + 1
    BY <1>2
  <2>2. Whole(t, replay, L, a)
    BY <1>2, <1>3, <1>4, <1>5, <2>1 DEF Whole, L
  <2>. QED  BY <1>5, <2>2 DEF t, L
<1>6. CASE replay # 0
  <2>1. /\ DOMAIN u = 1 .. (N + 1) + 1 /\ u[(N + 1) + 1] = x /\ \A i \in 1 .. N + 1 : u[i] = t[i]
    BY <1>1, <1>2, OneMore
  <2>. HIDE DEF u
  <2>2. \A i \in 1 .. (N + 1) + 1 : i = (N + 1) + 1 \/ i \in 1 .. N + 1
    BY <1>2
  <2>3. /\ N + 1 \in 1 .. (N + 1) + 1 /\ (N + 1) + 1 \in 1 .. (N + 1) + 1 /\ N + 1 \in 1 .. N + 1
        /\ ~((N + 1) + 1 < (N + 1) + 1)
    BY <1>2
  <2>4. \A i \in 1 .. (N + 1) + 1 : u[i][1] # "response" => i = (N + 1) + 1
    BY <1>3, <2>1, <2>2
  <2>5. u[N + 1] = StreamHead /\ \A i \in 1 .. N + 1 : u[i][1] = "response"
    BY <1>2, <1>3, <2>1, <2>3
  <2>6. Whole(u, replay, L, a)
    BY <1>4, <1>6, <2>1, <2>3, <2>4, <2>5 DEF Whole, L, x
  <2>. QED  BY <1>6, <2>6 DEF u, t, x, L
<1>. QED  BY <1>5, <1>6

-----------------------------------------------------------------------------
(* Connections and their streams.                                          *)

\* A connection with the same items in other places.
LEMMA SameStream ==
    ASSUME NEW c, NEW d, NEW b, Steady(c, b), d.st = c.st, d.sub <=> c.sub, d.torn <=> c.torn,
           d.since = c.since, d.replay = c.replay, Made(d) = Made(c),
           d.st = "open" /\ ~d.writePending => d.inFlight = <<>>
    PROVE  Steady(d, b)
BY DEF Steady

\* http_conn_begin_close
LEMMA ClosedSteady ==
    ASSUME NEW c \in ConnType, NEW b
    PROVE  BeginClose(c).st # "open" /\ Steady(BeginClose(c), b)
BY DEF BeginClose, Blank, Steady

\* write_socket: what is in flight had been in out.
LEMMA WriteSocketSteady ==
    ASSUME NEW c \in ConnType, NEW b, Steady(c, b), NEW d \in WriteSocket(c)
    PROVE  Steady(d, b)
<1>. DEFINE e == [c EXCEPT !.inFlight = c.out, !.out = <<>>]
            f == [e EXCEPT !.writePending = TRUE]
<1>1. CASE d = c
  BY <1>1
<1>2. CASE c.st = "open" /\ ~c.writePending /\ d \in {f, BeginClose(e)}
  <2>1. c.wire \in Seq(Item) /\ c.inFlight \in Seq(Item) /\ c.out \in Seq(Item) /\ <<>> \in Seq(Item)
    BY MadeItems
  <2>2. e \in ConnType
    BY <2>1 DEF ConnType
  <2>3. CASE d = BeginClose(e)
    BY <2>2, <2>3, ClosedSteady
  <2>4. CASE d = f
    <3>1. f.wire = c.wire /\ f.inFlight = c.out /\ f.out = <<>> /\ f.writePending
      BY DEF ConnType
    <3>2. f.st = c.st /\ (f.sub <=> c.sub) /\ (f.torn <=> c.torn) /\ f.since = c.since /\ f.replay = c.replay
      BY DEF ConnType
    <3>. HIDE DEF f
    <3>3. c.inFlight = <<>>
      BY <1>2 DEF Steady
    <3>4. Made(f) = Made(c)
      <4>. DEFINE x == c.wire
                  y == c.out
      <4>1. x \o <<>> \o y = x \o y \o <<>>
        <5>1. x \in Seq(Item) /\ y \in Seq(Item)
          BY <2>1
        <5>. HIDE DEF x, y
        <5>. QED  BY <5>1
      <4>. QED  BY <3>1, <3>3, <4>1 DEF Made
    <3>. QED  BY <2>4, <3>1, <3>2, <3>4, SameStream
  <2>. QED  BY <1>2, <2>3, <2>4
<1>3. d = c \/ (c.st = "open" /\ ~c.writePending /\ d \in {f, BeginClose(e)})
  BY DEF WriteSocket
<1>. QED  BY <1>1, <1>2, <1>3

\* kick_write
LEMMA KickWriteSteady ==
    ASSUME NEW c \in ConnType, NEW b, Steady(c, b), NEW d \in KickWrite(c)
    PROVE  Steady(d, b)
<1>1. d = c \/ d = BeginClose(c) \/ d \in WriteSocket(c)
  BY DEF KickWrite
<1>. QED  BY <1>1, ClosedSteady, WriteSocketSteady

\* The items with one more in out.
LEMMA MadeAppend ==
    ASSUME NEW c \in ConnType, NEW e, NEW x \in Item,
           e.wire = c.wire, e.inFlight = c.inFlight, e.out = Append(c.out, x)
    PROVE  Made(e) = Append(Made(c), x)
<1>1. c.wire \in Seq(Item) /\ c.inFlight \in Seq(Item) /\ c.out \in Seq(Item)
  BY MadeItems
<1>. DEFINE p == c.wire
            q == c.inFlight
            r == c.out
<1>2. p \in Seq(Item) /\ q \in Seq(Item) /\ r \in Seq(Item)
  BY <1>1
<1>3. Made(e) = p \o q \o Append(r, x) /\ Made(c) = p \o q \o r
  BY DEF Made
<1>. HIDE DEF p, q, r
<1>. DEFINE d == p \o q
<1>4. p \o q \o Append(r, x) = Append(p \o q \o r, x)
  <2>1. d \in Seq(Item)
    BY <1>2
  <2>. HIDE DEF d
  <2>2. d \o Append(r, x) = Append(d \o r, x)
    BY <1>2, <2>1
  <2>. QED  BY <2>2 DEF d
<1>. QED  BY <1>3, <1>4

\* respond_and_close, to a client without a stream
LEMMA RespondSteady ==
    ASSUME NEW c \in ConnType, NEW b, Steady(c, b), ~c.sub, NEW code \in Nat, NEW d \in RespondAndClose(c, code)
    PROVE  Steady(d, b)
<1>. DEFINE x == <<"response", code>>
            more == Append(c.out, x)
            e == [c EXCEPT !.out = more, !.closeAfter = TRUE]
<1>1. x \in Item
  BY DEF Item
<1>2. d = BeginClose(c) \/ d \in KickWrite(e)
  BY DEF RespondAndClose
<1>3. more \in Seq(Item) /\ Made(c) \in Seq(Item)
  BY <1>1, MadeItems
<1>. HIDE DEF more
<1>4. e \in ConnType
  BY <1>3 DEF ConnType
<1>5. /\ e.wire = c.wire /\ e.inFlight = c.inFlight /\ e.out = more /\ e.st = c.st /\ (e.sub <=> c.sub)
      /\ (e.writePending <=> c.writePending)
  BY DEF ConnType
<1>. HIDE DEF e
<1>6. Made(e) = Append(Made(c), x)
  <2>. HIDE DEF x
  <2>. QED  BY <1>1, <1>5, MadeAppend DEF more
<1>7. c.st = "open" => Answers(Made(e))
  BY <1>3, <1>6, AnswersMore DEF Steady
<1>8. Steady(e, b)
  BY <1>5, <1>7 DEF Steady
<1>. QED  BY <1>2, <1>4, <1>8, ClosedSteady, KickWriteSteady

\* A publish that does not reach a connection, because it has no stream or is left out.
LEMMA PassedSteady ==
    ASSUME NEW c \in ConnType, NEW nul \in BOOLEAN, NEW a, NEW b, NEW m, Logs(a, b, m, nul), Steady(c, a),
           ~c.sub \/ nul \/ m \in b.failed
    PROVE  Steady(c, b)
<1>1. Made(c) \in Seq(Item) /\ c.replay \in Nat /\ c.since \in Nat
  BY MadeItems DEF ConnType
<1>2. c.since <= Len(a.log) => c.since <= Len(b.log)
  BY <1>1, LogMore
<1>3. ASSUME c.st = "open", c.sub, ~c.torn PROVE Whole(Made(c), c.replay, c.since, b)
  <2>1. c.since <= Len(a.log) /\ Whole(Made(c), c.replay, c.since, a) /\ (nul \/ m \in b.failed)
    BY <1>3 DEF Steady
  <2>. DEFINE s == Made(c)
              r == c.replay
              n == c.since
  <2>2. s \in Seq(Item) /\ r \in Nat /\ n \in Nat /\ n <= Len(a.log) /\ Whole(s, r, n, a)
    BY <1>1, <2>1
  <2>. HIDE DEF s, r, n
  <2>3. Whole(s, r, n, b)
    BY <2>1, <2>2, WholeWithout
  <2>. QED  BY <2>3 DEF s, r, n
<1>. QED  BY <1>2, <1>3 DEF Steady

\* deliver_to_sub
LEMMA DeliverSteady ==
    ASSUME NEW c \in ConnType, NEW nul \in BOOLEAN, NEW a, NEW b, NEW m, Logs(a, b, m, nul), Steady(c, a), c.sub,
           NEW d \in DeliverEvent(c, m, nul)
    PROVE  Steady(d, b)
<1>. DEFINE x == <<"event", m>>
            more == Append(c.out, x)
            e == [c EXCEPT !.out = more]
<1>1. CASE nul
  <2>1. d = c
    BY <1>1 DEF DeliverEvent
  <2>. QED  BY <1>1, <2>1, PassedSteady
<1>2. CASE ~nul
  <2>1. x \in Item
    BY LogMore DEF Item
  <2>2. d = BeginClose(c) \/ d \in KickWrite(e)
    BY <1>2 DEF DeliverEvent
  <2>3. more \in Seq(Item) /\ Made(c) \in Seq(Item)
    BY <2>1, MadeItems
  <2>. HIDE DEF more
  <2>4. e \in ConnType
    BY <2>3 DEF ConnType
  <2>5. /\ e.wire = c.wire /\ e.inFlight = c.inFlight /\ e.out = more /\ e.st = c.st /\ (e.sub <=> c.sub)
        /\ (e.writePending <=> c.writePending) /\ (e.torn <=> c.torn) /\ e.since = c.since /\ e.replay = c.replay
    BY DEF ConnType
  <2>. HIDE DEF e
  <2>6. Made(e) = Append(Made(c), x)
    <3>. HIDE DEF x
    <3>. QED  BY <2>1, <2>5, MadeAppend DEF more
  <2>7. ASSUME c.st = "open", ~c.torn PROVE Whole(Made(e), c.replay, c.since, b)
    <3>. DEFINE s == Made(c)
                r == c.replay
                n == c.since
    <3>1. s \in Seq(Item) /\ r \in Nat /\ n \in Nat
      BY <2>3 DEF ConnType
    <3>2. n <= Len(a.log) /\ Whole(s, r, n, a)
      BY <2>7 DEF Steady
    <3>3. Logs(a, b, m, FALSE)
      BY <1>2 DEF Logs
    <3>. HIDE DEF s, r, n
    <3>4. Whole(Append(s, <<"event", m>>), r, n, b)
      BY <3>1, <3>2, <3>3, WholeEvent
    <3>. QED  BY <2>6, <3>4 DEF s, r, n
  <2>8. c.st = "open" => c.since <= Len(b.log)
    <3>1. c.since \in Nat
      BY DEF ConnType
    <3>2. c.st = "open" => c.since <= Len(a.log)
      BY DEF Steady
    <3>. QED  BY <3>1, <3>2, LogMore
  <2>9. Steady(e, b)
    BY <2>5, <2>7, <2>8 DEF Steady
  <2>. QED  BY <2>2, <2>4, <2>9, ClosedSteady, KickWriteSteady
<1>. QED  BY <1>1, <1>2

\* An event that is torn is no longer spoken of.
LEMMA TornSteady ==
    ASSUME NEW c \in ConnType, NEW nul \in BOOLEAN, NEW a, NEW b, NEW m, Logs(a, b, m, nul), Steady(c, a), c.sub
    PROVE  Steady(TornEvent(c, m), b)
<1>. DEFINE t == TornEvent(c, m)
<1>1. /\ t.st = c.st /\ t.inFlight = c.inFlight /\ (t.writePending <=> c.writePending) /\ (t.sub <=> c.sub)
      /\ t.since = c.since /\ t.torn
  BY DEF TornEvent, ConnType
<1>. HIDE DEF t
<1>2. c.st = "open" => c.since <= Len(b.log)
  <2>1. c.since \in Nat
    BY DEF ConnType
  <2>2. c.st = "open" => c.since <= Len(a.log)
    BY DEF Steady
  <2>. QED  BY <2>1, <2>2, LogMore
<1>3. Steady(t, b)
  BY <1>1, <1>2 DEF Steady
<1>. QED  BY <1>3 DEF t

-----------------------------------------------------------------------------
(* The handlers and the streams.                                           *)

\* The streams of a state a handler works on.
Flows(w) == \A j \in Clients : Steady(w.conns[j], w.bus)

\* What a publish leaves of the router's record.
LEMMA LoggedLogs ==
    ASSUME NEW w, w.bus \in BusType, NEW nul \in BOOLEAN, NEW b \in {w.bus, Stored(w, Len(w.bus.log) + 1)}
    PROVE  LET m == Len(w.bus.log) + 1
               l == [b EXCEPT !.log = Append(@, nul)]
           IN  /\ Logs(w.bus, l, m, nul)
               /\ Logs(w.bus, [l EXCEPT !.failed = @ \cup {m}], m, nul) /\ m \in [l EXCEPT !.failed = @ \cup {m}].failed
<1>. DEFINE m == Len(w.bus.log) + 1
            l == [b EXCEPT !.log = Append(@, nul)]
            f == [l EXCEPT !.failed = @ \cup {m}]
<1>1. l \in BusType /\ f \in BusType
  BY BusTyped
<1>2. b \in BusType /\ b.log = w.bus.log /\ b.failed = w.bus.failed
  <2>1. m \in Nat
    BY DEF BusType
  <2>. HIDE DEF m
  <2>. QED  BY <2>1 DEF Stored, BusType, m
<1>3. l.log = Append(w.bus.log, nul) /\ l.failed = w.bus.failed
  BY <1>2 DEF BusType
<1>4. f.log = l.log /\ f.failed = l.failed \cup {m}
  <2>. HIDE DEF l, m
  <2>. QED  BY <1>1 DEF BusType
<1>. HIDE DEF m, l, f
<1>5. Logs(w.bus, l, m, nul) /\ Logs(w.bus, f, m, nul) /\ m \in f.failed
  BY <1>1, <1>3, <1>4 DEF Logs, m
<1>. QED  BY <1>5 DEF m, l, f

\* mb_router_publish
LEMMA PublishFlows ==
    ASSUME NEW w, Typed(w), Flows(w), NEW nul \in BOOLEAN, NEW p \in RouterPublish(w, nul)
    PROVE  Flows(p)
<1>. DEFINE m == Len(w.bus.log) + 1
            subs == Subscribed(w.conns)
            logged(b) == [b EXCEPT !.log = Append(@, nul)]
            lost(b) == [logged(b) EXCEPT !.failed = @ \cup {m}]
            served(S) == Each(w.conns, S, LAMBDA c : DeliverEvent(c, m, nul))
            torn == {k \in subs : ~nul /\ Len(w.conns[k].out) < MaxPending}
            whole == {[ok |-> TRUE, conns |-> cs, bus |-> logged(Stored(w, m))] : cs \in served(subs)}
            before == {[ok |-> FALSE, conns |-> w.conns, bus |-> lost(b)] : b \in {w.bus, Stored(w, m)}}
            amid == UNION {{[ok |-> FALSE, conns |-> [cs EXCEPT ![k] = TornEvent(@, m)], bus |-> lost(Stored(w, m))] :
                            cs \in UNION {served(T) : T \in SUBSET (subs \ {k})}} : k \in torn}
<1>1. w.bus \in BusType /\ w.conns \in [Clients -> ConnType] /\ \A j \in Clients : w.conns[j] \in ConnType
  BY DEF Typed
<1>2. \A j \in Clients : Steady(w.conns[j], w.bus) /\ (j \in subs <=> w.conns[j].sub)
  BY DEF Flows, Subscribed
<1>3. p \in whole \/ p \in before \/ p \in amid
  BY DEF RouterPublish
<1>4. \A b \in {w.bus, Stored(w, m)} : /\ Logs(w.bus, logged(b), m, nul) /\ Logs(w.bus, lost(b), m, nul)
                                       /\ m \in lost(b).failed
  BY <1>1, LoggedLogs
<1>5. ASSUME NEW S \in SUBSET subs, NEW cs \in served(S), NEW j \in Clients
      PROVE  IF j \in S THEN cs[j] \in DeliverEvent(w.conns[j], m, nul) ELSE cs[j] = w.conns[j]
  BY DEF Each
<1>. HIDE DEF m, logged, lost, subs, served
<1>6. CASE p \in whole
  <2>1. PICK cs \in served(subs) : p = [ok |-> TRUE, conns |-> cs, bus |-> logged(Stored(w, m))]
    BY <1>6
  <2>. DEFINE b == logged(Stored(w, m))
  <2>2. Logs(w.bus, b, m, nul) /\ p.conns = cs /\ p.bus = b
    BY <1>4, <2>1
  <2>. HIDE DEF b
  <2>3. ASSUME NEW j \in Clients PROVE Steady(cs[j], b)
    <3>1. subs \in SUBSET subs
      OBVIOUS
    <3>2. IF j \in subs THEN cs[j] \in DeliverEvent(w.conns[j], m, nul) ELSE cs[j] = w.conns[j]
      BY <1>5, <3>1
    <3>3. CASE j \in subs
      BY <1>1, <1>2, <2>2, <3>2, <3>3, DeliverSteady
    <3>4. CASE j \notin subs
      BY <1>1, <1>2, <2>2, <3>2, <3>4, PassedSteady
    <3>. QED  BY <3>3, <3>4
  <2>. QED  BY <2>2, <2>3 DEF Flows
<1>7. CASE p \in before
  <2>1. PICK x \in {w.bus, Stored(w, m)} : p = [ok |-> FALSE, conns |-> w.conns, bus |-> lost(x)]
    BY <1>7
  <2>. DEFINE b == lost(x)
  <2>2. Logs(w.bus, b, m, nul) /\ m \in b.failed /\ p.conns = w.conns /\ p.bus = b
    BY <1>4, <2>1
  <2>. HIDE DEF b
  <2>3. ASSUME NEW j \in Clients PROVE Steady(w.conns[j], b)
    BY <1>1, <1>2, <2>2, PassedSteady
  <2>. QED  BY <2>2, <2>3 DEF Flows
<1>8. CASE p \in amid
  <2>1. PICK k \in torn : p \in
           {[ok |-> FALSE, conns |-> [cs EXCEPT ![k] = TornEvent(@, m)], bus |-> lost(Stored(w, m))] :
               cs \in UNION {served(T) : T \in SUBSET (subs \ {k})}}
    BY <1>8
  <2>2. PICK ds \in UNION {served(T) : T \in SUBSET (subs \ {k})} :
           p = [ok |-> FALSE, conns |-> [ds EXCEPT ![k] = TornEvent(@, m)], bus |-> lost(Stored(w, m))]
    BY <2>1
  <2>3. PICK T \in SUBSET (subs \ {k}) : ds \in served(T)
    BY <2>2
  <2>4. k \in Clients /\ w.conns[k].sub
    BY DEF Subscribed, subs
  <2>5. T \in SUBSET subs /\ k \notin T
    OBVIOUS
  <2>6. DOMAIN ds = Clients
    BY <2>3 DEF Each, served
  <2>7. \A j \in Clients : IF j \in T THEN ds[j] \in DeliverEvent(w.conns[j], m, nul) ELSE ds[j] = w.conns[j]
    BY <1>5, <2>3, <2>5
  <2>. DEFINE b == lost(Stored(w, m))
              t == TornEvent(w.conns[k], m)
  <2>8. Logs(w.bus, b, m, nul) /\ m \in b.failed
    BY <1>4
  <2>9. p.bus = b /\ \A j \in Clients : p.conns[j] = IF j = k THEN t ELSE ds[j]
    BY <2>2, <2>4, <2>5, <2>6, <2>7
  <2>. HIDE DEF b, t
  <2>10. ASSUME NEW j \in Clients PROVE Steady(p.conns[j], b)
    <3>1. CASE j = k
      <4>1. Steady(t, b)
        BY <1>1, <1>2, <2>4, <2>8, TornSteady DEF t
      <4>. QED  BY <2>9, <3>1, <4>1
    <3>2. CASE j # k
      <4>1. p.conns[j] = ds[j]
        BY <2>9, <3>2
      <4>2. CASE j \in T
        <5>1. ds[j] \in DeliverEvent(w.conns[j], m, nul) /\ w.conns[j].sub
          BY <1>2, <2>5, <2>7, <4>2
        <5>. QED  BY <1>1, <1>2, <2>8, <4>1, <5>1, DeliverSteady
      <4>3. CASE j \notin T
        <5>1. ds[j] = w.conns[j]
          BY <2>7, <4>3
        <5>. QED  BY <1>1, <1>2, <2>8, <4>1, <5>1, PassedSteady
      <4>. QED  BY <4>2, <4>3
    <3>. QED  BY <3>1, <3>2
  <2>. QED  BY <2>9, <2>10 DEF Flows
<1>. QED  BY <1>3, <1>6, <1>7, <1>8

\* One connection replaced.
LEMMA FlowsUpdate ==
    ASSUME NEW w, Typed(w), Flows(w), NEW k \in Clients, NEW d, Steady(d, w.bus)
    PROVE  Flows([conns |-> [w.conns EXCEPT ![k] = d], bus |-> w.bus])
<1>1. w.conns \in [Clients -> ConnType]
  BY DEF Typed
<1>. QED  BY <1>1 DEF Flows

\* An answer, to a client without a stream.
LEMMA AnswerFlows ==
    ASSUME NEW w, Typed(w), Flows(w), NEW k \in Clients, ~w.conns[k].sub, NEW code \in Nat,
           NEW u \in Answer(w, k, code)
    PROVE  Flows(u)
<1>1. PICK d \in RespondAndClose(w.conns[k], code) :
         u = [conns |-> [w.conns EXCEPT ![k] = d], bus |-> w.bus]
  BY DEF Answer
<1>2. w.conns[k] \in ConnType /\ Steady(w.conns[k], w.bus)
  BY DEF Typed, Flows
<1>3. Steady(d, w.bus)
  BY <1>2, RespondSteady
<1>. QED  BY <1>1, <1>3, FlowsUpdate

\* mb_server_client_publish: a client that publishes has no stream.
LEMMA ClientPublishFlows ==
    ASSUME NEW w, Typed(w), Flows(w), NEW k \in Clients, ~w.conns[k].sub, NEW r,
           NEW u \in ClientPublish(w, k, r)
    PROVE  Flows(u)
<1>. DEFINE counted(p) == [conns |-> [p.conns EXCEPT ![k].posted = @ + 1], bus |-> p.bus]
            pubs == RouterPublish(w, FALSE)
<1>1. Typed(w)
  OBVIOUS
<1>2. CASE \E code \in Nat : u \in Answer(w, k, code)
  BY <1>1, <1>2, AnswerFlows
<1>3. ASSUME NEW p \in pubs, NEW code \in {202, 500},
             u \in Answer(counted(p), k, code)
      PROVE  Flows(u)
  <2>. DEFINE c == w.conns[k]
              more == c.posted + 1
              d == [c EXCEPT !.posted = more]
              v == counted(p)
              y == [conns |-> p.conns, bus |-> p.bus]
  <2>1. p.bus \in BusType /\ Spread(w.conns, p.conns) /\ Flows(p)
    <3>. DEFINE no == FALSE
    <3>1. no \in BOOLEAN /\ p \in RouterPublish(w, no)
      BY <1>3
    <3>. HIDE DEF no
    <3>. QED  BY <1>1, <3>1, PublishSpread, PublishFlows
  <2>2. p.conns[k] = c /\ c \in ConnType /\ p.conns \in [Clients -> ConnType]
    BY <1>1, <2>1 DEF Spread, Typed
  <2>3. v = [conns |-> [y.conns EXCEPT ![k] = d], bus |-> y.bus]
    BY <2>2
  <2>4. more \in Nat
    BY <2>2 DEF ConnType
  <2>. HIDE DEF more
  <2>5. d \in ConnType
    BY <2>2, <2>4 DEF ConnType
  <2>6. /\ d.wire = c.wire /\ d.inFlight = c.inFlight /\ d.out = c.out /\ d.st = c.st /\ (d.sub <=> c.sub)
        /\ (d.writePending <=> c.writePending) /\ (d.torn <=> c.torn) /\ d.since = c.since /\ d.replay = c.replay
    BY <2>2 DEF ConnType
  <2>7. Typed(y) /\ Flows(y)
    BY <2>1, <2>2 DEF Typed, Flows
  <2>8. Steady(c, y.bus)
    BY <2>1, <2>2 DEF Flows
  <2>. HIDE DEF d
  <2>9. Made(d) = Made(c)
    BY <2>6 DEF Made
  <2>10. d.st = "open" /\ ~d.writePending => d.inFlight = <<>>
    BY <2>6, <2>8 DEF Steady
  <2>11. Steady(d, y.bus)
    BY <2>6, <2>8, <2>9, <2>10, SameStream
  <2>12. Typed(v) /\ v.conns[k] = d
    BY <2>2, <2>3, <2>5, <2>7 DEF Typed
  <2>13. Flows(v)
    <3>. HIDE DEF y
    <3>. QED  BY <2>3, <2>7, <2>11, FlowsUpdate
  <2>14. u \in Answer(v, k, code) /\ ~v.conns[k].sub
    BY <1>3, <2>6, <2>12
  <2>. HIDE DEF v
  <2>. QED  BY <2>12, <2>13, <2>14, AnswerFlows
<1>4. CASE server.pubs /\ r.space = "plain"
  <2>. DEFINE answered(p) == Answer(counted(p), k, 500) \cup (IF p.ok THEN Answer(counted(p), k, 202) ELSE {})
  <2>1. u \in UNION {answered(p) : p \in pubs}
    BY <1>4 DEF ClientPublish
  <2>. HIDE DEF answered
  <2>2. PICK p \in pubs : u \in answered(p)
    BY <2>1
  <2>. HIDE DEF counted, pubs
  <2>3. u \in Answer(counted(p), k, 500) \/ u \in Answer(counted(p), k, 202)
    BY <2>2 DEF answered
  <2>4. ASSUME NEW code \in {202, 500}, u \in Answer(counted(p), k, code) PROVE Flows(u)
    BY <1>3, <2>4
  <2>. QED  BY <2>3, <2>4
<1>5. CASE ~(server.pubs /\ r.space = "plain")
  <2>1. u \in Answer(w, k, 403) \/ u \in Answer(w, k, 409)
    BY <1>5 DEF ClientPublish
  <2>. QED  BY <1>2, <2>1
<1>. QED  BY <1>4, <1>5

\* The end of handle_get: the stream begins with its head and the replay.
LEMMA SubscribeFlows ==
    ASSUME NEW w, Typed(w), Flows(w), NEW k \in Clients, w.conns[k].st = "open", ~w.conns[k].sub, NEW r,
           NEW u \in Subscribe(w, k, r)
    PROVE  Flows(u)
<1>. DEFINE c == w.conns[k]
            replay == IF r.space = "lvc" THEN w.bus.latest ELSE 0
            head == Append(c.out, StreamHead)
            raw == <<"raw", replay>>
            items == head \o (IF replay = 0 THEN <<>> ELSE <<raw>>)
            n == Len(w.bus.log)
            live == [c EXCEPT !.sse = TRUE, !.sub = TRUE, !.rx = 0, !.since = n,
                              !.replay = replay, !.out = items]
            none == [c EXCEPT !.out = <<>>]
            refused == [w EXCEPT !.conns[k].out = <<>>]
<1>1. c \in ConnType /\ Steady(c, w.bus) /\ w.bus \in BusType /\ w.conns \in [Clients -> ConnType]
  BY DEF Typed, Flows
<1>2. \/ u \in {[w EXCEPT !.conns[k] = d] : d \in {BeginClose(c)} \cup KickWrite(live)}
      \/ u \in Answer(refused, k, 500)
  BY ZenonT(30) DEF Subscribe
<1>3. /\ c.wire \in Seq(Item) /\ c.inFlight \in Seq(Item) /\ c.out \in Seq(Item) /\ Made(c) \in Seq(Item)
      /\ Answers(Made(c))
  BY <1>1, MadeItems DEF Steady
<1>4. replay \in Nat /\ n \in Nat
  BY <1>1 DEF BusType
<1>. HIDE DEF replay, n
<1>5. StreamHead \in Item /\ raw \in Item
  BY <1>4 DEF StreamHead, Item
<1>. HIDE DEF raw
<1>6. items = IF replay = 0 THEN head ELSE Append(head, raw)
  <2>1. head \in Seq(Item)
    BY <1>3, <1>5
  <2>. HIDE DEF head
  <2>2. head \o <<>> = head /\ head \o <<raw>> = Append(head, raw)
    BY <1>5, <2>1
  <2>. QED  BY <2>2
<1>7. head \in Seq(Item) /\ items \in Seq(Item)
  <2>1. head \in Seq(Item)
    BY <1>3, <1>5
  <2>. HIDE DEF head, items
  <2>. QED  BY <1>5, <1>6, <2>1
<1>. HIDE DEF items, head
<1>8. live \in ConnType
  BY <1>1, <1>4, <1>7 DEF ConnType
<1>9. /\ live.wire = c.wire /\ live.inFlight = c.inFlight /\ live.out = items /\ live.st = c.st /\ live.sub
      /\ live.since = n /\ live.replay = replay /\ (live.writePending <=> c.writePending)
  BY <1>1 DEF ConnType
<1>. HIDE DEF live
<1>10. Made(live) = LET t == Append(Made(c), StreamHead) IN IF replay = 0 THEN t ELSE Append(t, raw)
  <2>. DEFINE mid == [live EXCEPT !.out = head]
  <2>1. mid \in ConnType /\ mid.wire = c.wire /\ mid.inFlight = c.inFlight /\ mid.out = head
    BY <1>7, <1>8, <1>9 DEF ConnType
  <2>. HIDE DEF mid
  <2>2. Made(mid) = Append(Made(c), StreamHead)
    BY <1>1, <1>5, <2>1, MadeAppend DEF head
  <2>3. CASE replay = 0
    BY <1>6, <1>9, <2>1, <2>2, <2>3 DEF Made
  <2>4. CASE replay # 0
    <3>1. Made(live) = Append(Made(mid), raw)
      BY <1>5, <1>6, <1>9, <2>1, <2>4, MadeAppend
    <3>. QED  BY <2>2, <2>4, <3>1
  <2>. QED  BY <2>3, <2>4
<1>11. Whole(Made(live), replay, n, w.bus)
  <2>. DEFINE s == Made(c)
              t == Append(s, StreamHead)
  <2>1. s \in Seq(Item) /\ Answers(s)
    BY <1>3
  <2>. HIDE DEF s
  <2>2. Whole(IF replay = 0 THEN t ELSE Append(t, raw), replay, n, w.bus)
    BY <1>1, <1>4, <2>1, WholeBegins DEF raw, n
  <2>. QED  BY <1>10, <2>2 DEF s
<1>12. Steady(live, w.bus)
  <2>1. ~live.writePending => live.inFlight = <<>>
    BY <1>1, <1>9 DEF Steady
  <2>2. live.since <= Len(w.bus.log)
    BY <1>4, <1>9 DEF n
  <2>. QED  BY <1>9, <1>11, <2>1, <2>2 DEF Steady
<1>13. CASE u \in {[w EXCEPT !.conns[k] = d] : d \in {BeginClose(c)} \cup KickWrite(live)}
  <2>1. PICK d \in {BeginClose(c)} \cup KickWrite(live) : u = [w EXCEPT !.conns[k] = d]
    BY <1>13
  <2>2. Steady(d, w.bus)
    BY <1>1, <1>8, <1>12, ClosedSteady, KickWriteSteady
  <2>3. u = [conns |-> [w.conns EXCEPT ![k] = d], bus |-> w.bus]
    BY <2>1 DEF Typed
  <2>. QED  BY <2>2, <2>3, FlowsUpdate
<1>14. CASE u \in Answer(refused, k, 500)
  <2>1. <<>> \in Seq(Item)
    OBVIOUS
  <2>2. none \in ConnType
    BY <1>1, <2>1 DEF ConnType
  <2>3. /\ none.wire = c.wire /\ none.inFlight = c.inFlight /\ none.out = <<>> /\ none.st = c.st
        /\ ~none.sub /\ (none.writePending <=> c.writePending)
    BY <1>1 DEF ConnType
  <2>4. refused = [conns |-> [w.conns EXCEPT ![k] = none], bus |-> w.bus]
    BY DEF Typed
  <2>. HIDE DEF none
  <2>5. Answers(Made(none))
    <3>. DEFINE p == c.wire
                q == c.inFlight
                o == c.out
    <3>1. p \in Seq(Item) /\ q \in Seq(Item) /\ o \in Seq(Item) /\ Made(c) = p \o q \o o /\ Made(none) = p \o q \o <<>>
      BY <1>3, <2>3 DEF Made
    <3>. HIDE DEF p, q, o
    <3>. DEFINE s == p \o q
    <3>2. s \in Seq(Item) /\ p \o q \o <<>> = s /\ p \o q \o o = s \o o
      BY <3>1, Parts
    <3>. HIDE DEF s
    <3>3. Len(s) \in Nat /\ Len(o) \in Nat /\ DOMAIN s = 1 .. Len(s) /\ DOMAIN (s \o o) = 1 .. Len(s) + Len(o)
      BY <3>1, <3>2
    <3>4. \A i \in DOMAIN s : i \in DOMAIN (s \o o) /\ (s \o o)[i] = s[i]
      BY <3>1, <3>2, <3>3
    <3>. QED  BY <1>3, <3>1, <3>2, <3>4 DEF Answers
  <2>6. Steady(none, w.bus)
    BY <1>1, <2>3, <2>5 DEF Steady
  <2>7. Flows(refused)
    <3>. HIDE DEF refused
    <3>. QED  BY <2>4, <2>6, FlowsUpdate
  <2>8. Typed(refused) /\ refused.conns[k] = none
    BY <1>1, <2>2, <2>4 DEF Typed
  <2>. HIDE DEF refused
  <2>. QED  BY <1>14, <2>3, <2>7, <2>8, AnswerFlows
<1>. QED  BY <1>2, <1>13, <1>14

\* handle_post
LEMMA HandlePostFlows ==
    ASSUME NEW w, Typed(w), Flows(w), NEW k \in Clients, ~w.conns[k].sub, NEW r, NEW u \in HandlePost(w, k, r)
    PROVE  Flows(u)
<1>1. CASE \E code \in Nat : u \in Answer(w, k, code)
  BY <1>1, AnswerFlows
<1>2. CASE u \in ClientPublish(w, k, r)
  BY <1>2, ClientPublishFlows
<1>3. \/ u \in Answer(w, k, 401) \/ u \in Answer(w, k, 415) \/ u \in Answer(w, k, 400)
      \/ u \in ClientPublish(w, k, r)
  BY DEF HandlePost
<1>. QED  BY <1>1, <1>2, <1>3

\* handle_latest and handle_get
LEMMA HandleGetFlows ==
    ASSUME NEW w, Typed(w), Flows(w), NEW k \in Clients, w.conns[k].st = "open", ~w.conns[k].sub, NEW r,
           NEW u \in HandleGet(w, k, r)
    PROVE  Flows(u)
<1>1. CASE \E code \in Nat : u \in Answer(w, k, code)
  BY <1>1, AnswerFlows
<1>2. CASE u \in Subscribe(w, k, r)
  BY <1>2, SubscribeFlows
<1>3. CASE u \in HandleLatest(w, k, r)
  <2>1. \/ u \in Answer(w, k, 400) \/ u \in Answer(w, k, 409)
        \/ u \in Answer(w, k, 404) \/ u \in Answer(w, k, 200)
    BY <1>3 DEF HandleLatest
  <2>. QED  BY <1>1, <2>1
<1>4. \/ u \in Answer(w, k, 400) \/ u \in Answer(w, k, 401) \/ u \in Answer(w, k, 409)
      \/ u \in HandleLatest(w, k, r) \/ u \in Subscribe(w, k, r)
  BY DEF HandleGet
<1>. QED  BY <1>1, <1>2, <1>3, <1>4

\* process_request
LEMMA ProcessRequestFlows ==
    ASSUME NEW w, Typed(w), Flows(w), NEW k \in Clients, w.conns[k].st = "open", ~w.conns[k].sub,
           NEW u \in ProcessRequest(w, k)
    PROVE  Flows(u)
<1>. DEFINE r == w.conns[k].req
<1>1. CASE \E code \in Nat : u \in Answer(w, k, code)
  BY <1>1, AnswerFlows
<1>2. CASE u \in HandleGet(w, k, r)
  BY <1>2, HandleGetFlows
<1>3. CASE u \in HandlePost(w, k, r)
  BY <1>3, HandlePostFlows
<1>4. \/ u \in Answer(w, k, 431) \/ u \in Answer(w, k, 400) \/ u \in Answer(w, k, 411)
      \/ u \in Answer(w, k, 413) \/ u = w \/ u \in HandleGet(w, k, r) \/ u \in HandlePost(w, k, r)
  BY DEF ProcessRequest
<1>. QED  BY <1>1, <1>2, <1>3, <1>4

\* read_cb: a client that has a stream is closed.
LEMMA ReceivedFlows ==
    ASSUME NEW w, Typed(w), Flows(w), NEW k \in Clients, w.conns[k].st = "open", Sound(w.conns[k]),
           NEW n \in Nat, NEW u \in Received(w, k, n)
    PROVE  Flows(u)
<1>. DEFINE b == w.conns[k]
            a == b.arrived + n
            x == b.rx + n
            c == [b EXCEPT !.arrived = a]
            d == [c EXCEPT !.rx = x]
            v == [w EXCEPT !.conns[k] = c]
            z == [w EXCEPT !.conns[k] = d]
            closed == [w EXCEPT !.conns[k] = BeginClose(c)]
<1>1. b \in ConnType /\ Steady(b, w.bus) /\ (b.sub => b.sse)
  BY DEF Typed, Flows, Sound
<1>2. a \in Nat /\ x \in Nat
  <2>1. b.arrived \in Nat /\ b.rx \in Nat
    BY <1>1 DEF ConnType
  <2>. QED  BY <2>1
<1>3. \/ u = closed
      \/ ~c.sse /\ u \in Answer(v, k, 413)
      \/ ~c.sse /\ u \in ProcessRequest(z, k)
  <2>1. z = [w EXCEPT !.conns[k] = [c EXCEPT !.rx = @ + n]]
    BY <1>1 DEF ConnType
  <2>. QED  BY <2>1 DEF Received
<1>. HIDE DEF a, x
<1>4. c \in ConnType /\ d \in ConnType
  BY <1>1, <1>2 DEF ConnType
<1>5. /\ c.wire = b.wire /\ c.inFlight = b.inFlight /\ c.out = b.out /\ c.st = b.st /\ (c.sub <=> b.sub)
      /\ (c.writePending <=> b.writePending) /\ (c.torn <=> b.torn) /\ c.since = b.since /\ c.replay = b.replay
      /\ (c.sse <=> b.sse)
  BY <1>1 DEF ConnType
<1>6. /\ d.wire = b.wire /\ d.inFlight = b.inFlight /\ d.out = b.out /\ d.st = b.st /\ (d.sub <=> b.sub)
      /\ (d.writePending <=> b.writePending) /\ (d.torn <=> b.torn) /\ d.since = b.since /\ d.replay = b.replay
  <2>. HIDE DEF c
  <2>. QED  BY <1>4, <1>5 DEF ConnType
<1>. HIDE DEF c, d
<1>7. Made(c) = Made(b) /\ Made(d) = Made(b)
  BY <1>5, <1>6 DEF Made
<1>8. b.st = "open" /\ ~b.writePending => b.inFlight = <<>>
  BY <1>1 DEF Steady
<1>9. Steady(c, w.bus)
  BY <1>1, <1>5, <1>7, <1>8, SameStream
<1>10. Steady(d, w.bus)
  BY <1>1, <1>6, <1>7, <1>8, SameStream
<1>11. ASSUME NEW e \in ConnType, Steady(e, w.bus)
       PROVE  LET y == [w EXCEPT !.conns[k] = e] IN Typed(y) /\ Flows(y) /\ y.conns[k] = e
  <2>1. [w EXCEPT !.conns[k] = e] = [conns |-> [w.conns EXCEPT ![k] = e], bus |-> w.bus]
    BY DEF Typed
  <2>. DEFINE y == [conns |-> [w.conns EXCEPT ![k] = e], bus |-> w.bus]
  <2>2. Flows(y)
    BY <1>11, FlowsUpdate
  <2>3. Typed(y) /\ y.conns[k] = e
    BY DEF Typed
  <2>. HIDE DEF y
  <2>. QED  BY <2>1, <2>2, <2>3 DEF y
<1>12. CASE u = closed
  <2>1. BeginClose(c) \in ConnType /\ Steady(BeginClose(c), w.bus)
    BY <1>4, BeginCloseFollows, ClosedSteady DEF Follows
  <2>. QED  BY <1>11, <1>12, <2>1
<1>13. CASE ~c.sse /\ u \in Answer(v, k, 413)
  <2>1. Typed(v) /\ Flows(v) /\ v.conns[k] = c
    BY <1>4, <1>9, <1>11
  <2>. HIDE DEF v
  <2>2. ~v.conns[k].sub
    BY <1>1, <1>5, <1>13, <2>1
  <2>. QED  BY <1>13, <2>1, <2>2, AnswerFlows
<1>14. CASE ~c.sse /\ u \in ProcessRequest(z, k)
  <2>1. Typed(z) /\ Flows(z) /\ z.conns[k] = d
    BY <1>4, <1>10, <1>11
  <2>. HIDE DEF z
  <2>2. ~z.conns[k].sub /\ z.conns[k].st = "open"
    BY <1>1, <1>5, <1>6, <1>14, <2>1
  <2>. QED  BY <1>14, <2>1, <2>2, ProcessRequestFlows
<1>. QED  BY <1>3, <1>12, <1>13, <1>14

-----------------------------------------------------------------------------
(* Every action keeps the streams whole.                                   *)

\* Every open connection is steady.
Streams == \A k \in Clients : Steady(conns[k], bus)

\* One connection replaced.
LEMMA OneStream ==
    ASSUME Inv, Streams, NEW k \in Clients, NEW d, Steady(d, bus), conns' = [conns EXCEPT ![k] = d], bus' = bus
    PROVE  Streams'
<1>1. conns \in [Clients -> ConnType]
  BY DEF Inv, TypeOK
<1>. QED  BY <1>1 DEF Streams

\* A callback of one connection.
LEMMA ConnectionStreams ==
    ASSUME Inv, Streams, NEW k \in Clients, Connection(k) \/ Stream(k)
    PROVE  Streams'
<1>. DEFINE c == conns[k]
<1>1. conns \in [Clients -> ConnType] /\ c \in ConnType /\ Sound(c) /\ Steady(c, bus) /\ bus \in BusType
  BY DEF Inv, TypeOK, Streams
<1>2. \A st \in {"none", "closing", "freed"} : Steady(Blank(st), bus)
  BY DEF Blank, Steady
<1>3. CASE \E n \in Reads : ReadCb(k, n)
  <2>. DEFINE w == [conns |-> conns, bus |-> bus]
  <2>1. PICK n \in Reads : ReadCb(k, n)
    BY <1>3
  <2>2. PICK u \in Received(w, k, n) : conns' = u.conns /\ bus' = u.bus
    BY <2>1 DEF ReadCb, Becomes
  <2>3. Typed(w) /\ Flows(w) /\ w.conns[k].st = "open" /\ Sound(w.conns[k]) /\ n \in Nat
    BY <1>1, <2>1, LimitsAssumption DEF ReadCb, Typed, Flows, Streams
  <2>. HIDE DEF w
  <2>4. Flows(u)
    BY <2>2, <2>3, ReceivedFlows
  <2>. QED  BY <2>2, <2>4 DEF Flows, Streams
<1>4. CASE ReadEnds(k)
  <2>1. conns' = [conns EXCEPT ![k] = BeginClose(c)] /\ bus' = bus
    BY <1>4 DEF ReadEnds
  <2>. QED  BY <1>1, <2>1, ClosedSteady, OneStream
<1>5. CASE WriteCb(k)
  <2>. DEFINE more == c.wire \o c.inFlight
              e == [c EXCEPT !.writePending = FALSE, !.inFlight = <<>>, !.wire = more]
  <2>1. c.wire \in Seq(Item) /\ c.inFlight \in Seq(Item) /\ c.out \in Seq(Item)
    BY <1>1, MadeItems
  <2>2. more \in Seq(Item) /\ <<>> \in Seq(Item)
    BY <2>1
  <2>3. PICK d \in AfterWrite(e) : conns' = [conns EXCEPT ![k] = d]
    BY <1>5 DEF WriteCb
  <2>. HIDE DEF more
  <2>4. e \in ConnType
    BY <1>1, <2>2 DEF ConnType
  <2>5. /\ e.wire = more /\ e.inFlight = <<>> /\ e.out = c.out /\ e.st = c.st /\ (e.sub <=> c.sub)
        /\ (e.torn <=> c.torn) /\ e.since = c.since /\ e.replay = c.replay
    BY <1>1 DEF ConnType
  <2>. HIDE DEF e
  <2>6. Made(e) = Made(c)
    <3>. DEFINE p == c.wire
                q == c.inFlight
                o == c.out
    <3>1. /\ p \in Seq(Item) /\ q \in Seq(Item) /\ o \in Seq(Item)
          /\ Made(c) = p \o q \o o /\ Made(e) = (p \o q) \o <<>> \o o
      BY <2>1, <2>5 DEF Made, more
    <3>. HIDE DEF p, q, o
    <3>2. (p \o q) \o <<>> \o o = p \o q \o o
      BY <3>1
    <3>. QED  BY <3>1, <3>2
  <2>7. Steady(e, bus)
    BY <1>1, <2>5, <2>6, SameStream
  <2>8. d = BeginClose(e) \/ d \in KickWrite(e)
    BY <2>3 DEF AfterWrite
  <2>9. Steady(d, bus)
    BY <2>4, <2>7, <2>8, ClosedSteady, KickWriteSteady
  <2>10. bus' = bus
    BY <1>5 DEF WriteCb
  <2>. QED  BY <2>3, <2>9, <2>10, OneStream
<1>6. CASE WriteFails(k)
  <2>. DEFINE e == [c EXCEPT !.writePending = FALSE]
  <2>1. e \in ConnType
    BY <1>1 DEF ConnType
  <2>2. conns' = [conns EXCEPT ![k] = BeginClose(e)] /\ bus' = bus
    BY <1>6 DEF WriteFails
  <2>. HIDE DEF e
  <2>. QED  BY <2>1, <2>2, ClosedSteady, OneStream
<1>7. CASE CloseCb(k)
  <2>1. conns' = [conns EXCEPT ![k] = Blank("freed")] /\ bus' = bus
    BY <1>7 DEF CloseCb
  <2>. QED  BY <1>2, <2>1, OneStream
<1>8. CASE Refuse(k)
  <2>1. conns' = [conns EXCEPT ![k] = Blank("freed")] /\ bus' = bus
    BY <1>8 DEF Refuse
  <2>. QED  BY <1>2, <2>1, OneStream
<1>9. CASE AcceptFails(k)
  <2>1. conns' = [conns EXCEPT ![k] = Blank("closing")] /\ bus' = bus
    BY <1>9 DEF AcceptFails
  <2>. QED  BY <1>2, <2>1, OneStream
<1>10. CASE Accept(k)
  <2>1. PICK r \in Requests[k] : \E d \in {Accepted(r), BeginClose(Accepted(r))} : conns' = [conns EXCEPT ![k] = d]
    BY <1>10 DEF Accept
  <2>2. /\ Accepted(r).inFlight = <<>> /\ ~Accepted(r).sub /\ Accepted(r).wire = <<>> /\ Accepted(r).out = <<>>
        /\ Accepted(r).st = "open"
    BY DEF Accepted, Blank
  <2>3. Made(Accepted(r)) = <<>>
    BY <2>2 DEF Made
  <2>4. Steady(Accepted(r), bus)
    BY <2>2, <2>3 DEF Steady, Answers
  <2>5. Steady(BeginClose(Accepted(r)), bus)
    BY DEF BeginClose, Blank, Steady
  <2>6. bus' = bus
    BY <1>10 DEF Accept
  <2>. QED  BY <2>1, <2>4, <2>5, <2>6, OneStream
<1>. QED  BY <1>3, <1>4, <1>5, <1>6, <1>7, <1>8, <1>9, <1>10 DEF Connection, Stream

\* One callback, or a publish from elsewhere.
LEMMA StepStreams ==
    ASSUME Inv, Streams, [Next]_vars
    PROVE  Streams'
<1>1. conns \in [Clients -> ConnType] /\ bus \in BusType /\ \A j \in Clients : conns[j] \in ConnType
  BY DEF Inv, TypeOK
<1>2. CASE \E k \in Clients : Connection(k) \/ Stream(k)
  BY <1>2, ConnectionStreams
<1>3. CASE conns' = conns /\ bus' = bus
  BY <1>3 DEF Streams
<1>4. CASE OtherPublish
  <2>. DEFINE w == [conns |-> conns, bus |-> bus]
  <2>1. PICK nul \in BOOLEAN : \E p \in RouterPublish(w, nul) : conns' = p.conns /\ bus' = p.bus
    BY <1>4 DEF OtherPublish
  <2>2. PICK p \in RouterPublish(w, nul) : conns' = p.conns /\ bus' = p.bus
    BY <2>1
  <2>3. Typed(w) /\ Flows(w)
    BY <1>1 DEF Typed, Flows, Streams
  <2>. HIDE DEF w
  <2>4. Flows(p)
    BY <2>2, <2>3, PublishFlows
  <2>. QED  BY <2>2, <2>4 DEF Flows, Streams
<1>5. CASE HttpClose
  <2>1. ASSUME NEW j \in Clients PROVE Steady(conns'[j], bus')
    <3>1. conns'[j] = BeginClose(conns[j])
      BY <1>5 DEF HttpClose
    <3>. QED  BY <1>1, <3>1, ClosedSteady
  <2>. QED  BY <2>1 DEF Streams
<1>6. NatsAccept \/ NatsClose \/ OnSignal \/ UNCHANGED vars => conns' = conns /\ bus' = bus
  BY DEF NatsAccept, NatsClose, OnSignal, vars
<1>. QED  BY <1>2, <1>3, <1>4, <1>5, <1>6 DEF Next

\* An event stream is whole, with any clients, requests and limits, and however reads, writes,
\* publishes, failures and closes are interleaved: the head first, then the replay, then every
\* message published since the subscription in order, without a gap or a repetition, but for
\* payloads with a NUL and publishes that failed.
THEOREM StreamsAreWhole == Spec => []StreamComplete
<1>1. Init => Streams
  BY DEF Init, Streams, Steady, Blank
<1>2. Inv /\ Streams /\ [Next]_vars => Streams'
  BY StepStreams
<1>3. Streams => StreamComplete
  BY DEF Streams, Steady, StreamComplete
<1>. QED  BY <1>1, <1>2, <1>3, Invariance, PTL DEF Spec
=============================================================================
