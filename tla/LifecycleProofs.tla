-------------------------- MODULE LifecycleProofs --------------------------
(***************************************************************************)
(* Machine-checked proofs about module Lifecycle, for every number of      *)
(* import sources of either kind and every set of clients.                 *)
(*                                                                         *)
(* What may be open or connected follows from where main is: CoreRange and *)
(* StreamRange are the sources that have started and not been closed, in   *)
(* the order in which the loops of main go through them.  Inv says that    *)
(* handles and connections stay within them (Within), that the arrays live *)
(* as long as the ranges (Allocated), and that g_nats_users counts the     *)
(* connections (Counted).                                                  *)
(***************************************************************************)
EXTENDS Lifecycle, FiniteSetTheorems, TLAPS

Places == {"init", "bridge", "streams", "catch_up", "listen", "cores", "http", "run",
           "close_cores", "drain_core", "close_streams", "drain_stream", "close_server",
           "drain_server", "close_bridge", "exited", "aborted"}
CorePlaces   == {"cores", "http", "run", "close_cores", "drain_core"}
StreamPlaces == {"streams", "catch_up", "listen", "close_streams", "drain_stream"} \cup CorePlaces
Bridge == <<"bridge">>

\* The sources that may have a handle or a connection.
CoreRange ==
    {k \in 1 .. cfg.cores : /\ pc \in CorePlaces
                            /\ pc = "cores" => k < next
                            /\ pc \in {"close_cores", "drain_core"} => next <= k}
StreamRange ==
    {k \in 1 .. cfg.streams : /\ pc \in StreamPlaces
                              /\ pc = "streams" => k < next
                              /\ pc \in {"close_streams", "drain_stream"} => next <= k}

TypeInv ==
    /\ cfg \in Configs /\ pc \in Places /\ next \in Nat \ {0}
    /\ pc \notin {"streams", "catch_up", "cores", "close_cores", "drain_core", "close_streams",
                  "drain_stream"} => next = 1
    /\ pc = "drain_core" => next <= cfg.cores
    /\ pc = "drain_stream" => next <= cfg.streams
    /\ dying \subseteq open /\ (pc \in {"init", "aborted"} => dying = {})

\* Handles and connections of sources are those of the ranges; the connection of the source
\* that is being closed is gone.
Within ==
    /\ \A h \in open : /\ h[1] = "core" => \E k \in CoreRange : h = Core(k)
                       /\ h[1] = "stream" => \E k \in StreamRange : h = Stream(k)
    /\ \A c \in linked : \/ c = Bridge
                         \/ \E k \in CoreRange : c = Core(k)
                         \/ \E k \in StreamRange : c = Stream(k)
    /\ pc = "drain_core" => Core(next) \notin linked
    /\ pc = "drain_stream" => Stream(next) \notin linked
    /\ pc \in {"init", "close_bridge", "exited"} => open = {}
    /\ pc = "aborted" => open \subseteq ServerHandles

\* The arrays exist while a handle lies in them, and not after the loop that frees them.
Allocated ==
    /\ arrays \subseteq {"cores", "streams"}
    /\ "cores" \in arrays => pc \in CorePlaces
    /\ "streams" \in arrays => pc \in StreamPlaces
    /\ \A h \in open : /\ h[1] = "core" => "cores" \in arrays
                       /\ h[1] = "stream" => "streams" \in arrays

\* The users of the library are the connections, and it is open while there is one.
Counted ==
    /\ IsFiniteSet(linked) /\ users = Cardinality(linked)
    /\ linked # {} => library = "open"
    /\ pc \in {"init", "bridge", "aborted"} => linked = {} /\ ~wired
    /\ wired /\ pc # "exited" => Bridge \in linked
    /\ pc = "exited" => linked = {}

Inv == TypeInv /\ Within /\ Allocated /\ Counted

-----------------------------------------------------------------------------
(* The users of the NATS library.                                          *)

\* A connection that is made is counted, and the library is open.
LEMMA LinkCounts ==
    ASSUME IsFiniteSet(linked), users = Cardinality(linked), NEW c, c \notin linked, Link(c)
    PROVE  IsFiniteSet(linked') /\ users' = Cardinality(linked') /\ library' = "open"
  BY FS_AddElement, FS_CardinalityType DEF Link

\* A source that is not connected keeps the count, and does not close the library for others.
LEMMA LinkFailsCounts ==
    ASSUME IsFiniteSet(linked), users = Cardinality(linked), linked # {} => library = "open", LinkFails
    PROVE  /\ IsFiniteSet(linked') /\ users' = Cardinality(linked')
           /\ linked' # {} => library' = "open"
  BY FS_EmptySet DEF LinkFails

\* The last connection that goes, and no other, closes the library.
LEMMA UnlinkCounts ==
    ASSUME IsFiniteSet(linked), users = Cardinality(linked), linked # {} => library = "open", NEW c, Unlink(c)
    PROVE  /\ IsFiniteSet(linked') /\ users' = Cardinality(linked')
           /\ linked' # {} => library' = "open"
<1>1. IsFiniteSet(linked') /\ users' = Cardinality(linked')
  BY FS_RemoveElement DEF Unlink
<1>2. CASE c \in linked /\ users = 1
  <2>1. linked' = linked \ {c} /\ users' = users - 1
    BY <1>2 DEF Unlink
  <2>2. Cardinality(linked') = 0
    BY <1>1, <1>2, <2>1
  <2>. QED
    BY <1>1, <2>2, FS_EmptySet
<1>3. CASE ~(c \in linked /\ users = 1)
  BY <1>1, <1>3 DEF Unlink
<1>. QED
  BY <1>2, <1>3

\* What mb_server_init has opened, also when it fails, are handles of the server.
LEMMA OpenedIsServers ==
    ASSUME NEW n \in 0 .. Len(InitOrder)
    PROVE  /\ Opened(n) \subseteq ServerHandles
           /\ \A h \in ServerHandles : h[1] \notin {"core", "stream"}
<1>1. Len(InitOrder) = 6
  BY DEF InitOrder
<1>2. \A i \in 1 .. 6 : InitOrder[i] \notin {"core", "stream"}
  BY DEF InitOrder
<1>. QED
  BY <1>1, <1>2 DEF Opened, ServerHandles

\* Whether or not mb_server_init succeeds, no handle of an import source is open after it.
LEMMA InitServerOpens ==
    ASSUME InitServer
    PROVE  /\ open' \subseteq ServerHandles'
           /\ \A h \in open' : h[1] \notin {"core", "stream"}
<1>1. PICK n \in 0 .. Len(InitOrder) : open' = Opened(n)
  BY DEF InitServer, ServerHandles, InitOrder
<1>2. ServerHandles' = ServerHandles
  BY DEF InitServer, ServerHandles, Opened, InitOrder
<1>. QED
  BY <1>1, <1>2, OpenedIsServers

-----------------------------------------------------------------------------
(* Every action preserves Inv, one part after the other.                   *)

\* Where main is, and the source its loop is at.
LEMMA TypeStep ==
    ASSUME TypeInv, Within, [Next]_vars
    PROVE  TypeInv'
<1>. USE BoundsAssumption DEF Places, Configs
<1>1. CASE InitServer
  BY <1>1 DEF InitServer, TypeInv, Within
<1>2. CASE StartBridge
  BY <1>2 DEF StartBridge, Link, LinkFails, TypeInv
<1>3. CASE StartStreams
  BY <1>3 DEF StartStreams, Link, LinkFails, TypeInv
<1>4. CASE CatchUp
  BY <1>4 DEF CatchUp, TypeInv
<1>5. CASE Listen
  BY <1>5 DEF Listen, TypeInv
<1>6. CASE StartCores
  BY <1>6 DEF StartCores, Link, LinkFails, TypeInv
<1>7. CASE ListenHttp
  BY <1>7 DEF ListenHttp, TypeInv
<1>8. CASE CloseCores
  BY <1>8 DEF CloseCores, CloseSource, Unlink, TypeInv
<1>9. CASE CloseStreams
  BY <1>9 DEF CloseStreams, CloseSource, Unlink, TypeInv
<1>10. CASE Drained
  BY <1>10 DEF Drained, TypeInv
<1>11. CASE CloseServer
  BY <1>11 DEF CloseServer, TypeInv
<1>12. CASE ServerClosed
  BY <1>12 DEF ServerClosed, TypeInv
<1>13. CASE CloseBridge
  BY <1>13 DEF CloseBridge, Unlink, TypeInv
<1>14. CASE Raise
  BY <1>14 DEF Raise, TypeInv
<1>15. CASE OnSignal
  BY <1>15 DEF OnSignal, LoopRuns, TypeInv
<1>16. ASSUME NEW c \in Clients, Accept(c) PROVE TypeInv'
  BY <1>16, ClientsAssumption DEF Accept, LoopRuns, TypeInv
<1>17. ASSUME NEW c \in Clients, Disconnect(c) PROVE TypeInv'
  BY <1>17 DEF Disconnect, LoopRuns, TypeInv
<1>18. ASSUME NEW h \in dying, Closed(h) PROVE TypeInv'
  BY <1>18 DEF Closed, LoopRuns, TypeInv
<1>19. CASE UNCHANGED vars
  BY <1>19 DEF vars, TypeInv
<1>. QED
  BY <1>1, <1>2, <1>3, <1>4, <1>5, <1>6, <1>7, <1>8, <1>9, <1>10, <1>11, <1>12, <1>13, <1>14, <1>15, <1>16, <1>17, <1>18, <1>19
  DEF Next, Main

\* Handles and connections follow the ranges.
LEMMA WithinStep ==
    ASSUME TypeInv, Within, [Next]_vars
    PROVE  Within'
<1>. USE BoundsAssumption DEF Places, Configs, CorePlaces, StreamPlaces, CoreRange, StreamRange, Core, Stream, Bridge
<1>1. CASE InitServer
  <2>1. UNCHANGED <<cfg, next, linked>> /\ pc = "init" /\ pc' \in {"bridge", "aborted"}
    BY <1>1 DEF InitServer
  <2>. QED
    BY <1>1, <2>1, InitServerOpens DEF TypeInv, Within
<1>2. CASE StartBridge
  BY <1>2 DEF StartBridge, Link, LinkFails, TypeInv, Within
<1>3. CASE StartStreams
  BY <1>3 DEF StartStreams, Link, LinkFails, TypeInv, Within
<1>4. CASE CatchUp
  BY <1>4 DEF CatchUp, TypeInv, Within
<1>5. CASE Listen
  BY <1>5 DEF Listen, TypeInv, Within
<1>6. CASE StartCores
  BY <1>6 DEF StartCores, Link, LinkFails, TypeInv, Within
<1>7. CASE ListenHttp
  BY <1>7 DEF ListenHttp, TypeInv, Within
<1>8. CASE CloseCores
  BY <1>8 DEF CloseCores, CloseSource, Unlink, TypeInv, Within
<1>9. CASE CloseStreams
  BY <1>9 DEF CloseStreams, CloseSource, Unlink, TypeInv, Within
<1>10. CASE Drained
  BY <1>10 DEF Drained, TypeInv, Within
<1>11. CASE CloseServer
  BY <1>11 DEF CloseServer, TypeInv, Within
<1>12. CASE ServerClosed
  BY <1>12 DEF ServerClosed, TypeInv, Within
<1>13. CASE CloseBridge
  BY <1>13 DEF CloseBridge, Unlink, TypeInv, Within
<1>14. CASE Raise
  BY <1>14 DEF Raise, TypeInv, Within
<1>15. CASE OnSignal
  BY <1>15 DEF OnSignal, LoopRuns, TypeInv, Within
<1>16. ASSUME NEW c \in Clients, Accept(c) PROVE Within'
  BY <1>16, ClientsAssumption DEF Accept, LoopRuns, TypeInv, Within
<1>17. ASSUME NEW c \in Clients, Disconnect(c) PROVE Within'
  BY <1>17 DEF Disconnect, LoopRuns, TypeInv, Within
<1>18. ASSUME NEW h \in dying, Closed(h) PROVE Within'
  BY <1>18 DEF Closed, LoopRuns, TypeInv, Within
<1>19. CASE UNCHANGED vars
  BY <1>19 DEF vars, TypeInv, Within, ServerHandles, Opened
<1>. QED
  BY <1>1, <1>2, <1>3, <1>4, <1>5, <1>6, <1>7, <1>8, <1>9, <1>10, <1>11, <1>12, <1>13, <1>14, <1>15, <1>16, <1>17, <1>18, <1>19
  DEF Next, Main

\* The arrays outlive the handles in them.
LEMMA AllocatedStep ==
    ASSUME TypeInv, Within, Allocated, [Next]_vars
    PROVE  Allocated'
<1>. USE BoundsAssumption DEF Places, Configs, CorePlaces, StreamPlaces, CoreRange, StreamRange, Core, Stream
<1>1. CASE InitServer
  <2>1. arrays = {} /\ arrays' = {}
    BY <1>1 DEF InitServer, Allocated
  <2>2. \A h \in open' : h[1] # "core" /\ h[1] # "stream"
    BY <1>1, InitServerOpens
  <2>. QED
    BY <2>1, <2>2 DEF Allocated
<1>2. CASE StartBridge
  BY <1>2 DEF StartBridge, Link, LinkFails, TypeInv, Within, Allocated
<1>3. CASE StartStreams
  <2>1. /\ arrays \subseteq arrays' /\ arrays' \subseteq {"cores", "streams"}
        /\ "cores" \in arrays' => pc' \in CorePlaces
        /\ "streams" \in arrays' => pc' \in StreamPlaces
    BY <1>3 DEF StartStreams, Allocated
  <2>2. ASSUME NEW h \in open'
        PROVE  (h[1] = "core" => "cores" \in arrays') /\ (h[1] = "stream" => "streams" \in arrays')
    <3>1. CASE h \in open
      BY <2>1, <3>1 DEF Allocated
    <3>2. CASE h \notin open
      BY <1>3, <3>2 DEF StartStreams
    <3>. QED
      BY <3>1, <3>2
  <2>. QED
    BY <2>1, <2>2 DEF Allocated
<1>4. CASE CatchUp
  BY <1>4 DEF CatchUp, TypeInv, Within, Allocated
<1>5. CASE Listen
  BY <1>5 DEF Listen, TypeInv, Within, Allocated
<1>6. CASE StartCores
  <2>1. /\ arrays \subseteq arrays' /\ arrays' \subseteq {"cores", "streams"}
        /\ "cores" \in arrays' => pc' \in CorePlaces
        /\ "streams" \in arrays' => pc' \in StreamPlaces
    BY <1>6 DEF StartCores, TypeInv, Allocated
  <2>2. ASSUME NEW h \in open'
        PROVE  (h[1] = "core" => "cores" \in arrays') /\ (h[1] = "stream" => "streams" \in arrays')
    <3>1. CASE h \in open
      BY <2>1, <3>1 DEF Allocated
    <3>2. CASE h \notin open
      BY <1>6, <3>2 DEF StartCores
    <3>. QED
      BY <3>1, <3>2
  <2>. QED
    BY <2>1, <2>2 DEF Allocated
<1>7. CASE ListenHttp
  BY <1>7 DEF ListenHttp, TypeInv, Within, Allocated
<1>8. CASE CloseCores
  <2>1. /\ arrays' \subseteq {"cores", "streams"}
        /\ "cores" \in arrays' => pc' \in CorePlaces
        /\ "streams" \in arrays' => pc' \in StreamPlaces
    BY <1>8 DEF CloseCores, CloseSource, TypeInv, Allocated
  <2>2. ASSUME NEW h \in open
        PROVE  (h[1] = "core" => "cores" \in arrays') /\ (h[1] = "stream" => "streams" \in arrays')
    BY <1>8 DEF CloseCores, CloseSource, TypeInv, Within, Allocated
  <2>3. UNCHANGED open
    BY <1>8 DEF CloseCores
  <2>. QED
    BY <2>1, <2>2, <2>3 DEF Allocated
<1>9. CASE CloseStreams
  <2>1. /\ arrays' \subseteq {"cores", "streams"}
        /\ "cores" \in arrays' => pc' \in CorePlaces
        /\ "streams" \in arrays' => pc' \in StreamPlaces
    BY <1>9 DEF CloseStreams, CloseSource, TypeInv, Allocated
  <2>2. ASSUME NEW h \in open
        PROVE  (h[1] = "core" => "cores" \in arrays') /\ (h[1] = "stream" => "streams" \in arrays')
    BY <1>9 DEF CloseStreams, CloseSource, TypeInv, Within, Allocated
  <2>3. UNCHANGED open
    BY <1>9 DEF CloseStreams
  <2>. QED
    BY <2>1, <2>2, <2>3 DEF Allocated
<1>10. CASE Drained
  BY <1>10 DEF Drained, TypeInv, Within, Allocated
<1>11. CASE CloseServer
  BY <1>11 DEF CloseServer, TypeInv, Within, Allocated
<1>12. CASE ServerClosed
  BY <1>12 DEF ServerClosed, TypeInv, Within, Allocated
<1>13. CASE CloseBridge
  BY <1>13 DEF CloseBridge, Unlink, TypeInv, Within, Allocated
<1>14. CASE Raise
  BY <1>14 DEF Raise, TypeInv, Within, Allocated
<1>15. CASE OnSignal
  BY <1>15 DEF OnSignal, LoopRuns, TypeInv, Within, Allocated
<1>16. ASSUME NEW c \in Clients, Accept(c) PROVE Allocated'
  BY <1>16, ClientsAssumption DEF Accept, LoopRuns, TypeInv, Within, Allocated
<1>17. ASSUME NEW c \in Clients, Disconnect(c) PROVE Allocated'
  BY <1>17 DEF Disconnect, LoopRuns, TypeInv, Within, Allocated
<1>18. ASSUME NEW h \in dying, Closed(h) PROVE Allocated'
  BY <1>18 DEF Closed, LoopRuns, TypeInv, Within, Allocated
<1>19. CASE UNCHANGED vars
  BY <1>19 DEF vars, TypeInv, Within, Allocated
<1>. QED
  BY <1>1, <1>2, <1>3, <1>4, <1>5, <1>6, <1>7, <1>8, <1>9, <1>10, <1>11, <1>12, <1>13, <1>14, <1>15, <1>16, <1>17, <1>18, <1>19
  DEF Next, Main

\* The library's users are counted.
LEMMA CountedStep ==
    ASSUME TypeInv, Within, Counted, [Next]_vars
    PROVE  Counted'
<1>1. CASE InitServer
  BY <1>1 DEF InitServer, Counted
<1>2. CASE StartBridge
  <2>1. linked = {} /\ pc = "bridge"
    BY <1>2 DEF StartBridge, Counted
  <2>2. CASE Link(Bridge) /\ pc' = "streams"
    <3>1. IsFiniteSet(linked') /\ users' = Cardinality(linked') /\ library' = "open"
      BY <2>1, <2>2, LinkCounts DEF Counted
    <3>. QED
      BY <2>2, <3>1 DEF Link, Counted
  <2>3. CASE LinkFails /\ pc' = "close_server" /\ UNCHANGED wired
    BY <2>1, <2>3, LinkFailsCounts DEF LinkFails, Counted
  <2>4. CASE UNCHANGED <<linked, users, library, wired>> /\ pc' = "streams"
    BY <2>1, <2>4 DEF Counted
  <2>. QED
    BY <1>2, <2>2, <2>3, <2>4 DEF StartBridge, Bridge
<1>3. CASE StartStreams
  <2>1. /\ IsFiniteSet(linked') /\ users' = Cardinality(linked')
        /\ linked' # {} => library' = "open"
    <3>1. Stream(next) \notin linked
      BY <1>3 DEF StartStreams, TypeInv, Within, CoreRange, StreamRange, CorePlaces,
         Core, Stream, Bridge
    <3>2. \/ UNCHANGED <<linked, users, library>> \/ LinkFails \/ Link(Stream(next))
      BY <1>3 DEF StartStreams, Core, Stream
    <3>3. CASE LinkFails
      BY <3>3, LinkFailsCounts DEF Counted
    <3>4. CASE Link(Stream(next))
      BY <3>1, <3>4, LinkCounts DEF Counted
    <3>. QED
      BY <3>2, <3>3, <3>4 DEF Counted
  <2>2. linked \subseteq linked'
    BY <1>3 DEF StartStreams, Link, LinkFails
  <2>3. UNCHANGED wired /\ pc = "streams" /\ pc' \notin {"init", "bridge", "exited", "aborted"}
    BY <1>3 DEF StartStreams
  <2>. QED
    BY <2>1, <2>2, <2>3 DEF Counted
<1>4. CASE CatchUp
  BY <1>4 DEF CatchUp, Counted
<1>5. CASE Listen
  BY <1>5 DEF Listen, Counted
<1>6. CASE StartCores
  <2>1. /\ IsFiniteSet(linked') /\ users' = Cardinality(linked')
        /\ linked' # {} => library' = "open"
    <3>1. Core(next) \notin linked
      BY <1>6 DEF StartCores, TypeInv, Within, CoreRange, StreamRange, CorePlaces,
         Core, Stream, Bridge
    <3>2. \/ UNCHANGED <<linked, users, library>> \/ LinkFails \/ Link(Core(next))
      BY <1>6 DEF StartCores, Core, Stream
    <3>3. CASE LinkFails
      BY <3>3, LinkFailsCounts DEF Counted
    <3>4. CASE Link(Core(next))
      BY <3>1, <3>4, LinkCounts DEF Counted
    <3>. QED
      BY <3>2, <3>3, <3>4 DEF Counted
  <2>2. linked \subseteq linked'
    BY <1>6 DEF StartCores, Link, LinkFails
  <2>3. UNCHANGED wired /\ pc = "cores" /\ pc' \notin {"init", "bridge", "exited", "aborted"}
    BY <1>6 DEF StartCores
  <2>. QED
    BY <2>1, <2>2, <2>3 DEF Counted
<1>7. CASE ListenHttp
  BY <1>7 DEF ListenHttp, Counted
<1>8. CASE CloseCores
  <2>1. /\ IsFiniteSet(linked') /\ users' = Cardinality(linked')
        /\ linked' # {} => library' = "open"
    <3>1. UNCHANGED <<linked, users, library>> \/ Unlink(Core(next))
      BY <1>8 DEF CloseCores, CloseSource
    <3>2. CASE Unlink(Core(next))
      BY <3>2, UnlinkCounts DEF Counted
    <3>. QED
      BY <3>1, <3>2 DEF Counted
  <2>2. Bridge \in linked => Bridge \in linked'
    BY <1>8 DEF CloseCores, CloseSource, Unlink, Core, Stream, Bridge
  <2>3. UNCHANGED wired /\ pc = "close_cores" /\ pc' \notin {"init", "bridge", "exited", "aborted"}
    BY <1>8 DEF CloseCores, CloseSource
  <2>. QED
    BY <2>1, <2>2, <2>3 DEF Counted
<1>9. CASE CloseStreams
  <2>1. /\ IsFiniteSet(linked') /\ users' = Cardinality(linked')
        /\ linked' # {} => library' = "open"
    <3>1. UNCHANGED <<linked, users, library>> \/ Unlink(Stream(next))
      BY <1>9 DEF CloseStreams, CloseSource
    <3>2. CASE Unlink(Stream(next))
      BY <3>2, UnlinkCounts DEF Counted
    <3>. QED
      BY <3>1, <3>2 DEF Counted
  <2>2. Bridge \in linked => Bridge \in linked'
    BY <1>9 DEF CloseStreams, CloseSource, Unlink, Core, Stream, Bridge
  <2>3. UNCHANGED wired /\ pc = "close_streams" /\ pc' \notin {"init", "bridge", "exited", "aborted"}
    BY <1>9 DEF CloseStreams, CloseSource
  <2>. QED
    BY <2>1, <2>2, <2>3 DEF Counted
<1>10. CASE Drained
  BY <1>10 DEF Drained, Counted
<1>11. CASE CloseServer
  BY <1>11 DEF CloseServer, Counted
<1>12. CASE ServerClosed
  BY <1>12 DEF ServerClosed, Counted
<1>13. CASE CloseBridge
  <2>1. linked \subseteq {Bridge}
    BY <1>13 DEF CloseBridge, Within, CoreRange, StreamRange, CorePlaces, StreamPlaces
  <2>2. linked' = {} /\ pc' = "exited" /\ Unlink(Bridge)
    BY <1>13, <2>1 DEF CloseBridge, Unlink, Bridge
  <2>3. IsFiniteSet(linked') /\ users' = Cardinality(linked')
    BY <2>2, UnlinkCounts DEF Counted
  <2>. QED
    BY <2>2, <2>3 DEF Counted
<1>14. CASE Raise
  BY <1>14 DEF Raise, Counted
<1>15. CASE OnSignal
  BY <1>15 DEF OnSignal, LoopRuns, Counted
<1>16. ASSUME NEW c \in Clients, Accept(c) PROVE Counted'
  BY <1>16, ClientsAssumption DEF Accept, LoopRuns, Counted
<1>17. ASSUME NEW c \in Clients, Disconnect(c) PROVE Counted'
  BY <1>17 DEF Disconnect, LoopRuns, Counted
<1>18. ASSUME NEW h \in dying, Closed(h) PROVE Counted'
  BY <1>18 DEF Closed, LoopRuns, Counted
<1>19. CASE UNCHANGED vars
  BY <1>19 DEF vars, Counted
<1>. QED
  BY <1>1, <1>2, <1>3, <1>4, <1>5, <1>6, <1>7, <1>8, <1>9, <1>10, <1>11, <1>12, <1>13, <1>14, <1>15, <1>16, <1>17, <1>18, <1>19
  DEF Next, Main

-----------------------------------------------------------------------------
(* The invariant, and the properties of the runs.                          *)

\* Nothing is open or connected when main begins.
LEMMA InitInv == Init => Inv
<1>. SUFFICES ASSUME Init PROVE Inv
  OBVIOUS
<1>1. TypeInv /\ Within /\ Allocated
  BY BoundsAssumption DEF Init, TypeInv, Within, Allocated, Places
<1>2. Counted
  BY FS_EmptySet DEF Init, Counted
<1>. QED
  BY <1>1, <1>2 DEF Inv

\* One step of main, the loop or the environment, from a state in which Inv holds, leads to
\* another.
LEMMA StepInv == Inv /\ [Next]_vars => Inv'
  BY TypeStep, WithinStep, AllocatedStep, CountedStep DEF Inv

\* Inv holds in every reachable state.
THEOREM Invariance == Spec => []Inv
  BY InitInv, StepInv, PTL DEF Spec

\* Whatever the loop may call finds what it uses: the array its handle lies in, the NATS
\* library, and the bridge that the router forwards to (main.c, nats_common.c).
THEOREM CallbacksFindTheirs == Spec => []CallbacksSafe
<1>1. Inv => CallbacksSafe
  BY DEF Inv, Allocated, Counted, CallbacksSafe, LoopRuns, Bridge
<1>. QED
  BY <1>1, Invariance, PTL

\* A process that closes has closed every handle, freed the arrays, and left no connection and
\* no user of the library, whichever step after mb_server_init failed; one whose mb_server_init
\* failed leaves at most the handles of that call (main.c, server.c).
THEOREM ExitReleasesAll == Spec => []AllReleased
<1>1. Inv => AllReleased
  <2>. SUFFICES ASSUME Inv, pc \in {"exited", "aborted"}
                PROVE  /\ pc = "exited" => open = {}
                       /\ pc = "aborted" => open \subseteq ServerHandles
                       /\ dying = {} /\ arrays = {} /\ linked = {} /\ users = 0
    BY DEF AllReleased
  <2>1. /\ pc = "exited" => open = {}
        /\ pc = "aborted" => open \subseteq ServerHandles
        /\ dying = {}
    BY DEF Inv, TypeInv, Within
  <2>2. arrays = {}
    BY DEF Inv, Allocated, CorePlaces, StreamPlaces
  <2>3. linked = {} /\ users = 0
    BY FS_EmptySet DEF Inv, Counted
  <2>. QED
    BY <2>1, <2>2, <2>3
<1>. QED
  BY <1>1, Invariance, PTL
=============================================================================
