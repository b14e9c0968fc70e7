----------------------------- MODULE Lifecycle -----------------------------
(***************************************************************************)
(* The life of the process: main (src/main.c) starts the server, the       *)
(* bridge, the JetStream streams, the core importers and the HTTP listener *)
(* in this order, any of which may fail, runs the loop, and closes what it *)
(* started.  Modelled are the libuv handles, the NATS connections and the  *)
(* library's users (src/nats_common.c), and the memory callbacks reach;    *)
(* what the components do while they run is in their own modules.          *)
(*                                                                         *)
(* The loop runs in main's uv_run, inside the close of an importer or a    *)
(* stream (until its handle is closed), and inside mb_server_close (until  *)
(* no handle is left).  Whatever is ready, not only the close callback,    *)
(* is called then.                                                         *)
(***************************************************************************)
EXTENDS Integers, Sequences, FiniteSets

CONSTANTS MaxStreams, MaxCores,   \* bounds: import sources configured
          Clients                 \* connections that may be made

ASSUME BoundsAssumption == MaxStreams \in Nat /\ MaxCores \in Nat
\* A connection is not the handle of an import source.
ASSUME ClientsAssumption == \A c \in Clients : c[1] \notin {"core", "stream"}

VARIABLES
    cfg,        \* the program's configuration and the options
    pc,         \* where main is
    next,       \* the source a loop of main is at
    open,       \* handles initialised on the loop and not closed
    dying,      \* of these, the ones uv_close was called on
    arrays,     \* import_group.items and mb_js_importer.streams, if allocated
    linked,     \* connections to NATS
    users,      \* g_nats_users
    library,    \* "unused", "open", "closed" by nats_Close
    listening,  \* the listener accepts
    wired,      \* router.bridge_fn is set
    closing,    \* server->closing
    signal      \* "none", "raised", "seen" by on_signal

vars == <<cfg, pc, next, open, dying, arrays, linked, users, library, listening,
          wired, closing, signal>>

Core(k) == <<"core", k>>
Stream(k) == <<"stream", k>>
Sources(kind, n) == {<<kind, k>> : k \in 1 .. n}

Configs == [bridge : BOOLEAN, streams : 0 .. MaxStreams, cores : 0 .. MaxCores, http : BOOLEAN,
            clocks : BOOLEAN, flush : BOOLEAN]

\* The handles of mb_server_init, in the order in which it opens them.
InitOrder == <<"listener", "sigint", "sigterm", "patchbay", "stats", "snapshot">>

\* The first n of them; two depend on the configuration.
Opened(n) == {<<InitOrder[i]>> : i \in {j \in 1 .. n : /\ InitOrder[j] = "patchbay" => cfg.clocks
                                                       /\ InitOrder[j] = "snapshot" => cfg.flush}}
ServerHandles == Opened(Len(InitOrder))

\* Positions at which main is inside uv_run.
LoopRuns == pc \in {"run", "drain_core", "drain_stream", "drain_server"}

\* A connection is made, mb_nats_retain and natsConnection_Connect.
Link(c) ==
    /\ linked' = linked \cup {c}
    /\ users' = users + 1
    /\ library' = "open"

\* natsConnection_Destroy and mb_nats_release of a started source; nothing otherwise.
Unlink(c) ==
    /\ linked' = linked \ {c}
    /\ users' = IF c \in linked THEN users - 1 ELSE users
    /\ library' = IF c \in linked /\ users = 1 THEN "closed" ELSE library

\* Mutant: a failed connection keeps the library retained.
LinkFails_Retained ==
    /\ library' = "open"
    /\ users' \in {users, users + 1}
    /\ UNCHANGED linked

\* A source that fails before it is connected: without the library, after natsOptions_Create
\* opened it, or after it was retained and released for a failed connection.
LinkFails ==
    /\ library' \in {library, "open", IF users = 0 THEN "closed" ELSE library}
    /\ UNCHANGED <<linked, users>>

-----------------------------------------------------------------------------
(* Start.                                                                  *)

\* mb_server_init.  It may fail before, between and after the handles it opens (an address that
\* cannot be bound): it closes none of them, and main returns without mb_server_close.
InitServer ==
    /\ pc = "init"
    /\ \/ /\ open' = ServerHandles
          /\ listening' = (cfg.streams = 0)
          /\ pc' = "bridge"
       \/ /\ \E n \in 0 .. Len(InitOrder) : open' = Opened(n)
          /\ pc' = "aborted"
          /\ UNCHANGED listening
    /\ UNCHANGED <<cfg, next, dying, arrays, linked, users, library, wired, closing, signal>>

\* mb_bridge_start, and what main sets when it succeeds.
StartBridge ==
    /\ pc = "bridge"
    /\ \/ ~cfg.bridge /\ pc' = "streams" /\ UNCHANGED <<linked, users, library, wired>>
       \/ cfg.bridge /\ pc' = "streams" /\ Link(<<"bridge">>) /\ wired' = TRUE
       \/ cfg.bridge /\ pc' = "close_server" /\ LinkFails /\ UNCHANGED wired
    /\ UNCHANGED <<cfg, next, open, dying, arrays, listening, closing, signal>>

\* mb_js_importer_start: the array, then js_stream_init for every stream.  A stream that
\* fails has its handle or not; mb_js_importer_close closes it with the others.
StartStreams ==
    /\ pc = "streams"
    /\ IF next > cfg.streams
       THEN /\ pc' = "catch_up" /\ next' = 1
            /\ UNCHANGED <<open, arrays, linked, users, library>>
       ELSE /\ arrays' = arrays \cup {"streams"}
            /\ \/ Link(Stream(next)) /\ open' = open \cup {Stream(next)} /\ next' = next + 1 /\ UNCHANGED pc
               \/ /\ LinkFails
                  /\ open' \in {open, open \cup {Stream(next)}}
                  /\ pc' = "close_streams" /\ next' = 1
    /\ UNCHANGED <<cfg, dying, listening, wired, closing, signal>>

\* js_stream_catch_up, one stream after the other; it ends, or fails, or goes on for as long as
\* messages are pending or the consumer cannot be queried: its loop has no bound, and nothing
\* it looks at changes with a signal, whose handler needs the loop.
CatchUp ==
    /\ pc = "catch_up"
    /\ \/ /\ next <= cfg.streams
          /\ next' = next + 1
          /\ UNCHANGED pc
       \/ /\ next <= cfg.streams
          /\ pc' = "close_streams" /\ next' = 1
       \/ /\ next > cfg.streams
          /\ pc' = "listen" /\ next' = 1
    /\ UNCHANGED <<cfg, open, dying, arrays, linked, users, library, listening, wired, closing, signal>>

\* mb_server_listen and mb_js_importer_start_live
Listen ==
    /\ pc = "listen"
    /\ \/ pc' = "cores" /\ listening' = TRUE
       \/ cfg.streams > 0 /\ pc' = "close_streams" /\ listening' \in BOOLEAN
    /\ UNCHANGED <<cfg, next, open, dying, arrays, linked, users, library, wired, closing, signal>>

\* import_group_start with mb_importer_start, which closes what it has started when it fails:
\* import_group_close does the same to it and to those before it.
StartCores ==
    /\ pc = "cores"
    /\ IF next > cfg.cores
       THEN pc' = "http" /\ next' = 1 /\ UNCHANGED <<open, arrays, linked, users, library>>
       ELSE /\ arrays' = arrays \cup {"cores"}
            /\ \/ Link(Core(next)) /\ open' = open \cup {Core(next)} /\ next' = next + 1 /\ UNCHANGED pc
               \/ /\ LinkFails \/ Link(Core(next))
                  /\ open' \in {open, open \cup {Core(next)}}
                  /\ Core(next) \in linked' => Core(next) \in open'
                  /\ pc' = "close_cores" /\ next' = 1
    /\ UNCHANGED <<cfg, dying, listening, wired, closing, signal>>

\* mb_http_listen
ListenHttp ==
    /\ pc = "http"
    /\ \/ ~cfg.http /\ pc' = "run" /\ UNCHANGED open
       \/ cfg.http /\ pc' = "run" /\ open' = open \cup {<<"http">>}
       \/ cfg.http /\ pc' = "close_cores" /\ open' \in {open, open \cup {<<"http">>}}
    /\ UNCHANGED <<cfg, next, dying, arrays, linked, users, library, listening, wired, closing, signal>>

-----------------------------------------------------------------------------
(* The loop.                                                               *)

\* A signal arrives once the handlers are installed; libuv keeps it until the loop runs.
Raise ==
    /\ signal = "none" /\ pc # "aborted" /\ <<"sigterm">> \in open \ dying
    /\ signal' = "raised"
    /\ UNCHANGED <<cfg, pc, next, open, dying, arrays, linked, users, library, listening, wired, closing>>

\* on_signal: uv_stop ends the uv_run it is called in.
OnSignal ==
    /\ LoopRuns /\ signal = "raised" /\ <<"sigterm">> \in open \ dying
    /\ signal' = "seen" /\ closing' = TRUE
    /\ pc' = IF pc = "run" THEN "close_cores" ELSE pc
    /\ UNCHANGED <<cfg, next, open, dying, arrays, linked, users, library, listening, wired>>

\* on_connection, of either listener
Accept(c) ==
    /\ LoopRuns /\ ~closing
    /\ \/ listening /\ <<"listener">> \in open \ dying
       \/ pc = "run" /\ <<"http">> \in open \ dying
    /\ c \notin open
    /\ open' = open \cup {c}
    /\ UNCHANGED <<cfg, pc, next, dying, arrays, linked, users, library, listening, wired, closing, signal>>

\* A client leaves.
Disconnect(c) ==
    /\ LoopRuns /\ c \in open \ dying
    /\ dying' = dying \cup {c}
    /\ UNCHANGED <<cfg, pc, next, open, arrays, linked, users, library, listening, wired, closing, signal>>

\* The close callback of a handle.
Closed(h) ==
    /\ LoopRuns /\ h \in dying
    /\ open' = open \ {h}
    /\ dying' = dying \ {h}
    /\ UNCHANGED <<cfg, pc, next, arrays, linked, users, library, listening, wired, closing, signal>>

-----------------------------------------------------------------------------
(* Close: the end of main, entered at the step that fits what has started. *)

\* A loop over sources, for import_group_close (mb_importer_close) and mb_js_importer_close
\* (js_stream_close): unlink the next source and close its handle, let the loop run until
\* it is closed, and free the array after the last one.
CloseSource(s, n, array, drain, after) ==
    IF next > n
    THEN /\ arrays' = arrays \ {array}
         /\ pc' = after /\ next' = 1
         /\ UNCHANGED <<dying, linked, users, library>>
    ELSE /\ Unlink(s)
         /\ IF s \in open
            THEN dying' = dying \cup {s} /\ pc' = drain /\ UNCHANGED next
            ELSE next' = next + 1 /\ UNCHANGED <<dying, pc>>
         /\ UNCHANGED arrays

CloseCores ==
    /\ pc = "close_cores"
    /\ CloseSource(Core(next), cfg.cores, "cores", "drain_core", "close_streams")
    /\ UNCHANGED <<cfg, open, listening, wired, closing, signal>>

CloseStreams ==
    /\ pc = "close_streams"
    /\ CloseSource(Stream(next), cfg.streams, "streams", "drain_stream", "close_server")
    /\ UNCHANGED <<cfg, open, listening, wired, closing, signal>>

\* Mutant: one pass of the loop is taken to be enough.
Drained_OnePass ==
    /\ pc \in {"drain_core", "drain_stream"}
    /\ pc' = IF pc = "drain_core" THEN "close_cores" ELSE "close_streams"
    /\ next' = next + 1
    /\ UNCHANGED <<cfg, open, dying, arrays, linked, users, library, listening, wired, closing, signal>>

\* while (!async_closed) uv_run(UV_RUN_NOWAIT)
Drained ==
    /\ pc \in {"drain_core", "drain_stream"}
    /\ (IF pc = "drain_core" THEN Core(next) ELSE Stream(next)) \notin open
    /\ pc' = IF pc = "drain_core" THEN "close_cores" ELSE "close_streams"
    /\ next' = next + 1
    /\ UNCHANGED <<cfg, open, dying, arrays, linked, users, library, listening, wired, closing, signal>>

\* Mutant: mb_http_close is forgotten.
CloseServer_NoHttp ==
    /\ pc = "close_server"
    /\ closing' = TRUE
    /\ dying' = open \ {<<"http">>}
    /\ pc' = "drain_server"
    /\ UNCHANGED <<cfg, next, open, arrays, linked, users, library, listening, wired, signal>>

\* mb_server_close up to its uv_run: every connection, listener, timer and signal handle.
CloseServer ==
    /\ pc = "close_server"
    /\ closing' = TRUE
    /\ dying' = open
    /\ pc' = "drain_server"
    /\ UNCHANGED <<cfg, next, open, arrays, linked, users, library, listening, wired, signal>>

\* uv_run(UV_RUN_DEFAULT) returns when no handle is left; the final snapshot is Snapshot's.
ServerClosed ==
    /\ pc = "drain_server" /\ open = {}
    /\ pc' = "close_bridge"
    /\ UNCHANGED <<cfg, next, open, dying, arrays, linked, users, library, listening, wired, closing, signal>>

\* mb_bridge_close, pb_program_free and the return from main
CloseBridge ==
    /\ pc = "close_bridge"
    /\ Unlink(<<"bridge">>)
    /\ pc' = "exited"
    /\ UNCHANGED <<cfg, next, open, dying, arrays, listening, wired, closing, signal>>

-----------------------------------------------------------------------------
Init ==
    /\ cfg \in Configs
    /\ pc = "init" /\ next = 1
    /\ open = {} /\ dying = {} /\ arrays = {}
    /\ linked = {} /\ users = 0 /\ library = "unused"
    /\ listening = FALSE /\ wired = FALSE
    /\ closing = FALSE /\ signal = "none"

Main ==
    \/ InitServer \/ StartBridge \/ StartStreams \/ CatchUp \/ Listen \/ StartCores \/ ListenHttp
    \/ CloseCores \/ CloseStreams \/ Drained \/ CloseServer \/ ServerClosed \/ CloseBridge

Next ==
    \/ Main \/ Raise \/ OnSignal
    \/ \E c \in Clients : Accept(c) \/ Disconnect(c)
    \/ \E h \in dying : Closed(h)

\* A stream is being caught up with.
Loading == pc = "catch_up" /\ next <= cfg.streams

\* main does not stop between two calls, and a running loop calls what is ready.  What main
\* calls returns (connecting has time limits), except that a stream may never be caught up
\* with: nothing is assumed of CatchUp while it is loading.
Fairness ==
    /\ WF_vars(~Loading /\ Main)
    /\ WF_vars(OnSignal)
    /\ WF_vars(\E h \in dying : Closed(h))

Spec == Init /\ [][Next]_vars /\ Fairness

-----------------------------------------------------------------------------
\* Whatever the loop may call, in main's uv_run or during a close, finds what it uses: a handle
\* of a source lies in an array that is still allocated, the NATS library is open while a
\* connection exists, and as long as a timer, a client or a source can still publish, the
\* bridge the router forwards to is connected.
CallbacksSafe ==
    /\ \A h \in open : /\ h[1] = "core" => "cores" \in arrays
                       /\ h[1] = "stream" => "streams" \in arrays
    /\ linked # {} => library = "open"
    /\ LoopRuns /\ wired /\ open \ dying # {} => <<"bridge">> \in linked

\* Whichever step after mb_server_init failed, and whether or not a signal came: a process that
\* closes leaves no handle, no array, no connection and no user of the NATS library, so that the
\* last one has closed it.  A process whose mb_server_init failed leaves to the end of the
\* process what that call opened, and nothing else.
AllReleased ==
    /\ pc = "exited" => open = {}
    /\ pc = "aborted" => open \subseteq ServerHandles
    /\ pc \in {"exited", "aborted"} => dying = {} /\ arrays = {} /\ linked = {} /\ users = 0

\* A signal is honoured, also one that arrives while main is connecting or loading and the
\* loop does not run; and every close ends, since no handle is forgotten.  Only a stream that
\* is never caught up with holds a signal up, for as long as the loading lasts: a signal that
\* is still waiting when it ends is honoured then.
ShutdownEnds == (signal = "raised" \/ closing) ~> (pc = "exited" \/ Loading)
=============================================================================
