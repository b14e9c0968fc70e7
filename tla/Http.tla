-------------------------------- MODULE Http --------------------------------
(***************************************************************************)
(* The HTTP and SSE front end, src/server/http.c: connections that carry   *)
(* one request each, a POST that is published, a GET that is answered from *)
(* the last-value cache or becomes an event stream, the connection limit   *)
(* shared with the NATS listener, and the close after the answer.          *)
(*                                                                         *)
(* A libuv callback is one action.  The functions it calls are operators   *)
(* to the set of results they may have, because an allocation or a libuv   *)
(* call may fail.  A request is a record of what the handlers ask of it;   *)
(* its bytes are units, head of them for the header and cl for the body.   *)
(* There is one subject, and a message is its number in the log.           *)
(***************************************************************************)
EXTENDS Integers, Sequences

CONSTANTS Clients,         \* connection objects
          Requests,        \* the requests each client may send
          Modes,           \* the values of <<lvc_enabled, client_pubs_enabled>> considered
          MaxConnections,  \* MB_MAX_CONNECTIONS
          MaxHeader,       \* MB_HTTP_MAX_HEADER, in units
          MaxPayload,      \* MB_MAX_PAYLOAD, in units
          MaxPending,      \* MB_MAX_PENDING, in items
          Reads,           \* the sizes of a read
          MaxArrived,      \* bound: units a client sends
          MaxLog,          \* bound: messages published
          MaxNats          \* bound: NATS clients at a time

ASSUME LimitsAssumption ==
    /\ {MaxConnections, MaxHeader, MaxPayload, MaxPending} \subseteq Nat \ {0}
    /\ Reads \subseteq Nat \ {0} /\ {MaxArrived, MaxLog, MaxNats} \subseteq Nat
ASSUME ModesAssumption == Modes \subseteq BOOLEAN \X BOOLEAN
ASSUME RequestsAssumption ==
    UNION {Requests[k] : k \in Clients} \subseteq
                       [head : Nat \ {0}, parses : BOOLEAN, method : {"GET", "POST"},
                        te : BOOLEAN, cl : Nat \cup {-1}, auth : BOOLEAN, ctype : BOOLEAN,
                        path : {"pub", "sub", "latest", "other"}, decodes : BOOLEAN,
                        space : {"plain", "lvc", "stats"}, nul : BOOLEAN]

VARIABLES conns,    \* mb_http_conn of each client
          server,   \* what http.c uses of mb_server
          bus       \* the router: log of messages, the ones that failed, the cached one

vars == <<conns, server, bus>>

NoRequest == [none |-> TRUE]

\* No connection: before accept, and after close_cb.
Blank(st) ==
    [st |-> st, counted |-> FALSE, req |-> NoRequest, rx |-> 0, arrived |-> 0,
     sse |-> FALSE, sub |-> FALSE, since |-> 0, replay |-> 0, closeAfter |-> FALSE,
     writePending |-> FALSE, out |-> <<>>, inFlight |-> <<>>, wire |-> <<>>,
     posted |-> 0, torn |-> FALSE]

-----------------------------------------------------------------------------
(* Writing and closing.                                                    *)

\* http_conn_begin_close: out of the router and the list, uv_close once.  What else the
\* connection holds is not read again before close_cb frees it.
BeginClose(c) ==
    IF c.st # "open" THEN c
    ELSE [Blank("closing") EXCEPT !.counted = c.counted, !.writePending = c.writePending]

\* write_socket: out goes in flight; uv_write may fail.
WriteSocket(c) ==
    IF c.st # "open" \/ c.writePending \/ c.out = <<>> THEN {c}
    ELSE LET d == [c EXCEPT !.inFlight = c.out, !.out = <<>>]
         IN  {[d EXCEPT !.writePending = TRUE], BeginClose(d)}

\* Mutant: a slow consumer loses its output instead of the connection.
KickWrite_Discards(c) ==
    IF c.st # "open" THEN {c}
    ELSE IF Len(c.out) + Len(c.inFlight) > MaxPending THEN {[c EXCEPT !.out = <<>>]}
    ELSE WriteSocket(c)

\* kick_write, with close_if_slow_consumer
KickWrite(c) ==
    IF c.st # "open" THEN {c}
    ELSE IF Len(c.out) + Len(c.inFlight) > MaxPending THEN {BeginClose(c)}
    ELSE WriteSocket(c)

\* respond_and_close, respond_bytes_and_close
RespondAndClose(c, code) ==
    {BeginClose(c)}
      \cup KickWrite([c EXCEPT !.out = Append(@, <<"response", code>>), !.closeAfter = TRUE])

\* write_cb after a successful write
AfterWrite(c) ==
    IF c.closeAfter /\ c.out = <<>> THEN {BeginClose(c)} ELSE KickWrite(c)

-----------------------------------------------------------------------------
(* Publishing.  w is the state a handler works on: the connections and the *)
(* router.                                                                 *)

\* Every way to replace the connections of S by results of F.
Each(cs, S, F(_)) ==
    {f \in [Clients -> UNION {F(cs[k]) : k \in S} \cup {cs[k] : k \in Clients}] :
        \A k \in Clients : IF k \in S THEN f[k] \in F(cs[k]) ELSE f[k] = cs[k]}

Subscribed(cs) == {k \in Clients : cs[k].sub}

\* deliver_to_sub with sse_msg_len and sse_write_msg, and the close or the kick at the
\* end of the publish.  A payload with a NUL has length 0 and is left out.
DeliverEvent(c, m, nul) ==
    IF nul THEN {c}
    ELSE IF Len(c.out) + 1 > MaxPending THEN {BeginClose(c)}
    ELSE KickWrite([c EXCEPT !.out = Append(@, <<"event", m>>)])

\* sse_write_msg reserves nothing beforehand: if the buffer cannot grow in the middle,
\* a part of the event stays in out, and the publish fails without a kick.
TornEvent(c, m) == [c EXCEPT !.out = Append(@, <<"part", m>>), !.torn = TRUE]

\* lvc_store for the message about to be published
Stored(w, m) == IF server.lvc THEN [w.bus EXCEPT !.latest = m] ELSE w.bus

\* mb_router_publish: delivered, or failed before the first subscription, or failed in
\* the write to one of them, when others may have been served.
RouterPublish(w, nul) ==
    LET m == Len(w.bus.log) + 1
        logged(b) == [b EXCEPT !.log = Append(@, nul)]
        lost(b) == [logged(b) EXCEPT !.failed = @ \cup {m}]
        deliver(c) == DeliverEvent(c, m, nul)
        subs == Subscribed(w.conns)
        torn == {k \in subs : ~nul /\ Len(w.conns[k].out) < MaxPending}
    IN  {[ok |-> TRUE, conns |-> cs, bus |-> logged(Stored(w, m))] :
            cs \in Each(w.conns, subs, deliver)}
        \cup {[ok |-> FALSE, conns |-> w.conns, bus |-> lost(b)] : b \in {w.bus, Stored(w, m)}}
        \cup UNION {{[ok |-> FALSE, conns |-> [cs EXCEPT ![k] = TornEvent(@, m)], bus |-> lost(Stored(w, m))] :
                        cs \in UNION {Each(w.conns, T, deliver) : T \in SUBSET (subs \ {k})}} : k \in torn}

-----------------------------------------------------------------------------
(* Handling a request.  What the parsers find is in the request record.    *)

\* find_header_end
HasHeaderEnd(c) == c.rx >= c.req.head

\* parse_headers
ParseHeaders(r) == r.parses

\* content_type_allowed
ContentTypeAllowed(r) == r.ctype

\* decode_subject_path for the prefix of the path
DecodeSubjectPath(r, path) == r.path = path /\ r.decodes

\* request_authorized
RequestAuthorized(r) == r.auth

Answer(w, k, code) ==
    {[conns |-> [w.conns EXCEPT ![k] = d], bus |-> w.bus] : d \in RespondAndClose(w.conns[k], code)}

\* mb_server_client_publish and the answer to each of its results; the rules may fail
\* after the message was routed.
ClientPublish(w, k, r) ==
    IF ~server.pubs THEN Answer(w, k, 403)
    ELSE IF r.space # "plain" THEN Answer(w, k, 409)
    ELSE UNION {LET u == [conns |-> [p.conns EXCEPT ![k].posted = @ + 1], bus |-> p.bus]
                IN  Answer(u, k, 500) \cup (IF p.ok THEN Answer(u, k, 202) ELSE {})
                  : p \in RouterPublish(w, FALSE)}

\* handle_post
HandlePost(w, k, r) ==
    IF ~RequestAuthorized(r) THEN Answer(w, k, 401)
    ELSE IF ~ContentTypeAllowed(r) THEN Answer(w, k, 415)
    ELSE IF ~DecodeSubjectPath(r, "pub") \/ r.nul THEN Answer(w, k, 400)
    ELSE ClientPublish(w, k, r)

\* handle_latest
HandleLatest(w, k, r) ==
    IF ~DecodeSubjectPath(r, "latest") \/ r.space = "lvc" THEN Answer(w, k, 400)
    ELSE IF ~server.lvc THEN Answer(w, k, 409)
    ELSE IF w.bus.latest = 0 THEN Answer(w, k, 404)
    ELSE Answer(w, k, 200)

\* The status line and headers of an event stream.
StreamHead == <<"response", 200>>

\* The end of handle_get: the response head, then mb_router_subscribe, which replays the
\* cached value for $LVC (emit_cached writes NATS frames, whatever the connection's
\* write_msg_fn).  A subscription that fails drops what is in out and answers 500.
Subscribe(w, k, r) ==
    LET c == w.conns[k]
        replay == IF r.space = "lvc" THEN w.bus.latest ELSE 0
        items == Append(c.out, StreamHead) \o (IF replay = 0 THEN <<>> ELSE << <<"raw", replay>> >>)
        live == [c EXCEPT !.sse = TRUE, !.sub = TRUE, !.rx = 0, !.since = Len(w.bus.log),
                          !.replay = replay, !.out = items]
        refused == [w EXCEPT !.conns[k].out = <<>>]
        fits == replay = 0 \/ Len(items) <= MaxPending
    IN  {[w EXCEPT !.conns[k] = d] : d \in {BeginClose(c)} \cup (IF fits THEN KickWrite(live) ELSE {})}
        \cup Answer(refused, k, 500)

\* handle_get
HandleGet(w, k, r) ==
    IF r.cl > 0 THEN Answer(w, k, 400)
    ELSE IF ~RequestAuthorized(r) THEN Answer(w, k, 401)
    ELSE IF r.path = "latest" THEN HandleLatest(w, k, r)
    ELSE IF ~DecodeSubjectPath(r, "sub") THEN Answer(w, k, 400)
    ELSE IF r.space = "lvc" /\ ~server.lvc THEN Answer(w, k, 409)
    ELSE Subscribe(w, k, r)

\* Mutant: the body need not be complete.
ProcessRequest_PartialBody(w, k) ==
    LET c == w.conns[k]
        r == c.req
    IN  IF ~HasHeaderEnd(c) THEN IF c.rx > MaxHeader THEN Answer(w, k, 431) ELSE {w}
        ELSE IF r.head > MaxHeader THEN Answer(w, k, 431)
        ELSE IF ~ParseHeaders(r) \/ r.te THEN Answer(w, k, 400)
        ELSE IF r.method = "GET" THEN HandleGet(w, k, r)
        ELSE IF r.cl = -1 THEN Answer(w, k, 411)
        ELSE IF r.cl > MaxPayload THEN Answer(w, k, 413)
        ELSE HandlePost(w, k, r)

\* process_request: rx always begins with the connection's first request, because only an
\* event stream clears it.
ProcessRequest(w, k) ==
    LET c == w.conns[k]
        r == c.req
    IN  IF ~HasHeaderEnd(c) THEN IF c.rx > MaxHeader THEN Answer(w, k, 431) ELSE {w}
        ELSE IF r.head > MaxHeader THEN Answer(w, k, 431)
        ELSE IF ~ParseHeaders(r) \/ r.te THEN Answer(w, k, 400)
        ELSE IF r.method = "GET" THEN HandleGet(w, k, r)
        ELSE IF r.cl = -1 THEN Answer(w, k, 411)
        ELSE IF r.cl > MaxPayload THEN Answer(w, k, 413)
        ELSE IF c.rx - r.head < r.cl THEN {w}
        ELSE HandlePost(w, k, r)

\* read_cb with n units
Received(w, k, n) ==
    LET c == [w.conns[k] EXCEPT !.arrived = @ + n]
        closed == [w EXCEPT !.conns[k] = BeginClose(c)]
    IN  IF c.sse THEN {closed}
        ELSE IF c.rx + n > MaxHeader + MaxPayload THEN Answer([w EXCEPT !.conns[k] = c], k, 413)
        ELSE {closed} \cup ProcessRequest([w EXCEPT !.conns[k] = [c EXCEPT !.rx = @ + n]], k)

-----------------------------------------------------------------------------
(* Callbacks.                                                              *)

Becomes(ws) == \E w \in ws : conns' = w.conns /\ bus' = w.bus

ReadCb(k, n) ==
    /\ conns[k].st = "open" /\ conns[k].arrived + n <= MaxArrived
    /\ Becomes(Received([conns |-> conns, bus |-> bus], k, n))
    /\ Len(bus'.log) <= MaxLog
    /\ UNCHANGED server

\* read_cb at the end of the client's stream or on an error
ReadEnds(k) ==
    /\ conns[k].st = "open"
    /\ conns' = [conns EXCEPT ![k] = BeginClose(@)]
    /\ UNCHANGED <<server, bus>>

WriteCb(k) ==
    /\ conns[k].st = "open" /\ conns[k].writePending
    /\ \E d \in AfterWrite([conns[k] EXCEPT !.writePending = FALSE, !.inFlight = <<>>,
                                            !.wire = @ \o conns[k].inFlight]) :
          conns' = [conns EXCEPT ![k] = d]
    /\ UNCHANGED <<server, bus>>

\* write_cb with an error, also of a write canceled by uv_close
WriteFails(k) ==
    /\ conns[k].writePending
    /\ conns' = [conns EXCEPT ![k] = BeginClose([@ EXCEPT !.writePending = FALSE])]
    /\ UNCHANGED <<server, bus>>

\* close_cb, after the callback of a write that was in flight
CloseCb(k) ==
    /\ conns[k].st = "closing" /\ ~conns[k].writePending
    /\ conns' = [conns EXCEPT ![k] = Blank("freed")]
    /\ server' = [server EXCEPT !.count = IF conns[k].counted /\ @ > 0 THEN @ - 1 ELSE @]
    /\ UNCHANGED bus

\* on_connection over the limit: drop_pending_connection
Refuse(k) ==
    /\ conns[k].st = "none" /\ ~server.closing /\ server.count >= MaxConnections
    /\ conns' = [conns EXCEPT ![k] = Blank("freed")]
    /\ UNCHANGED <<server, bus>>

Accepted(r) == [Blank("open") EXCEPT !.counted = TRUE, !.req = r]

\* http_conn_create: accepted, and closed again if reading cannot start
Accept(k) ==
    /\ conns[k].st = "none" /\ ~server.closing /\ server.count < MaxConnections
    /\ \E r \in Requests[k] : \E c \in {Accepted(r), BeginClose(Accepted(r))} :
          conns' = [conns EXCEPT ![k] = c]
    /\ server' = [server EXCEPT !.count = @ + 1]
    /\ UNCHANGED bus

\* http_conn_create when uv_accept fails: closed without having been counted
AcceptFails(k) ==
    /\ conns[k].st = "none" /\ ~server.closing /\ server.count < MaxConnections
    /\ conns' = [conns EXCEPT ![k] = Blank("closing")]
    /\ UNCHANGED <<server, bus>>

\* The NATS listener of server.c counts its connections in the same variable.
NatsAccept ==
    /\ ~server.closing /\ server.count < MaxConnections /\ server.nats < MaxNats
    /\ server' = [server EXCEPT !.count = @ + 1, !.nats = @ + 1]
    /\ UNCHANGED <<conns, bus>>

NatsClose ==
    /\ server.nats > 0
    /\ server' = [server EXCEPT !.count = @ - 1, !.nats = @ - 1]
    /\ UNCHANGED <<conns, bus>>

\* A message from a NATS client, an importer or a rule, possibly with a NUL.
OtherPublish ==
    /\ Len(bus.log) < MaxLog
    /\ \E nul \in BOOLEAN : \E p \in RouterPublish([conns |-> conns, bus |-> bus], nul) :
          conns' = p.conns /\ bus' = p.bus
    /\ UNCHANGED server

OnSignal ==
    /\ ~server.closing
    /\ server' = [server EXCEPT !.closing = TRUE]
    /\ UNCHANGED <<conns, bus>>

\* mb_http_close, from mb_server_close: closes the head of the list until it is empty.
HttpClose ==
    /\ server.closing /\ \E k \in Clients : conns[k].st = "open"
    /\ conns' = [k \in Clients |-> BeginClose(conns[k])]
    /\ UNCHANGED <<server, bus>>

Init ==
    /\ conns = [k \in Clients |-> Blank("none")]
    /\ \E mode \in Modes :
          server = [count |-> 0, nats |-> 0, closing |-> FALSE, lvc |-> mode[1], pubs |-> mode[2]]
    /\ bus = [log |-> <<>>, failed |-> {}, latest |-> 0]

Connection(k) == Accept(k) \/ AcceptFails(k) \/ Refuse(k) \/ CloseCb(k)
Stream(k) == (\E n \in Reads : ReadCb(k, n)) \/ ReadEnds(k) \/ WriteCb(k) \/ WriteFails(k)

Next == \/ \E k \in Clients : Connection(k) \/ Stream(k)
        \/ NatsAccept \/ NatsClose \/ OtherPublish \/ OnSignal \/ HttpClose

Spec == Init /\ [][Next]_vars

-----------------------------------------------------------------------------
(* Properties.                                                             *)

Made(c) == c.wire \o c.inFlight \o c.out

\* A request reaches the router only when all of it has arrived, within the limits and
\* with every check of the three handlers passed, however it was cut into reads and
\* however often the growing buffer was parsed again; and it is published a second time only
\* if the client sent more than the request (rx is not cleared and reading goes on while the
\* answer is written, see OnePublishPerPost).
PostsExact ==
    \A k \in Clients : LET c == conns[k] IN c.posted > 0 =>
        /\ c.req.method = "POST" /\ c.req.parses /\ ~c.req.te /\ c.req.auth /\ c.req.ctype
        /\ c.req.path = "pub" /\ c.req.decodes /\ c.req.space = "plain" /\ ~c.req.nul
        /\ c.req.head <= MaxHeader /\ c.req.cl \in 0 .. MaxPayload
        /\ c.arrived >= c.req.head + c.req.cl
        /\ c.posted > 1 => c.arrived > c.req.head + c.req.cl

\* What design/http-sse.md says: a POST publishes one payload, like a PUB (lines 14, 185-186,
\* 213-214).  It does not hold: process_request runs from the start of rx again for every byte
\* that comes after the request.
OnePublishPerPost == \A k \in Clients : conns[k].posted <= 1

\* The items made for a stream: the head after nothing but answers, then what was replayed,
\* if anything, then events, each of a later message than the one before, published since the
\* subscription and without a NUL; of the publishes that did not fail none is missing.
Whole(made, replay, since, b) ==
    LET At == DOMAIN made
        Rest == {i \in At : made[i][1] # "response"}
    IN  /\ \E h \in At : made[h] = StreamHead /\ \A i \in 1 .. h : made[i][1] = "response"
        /\ \A i \in Rest : \/ replay # 0 /\ made[i] = <<"raw", replay>>
                           \/ /\ made[i][1] = "event" /\ made[i][2] \in since + 1 .. Len(b.log)
                              /\ ~b.log[made[i][2]]
        /\ \A i, j \in Rest : i < j => /\ made[j][1] = "event"
                                       /\ made[i][1] = "event" => made[i][2] < made[j][2]
        /\ replay # 0 => \E i \in At : made[i] = <<"raw", replay>>
        /\ \A m \in since + 1 .. Len(b.log) :
              m \in b.failed \/ b.log[m] \/ \E i \in At : made[i] = <<"event", m>>

\* The stream of an open SSE connection is whole, whatever has been written of it: every
\* message since the subscription is there, in order, without a gap or repetition; only
\* payloads with a NUL and publishes that failed are left out.
StreamComplete ==
    \A k \in Clients : LET c == conns[k]
                       IN  c.st = "open" /\ c.sub /\ ~c.torn => Whole(Made(c), c.replay, c.since, bus)

\* Everything after the head of an event stream is a whole SSE event.
StreamIsEvents ==
    \A k \in Clients : conns[k].sse /\ ~conns[k].torn =>
        \A i \in 1 .. Len(Made(conns[k])) : Made(conns[k])[i][1] \in {"response", "event"}
=============================================================================
