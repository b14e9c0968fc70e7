-------------------------------- MODULE Conn --------------------------------
(***************************************************************************)
(* One client connection, src/server/conn.c: the libuv callbacks that      *)
(* read, parse and execute client operations, the single guarded write in  *)
(* flight, the TLS upgrade after the plain INFO line, the slow-consumer    *)
(* cut-off and the two-phase close.                                        *)
(*                                                                         *)
(* Everything runs on the event loop, so a callback is one action; the     *)
(* functions it calls are operators from a connection to the set of        *)
(* connections they may leave behind (an allocation, a libuv or an OpenSSL *)
(* call may fail).  What is written is numbered 1, 2, ... in the order it  *)
(* is appended to router_conn.out; number 1 is INFO.  On the wire, and in  *)
(* the buffers before it, 0 stands for a TLS handshake record.  Ciphertext *)
(* is longer than what it encrypts: the items' worth of headers and tags   *)
(* in tls_out and in_flight is counted beside the items.                   *)
(***************************************************************************)
EXTENDS Proto

CONSTANTS TLS,            \* the values of server->tls_enabled considered
          Auth,           \* server->auth.mode # MB_AUTH_NONE
          MaxConnPending, \* MB_MAX_PENDING, in items
          RecordOverhead, \* the most that TLS records add, in items for each item in them
          MaxFlights,     \* bound: handshake records sent
          MaxItems        \* bound: items appended to out in a behaviour

ASSUME TLSAssumption == TLS \in SUBSET BOOLEAN
ASSUME AuthAssumption == Auth \in BOOLEAN
ASSUME ConnBoundsAssumption == MaxConnPending \in Nat \ {0} /\ MaxItems \in Nat \ {0} /\ MaxFlights \in Nat
ASSUME OverheadAssumption == RecordOverhead \in Nat

VARIABLES conn,           \* the mb_conn
          wire,           \* what reached the socket
          serverClosing   \* server->closing

connVars == <<conn, wire, serverClosing>>

Clear(s)  == [i \in 1 .. Len(s) |-> [item |-> s[i], enc |-> FALSE]]
Sealed(s) == [i \in 1 .. Len(s) |-> [item |-> s[i], enc |-> TRUE]]
Handshake == [item |-> 0, enc |-> FALSE]

\* mb_conn_begin_close: the router forgets the connection, uv_close is called once.
ConnBeginClose(c) ==
    IF c.closing THEN c
    ELSE [c EXCEPT !.closing = TRUE, !.reading = FALSE, !.subscribed = FALSE]

\* Append to router_conn.out.
Append1(c) == [c EXCEPT !.out = Append(@, c.produced + 1), !.produced = @ + 1]

\* write_err_or_close
WriteErr(c) == {Append1(c), ConnBeginClose(c)}

-----------------------------------------------------------------------------
(* Writing.                                                                *)

\* pending_bytes
Pending(c) == Len(c.out) + (Len(c.inFlight) + c.flightFraming)
                + (Len(c.tlsOut) + c.outFraming) + Len(c.tlsPlain)

\* write_socket_from: src becomes the buffer in flight; uv_write may fail.
WriteFrom(c, src, bytes) ==
    IF c.closing \/ c.writePending \/ bytes = <<>> THEN {c}
    ELSE LET d == [c EXCEPT !.inFlight = bytes, ![src] = <<>>,
                            !.flightFraming = c.outFraming, !.outFraming = 0]
         IN  {[d EXCEPT !.writePending = TRUE], ConnBeginClose(d)}

\* tls_encrypt_pending: SSL_write takes everything waiting, or stops after a part of it
\* (WANT_READ, WANT_WRITE), or fails.  The records it makes of k items are longer by r; with
\* the cap checked before, nothing looks at that until the next kick.
Encrypt(c) ==
    LET waiting == c.tlsPlain \o c.out
        taken(k, r) == [c EXCEPT !.tlsOut = @ \o Sealed(SubSeq(waiting, 1, k)),
                                 !.outFraming = @ + r,
                                 !.tlsPlain = IF k < Len(c.tlsPlain)
                                              THEN SubSeq(c.tlsPlain, k + 1, Len(c.tlsPlain))
                                              ELSE SubSeq(waiting, k + 1, Len(waiting)),
                                 !.out = IF k < Len(c.tlsPlain) THEN c.out ELSE <<>>,
                                 !.wants = k < Len(waiting)]
    IN  {ConnBeginClose(c)}
        \cup UNION {{taken(k, r) : r \in 0 .. RecordOverhead * k} : k \in 0 .. Len(waiting)}

\* Mutant: a connection with a write in flight is not measured.
KickWrite_BusyFirst(c) ==
    IF c.closing \/ c.writePending THEN {c}
    ELSE IF Pending(c) > MaxConnPending THEN {ConnBeginClose(c)}
    ELSE IF c.tls \in {"off", "info"} THEN WriteFrom(c, "out", Clear(c.out))
    ELSE IF c.tls = "handshake" THEN WriteFrom(c, "tlsOut", c.tlsOut)
    ELSE UNION {WriteFrom(d, "tlsOut", d.tlsOut) : d \in Encrypt(c)}

\* mb_conn_kick_write, with close_if_slow_consumer before the test of a write in flight.
KickWrite(c) ==
    IF c.closing THEN {c}
    ELSE IF Pending(c) > MaxConnPending THEN {ConnBeginClose(c)}
    ELSE IF c.writePending THEN {c}
    ELSE IF c.tls \in {"off", "info"} THEN WriteFrom(c, "out", Clear(c.out))
    ELSE IF c.tls = "handshake" THEN WriteFrom(c, "tlsOut", c.tlsOut)
    ELSE UNION {WriteFrom(d, "tlsOut", d.tlsOut) : d \in Encrypt(c)}

KickAll(cs) == UNION {KickWrite(d) : d \in cs}

\* A publish that matches this connection's subscription: deliver_to_sub, then the
\* closes and kicks at the end of mb_router_publish.
ConnDeliver(c) ==
    IF ~c.subscribed THEN {c}
    ELSE IF Len(c.out) + 1 > MaxConnPending THEN {ConnBeginClose(c)}
    ELSE KickWrite(Append1(c))

-----------------------------------------------------------------------------
(* Operations of the client.                                               *)

Ops == {"connectGood", "connectBad", "ping", "sub", "unsub", "pub", "unknown", "malformed"}
Mutating == {"sub", "unsub", "pub"}

\* auth_violation
AuthViolation(c) ==
    {ConnBeginClose(d) : d \in WriteErr(c)}

\* The switch of handle_op.  SUB may fail and may replay a cached value (a replay that
\* fails takes the sid's other subscriptions back too), UNSUB may only set a maximum,
\* PUB may be refused or fail in the rules after it was routed.
Execute(c, op) ==
    CASE op \in {"connectGood", "connectBad"} -> {c}
      [] op = "ping"  -> {Append1(c), ConnBeginClose(c)}
      [] op = "sub"   -> LET s == [c EXCEPT !.subscribed = TRUE]
                             u == [c EXCEPT !.subscribed = FALSE]
                         IN  {s, Append1(s)} \cup UNION {WriteErr(d) : d \in {c, u, Append1(u)}}
      [] op = "unsub" -> {c, [c EXCEPT !.subscribed = FALSE]}
      [] op = "pub"   -> WriteErr(c) \cup ConnDeliver(c) \cup UNION {WriteErr(d) : d \in ConnDeliver(c)}

\* handle_op, and process_rx for input that is no operation.
HandleOp(c, op) ==
    IF op = "malformed" THEN {ConnBeginClose(d) : d \in WriteErr(c)}
    ELSE IF op = "unknown" THEN WriteErr(c)
    ELSE IF ~c.authorized
    THEN IF op = "connectGood" THEN {[c EXCEPT !.authorized = TRUE]} ELSE AuthViolation(c)
    ELSE IF serverClosing /\ op \in Mutating THEN WriteErr(c)
    ELSE Execute(c, op)

\* One round of the loop of process_rx, which ends with the input or the connection.
NextOp(c, op) == IF c.closing \/ op = "end" THEN {c} ELSE HandleOp(c, op)

\* process_rx: the operations of one read, at most two in the model.
ProcessRx(c, ops) == UNION {NextOp(d, ops[2]) : d \in NextOp(c, ops[1])}

-----------------------------------------------------------------------------
(* TLS.                                                                    *)

\* tls_drive_handshake without new input: OpenSSL asks for more, or fails.
DriveHandshake(c) == {c, ConnBeginClose(c)}

\* tls_feed_encrypted during the handshake: OpenSSL answers and asks for more, fails, or
\* is done; what came with the last handshake bytes is read and processed.
FeedHandshake(c, ops) ==
    LET answered == IF c.flights < MaxFlights
                    THEN [c EXCEPT !.tlsOut = Append(@, Handshake), !.flights = @ + 1]
                    ELSE c
    IN  {c, answered, ConnBeginClose(c), ConnBeginClose(answered)}
        \cup ProcessRx([answered EXCEPT !.tls = "ready"], ops)

\* tls_start: the SSL object, reading from the socket, a first drive, a kick.
TlsStart(c) ==
    {ConnBeginClose(c)} \cup KickAll(DriveHandshake([c EXCEPT !.tls = "handshake", !.reading = TRUE]))

-----------------------------------------------------------------------------
(* Callbacks.                                                              *)

Within(c) == c.produced <= MaxItems

\* read_cb with data, one or two operations at a time.
ReadCb ==
    /\ conn.reading /\ conn.tls # "info"
    /\ \E ops \in Ops \X (Ops \cup {"end"}) :
          /\ conn' \in KickAll(IF conn.tls = "handshake" THEN FeedHandshake(conn, ops)
                               ELSE ProcessRx(conn, ops))
          /\ Within(conn')
    /\ UNCHANGED <<wire, serverClosing>>

\* read_cb with an error or the end of the stream, or more input than MB_MAX_RX.
ReadEnds ==
    /\ conn.reading
    /\ conn' = ConnBeginClose(conn)
    /\ UNCHANGED <<wire, serverClosing>>

\* Mutant: the buffer that was written is not cleared.
Written_NotCleared(c) == [c EXCEPT !.writePending = FALSE]

Written(c) == [c EXCEPT !.inFlight = <<>>, !.flightFraming = 0, !.writePending = FALSE]

\* Mutant: a completed write does not look for more.
AfterWrite_NoKick(c) ==
    IF c.tls = "info" THEN TlsStart(c)
    ELSE IF c.tls = "handshake" THEN KickAll(DriveHandshake(c))
    ELSE {c}

\* write_cb after a successful write.
AfterWrite(c) ==
    IF c.tls = "info" THEN TlsStart(c)
    ELSE IF c.tls = "handshake" THEN KickAll(DriveHandshake(c))
    ELSE KickWrite(c)

\* write_cb: the whole buffer was written.
WriteCb ==
    /\ conn.writePending /\ ~conn.closing
    /\ wire' = wire \o conn.inFlight
    /\ conn' \in AfterWrite(Written(conn))
    /\ UNCHANGED serverClosing

\* write_cb with an error (a canceled write after uv_close too): a part was written.
WriteFails ==
    /\ conn.writePending
    /\ \E k \in 0 .. Len(conn.inFlight) : wire' = wire \o SubSeq(conn.inFlight, 1, k)
    /\ conn' = ConnBeginClose([conn EXCEPT !.writePending = FALSE])
    /\ UNCHANGED serverClosing

\* A message from another client, an importer or a rule.
OtherPublish ==
    /\ conn.subscribed /\ ~conn.closing
    /\ conn' \in ConnDeliver(conn)
    /\ Within(conn')
    /\ UNCHANGED <<wire, serverClosing>>

\* close_cb, after the callback of a write that was in flight.
CloseCb ==
    /\ conn.closing /\ ~conn.writePending /\ ~conn.freed
    /\ conn' = [conn EXCEPT !.freed = TRUE]
    /\ UNCHANGED <<wire, serverClosing>>

\* on_signal, and later mb_server_close.
OnSignal ==
    /\ ~serverClosing
    /\ serverClosing' = TRUE
    /\ UNCHANGED <<conn, wire>>

ServerClose ==
    /\ serverClosing /\ ~conn.closing
    /\ conn' = ConnBeginClose(conn)
    /\ UNCHANGED <<wire, serverClosing>>

Done == conn.freed /\ UNCHANGED connVars

\* mb_conn_create from the INFO line on.
Fresh(tls) ==
    [tls |-> IF tls THEN "info" ELSE "off", authorized |-> ~Auth, closing |-> FALSE,
     freed |-> FALSE, reading |-> ~tls, writePending |-> FALSE, wants |-> FALSE,
     subscribed |-> FALSE, out |-> <<1>>, inFlight |-> <<>>, tlsPlain |-> <<>>, tlsOut |-> <<>>,
     flightFraming |-> 0, outFraming |-> 0, produced |-> 1, flights |-> 0]

ConnInit ==
    /\ \E tls \in TLS : conn \in KickWrite(Fresh(tls)) \cup {ConnBeginClose(Fresh(tls))}
    /\ wire = <<>> /\ serverClosing = FALSE

ConnNext == \/ ReadCb \/ ReadEnds \/ WriteCb \/ WriteFails \/ OtherPublish \/ CloseCb
            \/ OnSignal \/ ServerClose \/ Done

ConnSpec == ConnInit /\ [][ConnNext]_connVars

-----------------------------------------------------------------------------
(* Properties.                                                             *)

StreamItem == [item : Nat, enc : BOOLEAN]

ConnType ==
    [tls : {"off", "info", "handshake", "ready"}, authorized : BOOLEAN, closing : BOOLEAN,
     freed : BOOLEAN, reading : BOOLEAN, writePending : BOOLEAN, wants : BOOLEAN,
     subscribed : BOOLEAN, out : Seq(Nat), inFlight : Seq(StreamItem), tlsPlain : Seq(Nat),
     tlsOut : Seq(StreamItem), flightFraming : Nat, outFraming : Nat, produced : Nat, flights : Nat]

\* Type invariant.
ConnTypeOK == conn \in ConnType /\ wire \in Seq(StreamItem) /\ serverClosing \in BOOLEAN

\* The items of a buffer of entries.
Items(s) == [i \in 1 .. Len(s) |-> s[i].item]

\* What a connection sends, in the order in which it will leave.
Stream(c, w) == Items(w) \o Items(c.inFlight) \o Items(c.tlsOut) \o c.tlsPlain \o c.out

\* Apart from handshake records, s begins with 1 and counts: what is in it was preceded by
\* all that was appended before it, and neither repeated nor overtaken.
InOrder(s) ==
    \A i \in 1 .. Len(s) :
        /\ \A n \in 1 .. s[i] - 1 : \E j \in 1 .. i - 1 : s[j] = n
        /\ s[i] # 0 => \A j \in 1 .. i - 1 : s[j] < s[i]

\* s holds items up to n only.
UpTo(s, n) == \A i \in 1 .. Len(s) : s[i] \in 0 .. n

\* s holds all items up to n.
HasAll(s, n) == \A m \in 1 .. n : \E i \in 1 .. Len(s) : s[i] = m

\* Nothing but INFO and handshake records is in the clear.
Hidden(s) == \A i \in 1 .. Len(s) : ~s[i].enc => s[i].item \in {0, 1}

\* The client's byte stream: what is on the wire and in the four buffers behind it is
\* everything that was appended, once and in order, through the buffer swaps, the
\* partial encryptions and the TLS upgrade.  What a closed connection sent is a prefix, and
\* with TLS nothing but INFO and the handshake leaves in the clear.
StreamIntact ==
    /\ ~conn.closing => LET s == Stream(conn, wire)
                        IN  InOrder(s) /\ UpTo(s, conn.produced) /\ HasAll(s, conn.produced)
    /\ InOrder(Items(wire)) /\ UpTo(Items(wire), conn.produced)
    /\ conn.tls # "off" => Hidden(wire)

\* No output waits without a write that will take it along, unless TLS keeps it back
\* (a handshake, or SSL_write asking for input): every path that appends ends in a kick.
NoStalledOutput ==
    ~conn.closing /\ ~conn.writePending =>
        /\ conn.tlsOut = <<>>
        /\ conn.tls \in {"off", "info"} => conn.out = <<>>
        /\ conn.tls = "ready" /\ ~conn.wants => conn.out = <<>> /\ conn.tlsPlain = <<>>

\* Between callbacks a connection that stays open holds no more than the cap, whatever
\* it has in flight and however many operations came in one read.  Only what TLS adds to the
\* write in flight comes on top of it: close_if_slow_consumer measures before
\* tls_encrypt_pending makes records of what waits, so MB_MAX_PENDING itself is no bound.
PendingBounded ==
    ~conn.closing => /\ Pending(conn) <= MaxConnPending + conn.flightFraming
                     /\ conn.flightFraming <= RecordOverhead * Len(conn.inFlight)

\* The parser does not depend on the state, so it is checked in one, a connection whose INFO
\* could not be written.
Once == conn = ConnBeginClose(Fresh(FALSE)) /\ ConnInit

\* Where a stream is cut makes no difference: whatever two pieces a client sends one after
\* the other, valid or not, and wherever one read ends and the next begins (in a line, in a
\* payload, between the "\r" and the "\n" of a trailer), mb_parse_client_op under process_rx
\* yields the same operations, refusals and close, and keeps the same rest: all cuts, and k = 0
\* is none, have one result.  It follows for any number of cuts, since what is left in rx is
\* itself the beginning of a stream; and MB_MAX_RX never closes a connection in the middle of
\* an operation that is in order.
CutsIrrelevant ==
    Once => \A p \in Pieces, q \in Pieces :
               Cardinality({Feed(Feed(NewStream, SubSeq(p \o q, 1, k)), SubSeq(p \o q, k + 1, Len(p \o q)))
                              : k \in 0 .. Len(p \o q)}) = 1

\* Framing is exact in both directions.  What a client wrote is what is executed, in order
\* and with nothing left: a payload is taken by its length, however much it looks like an
\* operation or a line end.  What the server writes for a message is as long as
\* mb_msg_frame_len said when the room for it was reserved and checked against the cap, at
\* every power of ten of the payload's length.
FramingExact ==
    Once => /\ \A o \in SomeOps, p \in SomeOps, e \in Eols, f \in Eols, gap \in Blank :
                  Feed(NewStream, Wire(o, gap, e) \o Wire(p, gap, f)) = [NewStream EXCEPT !.ops = <<o, p>>]
            /\ \A prefix \in {<<>>, <<"$">>}, replyTo \in {<<>>, <<"r">>}, n \in {0, 1, 9, 10, 11, 99, 100, 101} :
                  LET payload == [i \in 1 .. n |-> "x"]
                  IN  Len(MsgFrame(prefix, <<"a">>, <<"1">>, replyTo, payload))
                        = MsgFrameLen(prefix, <<"a">>, <<"1">>, replyTo, payload)
=============================================================================
