------------------------------- MODULE Router -------------------------------
(***************************************************************************)
(* The subscription router and last-value cache, src/router.c, as          *)
(* conn.c and server.c call it on the loop thread.  Subscriptions live in  *)
(* lists (one per literal subject, one per first token, one for filters    *)
(* with a wildcard first); a removal swaps the last item in.  A publish    *)
(* updates the cache, then walks the three lists of its subject: it picks  *)
(* a member of every queue group of a list, then writes one frame per      *)
(* selected subscription, closing a connection whose output is full.       *)
(*                                                                         *)
(* A frame counts 1 against MB_MAX_PENDING.  An absent bucket is an empty  *)
(* list.  queue_random is a free choice.  Allocations on subscribing       *)
(* succeed; a frame write may fail, see Budgets.                           *)
(***************************************************************************)
EXTENDS Subject, FiniteSets, SequencesExt

CONSTANTS
    Conns, Sids,
    Subjects,          \* subjects published, never under $LVC
    Filters,           \* filters subscribed to
    Queues,            \* queue names, NoQueue for an ordinary subscription
    NoQueue,
    LvcFilters,        \* the (lvc ...) filters; {} disables the cache
    Kinds,             \* \subseteq BOOLEAN: TRUE for $LVC subscriptions
    Budgets,           \* frame writes of a publish before one fails
    MaxPending,        \* MB_MAX_PENDING, in frames
    MaxSubsPerConn, MaxSubsTotal,
    MaxLvcEntries, MaxLvcBytes,
    Sizes,             \* payload sizes
    MaxMsgs,           \* bound: the max_msgs an UNSUB may ask for
    MaxPublishes,      \* bound: messages published; a message is its number
    MaxAccepts,        \* bound: connections accepted in all
    MaxTokens          \* bound: tokens of a filter or subject MatchingExact compares

ASSUME LimitsAssumption == {MaxPending, MaxSubsPerConn, MaxSubsTotal, MaxLvcEntries, MaxLvcBytes} \subseteq Nat \ {0}
ASSUME BudgetsAssumption == Budgets \cup Sizes \subseteq Nat /\ NoQueue \in Queues
ASSUME BoundsAssumption == {MaxMsgs, MaxPublishes, MaxAccepts, MaxTokens} \subseteq Nat /\ Kinds \subseteq BOOLEAN
ASSUME SubjectsAssumption == Subjects \subseteq ValidSubjects /\ Filters \cup LvcFilters \subseteq ValidFilters

NoMax == -1
Keys == {ListOf(f) : f \in Filters} \cup {<<"global">>}

Sub == [conn : Conns, filter : Filters, lvc : Kinds, queue : Queues, sid : Sids,
        delivered : Nat, max : {NoMax} \cup 1 .. MaxMsgs]

\* mb_lvc_entry, and a frame of a message
Entry == [subject : Subjects, msg : Nat \ {0}, size : Sizes]
Frames == [sid : Sids, lvc : Kinds, subject : Subjects, msg : Nat \ {0}]

VARIABLES
    lists,        \* per key: the subscriptions, in list order
    count,        \* router.sub_count
    connSubs,     \* per connection: conn.sub_count
    cap,          \* kick_cap = close_cap = queue_cap
    cache,        \* router.lvc: entries in order of first publish
    lvcBytes,     \* lvc_payload_bytes
    open,         \* connections that are not closed
    out,          \* per connection: conn.out, the frames not yet taken by a write
    published, accepts,   \* history: bounded counters
    last,         \* history: subject and success of the last publish
    seen          \* history, per connection: [sid, subject -> message] of the last $LVC frame

vars == <<lists, count, connSubs, cap, cache, lvcBytes, open, out, published, accepts, last, seen>>

-----------------------------------------------------------------------------
(* The lists.                                                              *)

Subs == UNION {ToSet(lists[k]) : k \in Keys}

\* sub_list_remove_at
ListRemoveAt(list, i) == [j \in 1 .. Len(list) - 1 |-> IF j = i THEN list[Len(list)] ELSE list[j]]

\* A round of the loop of remove_for_conn_from_list, unsubscribe_from_list and
\* remove_delivered_max: an item of gone is removed, and its index looked at again.
RemoveRound(s, gone) ==
    IF s.items[s.i] \in gone THEN [items |-> ListRemoveAt(s.items, s.i), i |-> s.i]
    ELSE [items |-> s.items, i |-> s.i + 1]

\* The loop: scan[n] is the list and the index after n rounds.
RemoveWhere(list, gone) ==
    LET scan[n \in 0 .. Len(list)] ==
            IF n = 0 THEN [items |-> list, i |-> 1] ELSE RemoveRound(scan[n - 1], gone)
    IN  scan[Len(list)].items

\* How many subscriptions of connection c the function of lists ls holds.
Held(ls, c) == Cardinality(UNION {{<<k, i>> : i \in {j \in DOMAIN ls[k] : ls[k][j].conn = c}} : k \in Keys})

HeldAll(ls) == Cardinality(UNION {{<<k, i>> : i \in DOMAIN ls[k]} : k \in Keys})

Dec(n, by) == IF n > by THEN n - by ELSE 0

\* note_sub_removed, once for every subscription that is in ls and no longer in ls2.
NoteRemoved(ls, ls2) ==
    /\ count' = Dec(count, HeldAll(ls) - HeldAll(ls2))
    /\ connSubs' = [c \in Conns |-> Dec(connSubs[c], Held(ls, c) - Held(ls2, c))]

\* mb_router_remove_all_for, for the connections of gone.
RemoveAllFor(ls, gone) ==
    [k \in Keys |-> RemoveWhere(ls[k], {sub \in ToSet(ls[k]) : sub.conn \in gone})]

\* mb_router_unsubscribe
UnsubscribeIn(ls, c, sid, max) ==
    LET mine(sub) == sub.conn = c /\ sub.sid = sid
        drop(sub) == mine(sub) /\ (max = NoMax \/ max <= sub.delivered)
        limit(sub) == IF mine(sub) THEN [sub EXCEPT !.max = max] ELSE sub
        kept(k) == RemoveWhere(ls[k], {sub \in ToSet(ls[k]) : drop(sub)})
    IN  [k \in Keys |-> [i \in DOMAIN kept(k) |-> limit(kept(k)[i])]]

-----------------------------------------------------------------------------
(* The last-value cache.                                                   *)

IsStats(subject) == Len(subject) > 1 /\ subject[1] = "$STATS"

\* lvc_subject_enabled
LvcEnabled(subject) == \E f \in LvcFilters : SubjectMatches(f, subject)

\* lvc_stats_subject_enabled
LvcStatsEnabled(subject) == \E f \in LvcFilters : IsStats(f) /\ SubjectMatches(f, subject)

\* The subjects lvc_store keeps.
Cached(subject) == IF IsStats(subject) THEN LvcStatsEnabled(subject) ELSE LvcEnabled(subject)

Entries(subject) == {i \in DOMAIN cache : cache[i].subject = subject}

\* lvc_store: lvc_payload_bytes once subject's value has this size.
BytesWith(subject, size) ==
    lvcBytes + size - (IF Entries(subject) = {} THEN 0 ELSE cache[CHOOSE i \in Entries(subject) : TRUE].size)

\* lvc_store fails: too many bytes, or a new entry finds the cache full.
LvcRefuses(subject, size) ==
    /\ Cached(subject)
    /\ \/ BytesWith(subject, size) > MaxLvcBytes
       \/ Entries(subject) = {} /\ Len(cache) >= MaxLvcEntries

\* lvc_store succeeds, or does not concern the subject.
LvcStore(subject, msg, size) ==
    LET entry == [subject |-> subject, msg |-> msg, size |-> size]
    IN  /\ cache' = IF ~Cached(subject) THEN cache
                    ELSE IF Entries(subject) = {} THEN Append(cache, entry)
                    ELSE [i \in DOMAIN cache |-> IF i \in Entries(subject) THEN entry ELSE cache[i]]
        /\ lvcBytes' = IF Cached(subject) THEN BytesWith(subject, size) ELSE lvcBytes

\* mb_write_msg: what a subscriber is sent.
Frame(sub, subject, msg) == [sid |-> sub.sid, lvc |-> sub.lvc, subject |-> subject, msg |-> msg]

\* Mutant: the replay stops at the first entry that matches.
EmitCached_FirstOnly(sub, room) ==
    LET wanted(e) == LvcEnabled(e.subject) /\ SubjectMatches(sub.filter, e.subject)
        found == SelectSeq(cache, wanted)
        frames == [i \in 1 .. (IF found = <<>> THEN 0 ELSE 1) |-> Frame(sub, found[i].subject, found[i].msg)]
    IN  [ok |-> Len(frames) <= room, frames |-> IF room = 0 THEN <<>> ELSE frames]

\* The cached values a new $LVC subscription wants.
Wanted(sub, e) == LvcEnabled(e.subject) /\ SubjectMatches(sub.filter, e.subject)

\* emit_cached's loop, for one entry: it stops, with what it has written, when the output
\* is full.
EmitEntry(r, sub, e, room) ==
    IF ~r.ok \/ ~Wanted(sub, e) THEN r
    ELSE IF Len(r.frames) >= room THEN [ok |-> FALSE, frames |-> r.frames]
    ELSE [ok |-> TRUE, frames |-> Append(r.frames, Frame(sub, e.subject, e.msg))]

\* emit_cached
EmitCached(sub, room) ==
    LET sent[n \in 0 .. Len(cache)] ==
            IF n = 0 THEN [ok |-> TRUE, frames |-> <<>>]
            ELSE EmitEntry(sent[n - 1], sub, cache[n], room)
    IN  sent[Len(cache)]

\* History: what a $LVC frame changes in the latest message of each sid and subject.
Put(g, fr) == IF fr.lvc THEN [g EXCEPT ![fr.sid][fr.subject] = fr.msg] ELSE g

\* History: the latest message of each sid and subject after the frames fs.
Latest(f, fs) ==
    LET after[n \in 0 .. Len(fs)] == IF n = 0 THEN f ELSE Put(after[n - 1], fs[n])
    IN  after[Len(fs)]

NothingSeen == [s \in Sids |-> [x \in Subjects |-> 0]]

-----------------------------------------------------------------------------
Init ==
    /\ lists = [k \in Keys |-> <<>>] /\ count = 0
    /\ connSubs = [c \in Conns |-> 0] /\ cap = 0
    /\ cache = <<>> /\ lvcBytes = 0 /\ open = {}
    /\ out = [c \in Conns |-> <<>>]
    /\ published = 0 /\ accepts = 0 /\ last = [subject |-> <<>>, ok |-> FALSE]
    /\ seen = [c \in Conns |-> NothingSeen]

\* A connection is accepted: a fresh mb_router_conn (a closed one has been freed).
Accept(c) ==
    /\ c \notin open /\ accepts < MaxAccepts
    /\ accepts' = accepts + 1
    /\ open' = open \cup {c}
    /\ out' = [out EXCEPT ![c] = <<>>]
    /\ connSubs' = [connSubs EXCEPT ![c] = 0]
    /\ seen' = [seen EXCEPT ![c] = NothingSeen]
    /\ UNCHANGED <<lists, count, cap, cache, lvcBytes, published, last>>

\* Mutant: room for the subscriptions there are, not for the one being added.
ReservedCap_Late == IF cap >= count THEN cap ELSE IF cap = 0 THEN 1 ELSE 2 * cap

\* ensure_publish_capacity(sub_count + 1): mb_array_reserve doubles, starting at 1.
ReservedCap == IF cap >= count + 1 THEN cap ELSE IF cap = 0 THEN 1 ELSE 2 * cap

\* mb_router_subscribe_queue.  A replay that does not fit takes back every subscription of
\* the connection with this sid, not only the new one.
Subscribe(c, filter, lvc, queue, sid) ==
    /\ c \in open
    /\ lvc => LvcFilters # {}
    /\ connSubs[c] < MaxSubsPerConn /\ count < MaxSubsTotal
    /\ cap' = ReservedCap
    /\ LET sub    == [conn |-> c, filter |-> filter, lvc |-> lvc, queue |-> queue, sid |-> sid,
                      delivered |-> 0, max |-> NoMax]
           added  == [lists EXCEPT ![ListOf(filter)] = Append(@, sub)]
           replay == IF lvc THEN EmitCached(sub, MaxPending - Len(out[c])) ELSE [ok |-> TRUE, frames |-> <<>>]
           back   == UnsubscribeIn(added, c, sid, NoMax)
       IN  /\ lists' = IF replay.ok THEN added ELSE back
           /\ count' = IF replay.ok THEN count + 1 ELSE Dec(count + 1, HeldAll(added) - HeldAll(back))
           /\ connSubs' = [connSubs EXCEPT ![c] =
                             IF replay.ok THEN @ + 1 ELSE Dec(@ + 1, Held(added, c) - Held(back, c))]
           /\ out' = [out EXCEPT ![c] = @ \o replay.frames]
           /\ seen' = [seen EXCEPT ![c] = Latest(@, replay.frames)]
    /\ UNCHANGED <<cache, lvcBytes, open, published, accepts, last>>

\* UNSUB sid [max]
Unsubscribe(c, sid, max) ==
    /\ c \in open
    /\ lists' = UnsubscribeIn(lists, c, sid, max)
    /\ NoteRemoved(lists, lists')
    /\ UNCHANGED <<cap, cache, lvcBytes, open, out, published, accepts, last, seen>>

\* The connection's write takes the output (conn.c, see Conn).
Drain(c) ==
    /\ c \in open /\ out[c] # <<>>
    /\ out' = [out EXCEPT ![c] = <<>>]
    /\ UNCHANGED <<lists, count, connSubs, cap, cache, lvcBytes, open, published, accepts, last, seen>>

\* mb_conn_begin_close: mb_router_remove_all_for.  Nothing of a closed connection's output
\* is of interest any more.
BeginClose(c) ==
    /\ c \in open
    /\ open' = open \ {c}
    /\ lists' = RemoveAllFor(lists, {c})
    /\ NoteRemoved(lists, lists')
    /\ out' = [out EXCEPT ![c] = <<>>]
    /\ seen' = [seen EXCEPT ![c] = NothingSeen]
    /\ UNCHANGED <<cap, cache, lvcBytes, published, accepts, last>>

-----------------------------------------------------------------------------
(* Publish.  d is the progress of one publish: ls the lists, closed the    *)
(* connections it closed, frames what it wrote to each, left the writes    *)
(* until one fails, ok.                                                    *)

\* sub_deliverable
Deliverable(d, sub, subject) ==
    /\ sub.conn \in open \ d.closed
    /\ ListOf(sub.filter)[1] # "literal" => SubjectMatches(sub.filter, subject)
    /\ sub.lvc => LvcEnabled(subject)

\* Mutant: two groups with the same name are one, whatever their filters.
GroupOf_ByName(sub) == <<sub.lvc, sub.queue>>

\* queue_group_eq: what makes two subscriptions members of one group.
GroupOf(sub) == <<sub.lvc, sub.filter, sub.queue>>

\* collect_queue_delivery over a list: the index selected for each group.  The random choice
\* may end at any of its members: at pick[group] if that is one, else at the first.
QueueSelected(d, list, subject, pick) ==
    LET members(g) == {i \in DOMAIN list : /\ list[i].queue # NoQueue
                                           /\ Deliverable(d, list[i], subject)
                                           /\ GroupOf(list[i]) = g}
        groups == {GroupOf(list[i]) : i \in {j \in DOMAIN list : /\ list[j].queue # NoQueue
                                                                 /\ Deliverable(d, list[j], subject)}}
    IN  {IF pick[g] \in members(g) THEN pick[g] ELSE Min(members(g)) : g \in groups}

\* deliver_to_sub for the i-th item of list k.
DeliverTo(d, k, i, subject, msg) ==
    LET sub  == d.ls[k][i]
        full == Len(out[sub.conn]) + Len(d.frames[sub.conn]) >= MaxPending
        list == [d.ls[k] EXCEPT ![i] = [sub EXCEPT !.delivered = @ + 1]]
    IN  IF full THEN [d EXCEPT !.closed = @ \cup {sub.conn}]
        ELSE IF d.left = 0 THEN [d EXCEPT !.ok = FALSE]
        ELSE [d EXCEPT !.ls = [d.ls EXCEPT ![k] = list],
                       !.frames = [d.frames EXCEPT ![sub.conn] = Append(@, Frame(sub, subject, msg))],
                       !.left = @ - 1]

\* Mutant: an auto-unsubscribe limit is passed before it takes effect.
AtMax_Late(sub) == sub.max # NoMax /\ sub.delivered > sub.max

\* remove_delivered_max's test
AtMax(sub) == sub.max # NoMax /\ sub.delivered >= sub.max

\* The loop of deliver_matching_list, for the i-th item of list k.
DeliverItem(d, k, i, subject, msg, selected) ==
    IF /\ d.ok
       /\ Deliverable(d, d.ls[k][i], subject)
       /\ d.ls[k][i].queue = NoQueue \/ i \in selected
    THEN DeliverTo(d, k, i, subject, msg) ELSE d

\* The loop itself: done[n] is the progress after n items.
DeliverItems(d, k, subject, msg, selected) ==
    LET done[n \in 0 .. Len(d.ls[k])] ==
            IF n = 0 THEN d ELSE DeliverItem(done[n - 1], k, n, subject, msg, selected)
    IN  done[Len(d.ls[k])]

\* remove_delivered_max
RemoveDeliveredMax(d, k) ==
    [d EXCEPT !.ls = [d.ls EXCEPT ![k] = RemoveWhere(@, {sub \in ToSet(@) : AtMax(sub)})]]

\* deliver_matching_list, for a list there is.  It is left early when a write fails, not
\* without removing the subscriptions that have had their last message.
DeliverList(d, k, subject, msg, pick) ==
    IF ~d.ok \/ k \notin Keys THEN d
    ELSE RemoveDeliveredMax(DeliverItems(d, k, subject, msg, QueueSelected(d, d.ls[k], subject, pick)), k)

\* A publish from the state lists, out, open: its result.
Deliver(subject, msg, pick, budget) ==
    LET start == [ls |-> lists, closed |-> {}, frames |-> [c \in Conns |-> <<>>],
                  left |-> budget, ok |-> TRUE]
        next(d, n) == DeliverList(d, ListsFor(subject)[n], subject, msg, pick)
    IN  next(next(next(start, 1), 2), 3)

\* mb_router_publish_with_reply_and_options: store, deliver, then call back every connection
\* closed (close_fn is mb_conn_begin_close).
Publish(subject, size, pick, budget) ==
    /\ published < MaxPublishes
    /\ published' = published + 1
    /\ ~LvcRefuses(subject, size) /\ cap >= count
    /\ LET d == Deliver(subject, published', pick, budget)
       IN  /\ LvcStore(subject, published', size)
           /\ last' = [subject |-> subject, ok |-> d.ok]
           /\ open' = open \ d.closed
           /\ lists' = RemoveAllFor(d.ls, d.closed)
           /\ NoteRemoved(lists, lists')
           /\ out' = [c \in Conns |-> IF c \in d.closed THEN <<>> ELSE out[c] \o d.frames[c]]
           /\ seen' = [c \in Conns |-> IF c \in d.closed THEN NothingSeen ELSE Latest(seen[c], d.frames[c])]
    /\ UNCHANGED <<cap, accepts>>

\* The same call when it returns early, with nothing delivered: the cache is full, or the
\* scratch arrays are too small, which is found after the value has been stored.
PublishRefused(subject, size) ==
    /\ published < MaxPublishes
    /\ published' = published + 1
    /\ last' = [subject |-> subject, ok |-> FALSE]
    /\ IF LvcRefuses(subject, size) THEN UNCHANGED <<cache, lvcBytes>>
       ELSE cap < count /\ LvcStore(subject, published', size)
    /\ UNCHANGED <<lists, count, connSubs, cap, open, out, accepts, seen>>

-----------------------------------------------------------------------------
AcceptSome == \E c \in Conns : Accept(c)
SubscribeSome == \E c \in Conns, f \in Filters, l \in Kinds, q \in Queues, s \in Sids : Subscribe(c, f, l, q, s)
UnsubscribeSome == \E c \in Conns, s \in Sids, m \in {NoMax} \cup 1 .. MaxMsgs : Unsubscribe(c, s, m)
DrainSome == \E c \in Conns : Drain(c)
CloseSome == \E c \in Conns : BeginClose(c)

\* The free choices that stand for queue_random: for every queue group there is, the
\* place of a member.
Picks == LET groups == {GroupOf(sub) : sub \in {s \in Subs : s.queue # NoQueue}}
         IN  {p \in [groups -> 1 .. MaxSubsTotal] :
                 \A g \in groups : \E k \in Keys : p[g] \in {i \in DOMAIN lists[k] : GroupOf(lists[k][i]) = g}}
PublishSome == \E x \in Subjects, n \in Sizes, b \in Budgets, p \in Picks : Publish(x, n, p, b)

RefuseSome == \E x \in Subjects, n \in Sizes : PublishRefused(x, n)

Next == AcceptSome \/ SubscribeSome \/ UnsubscribeSome \/ DrainSome \/ CloseSome \/ PublishSome \/ RefuseSome

Spec == Init /\ [][Next]_vars

-----------------------------------------------------------------------------
(* Properties.                                                             *)

\* Type invariant: the lists hold subscriptions, and the limits on subscriptions and
\* pending output are kept.
TypeOK ==
    /\ lists \in [Keys -> Seq(Sub)]
    /\ count \in 0 .. MaxSubsTotal
    /\ connSubs \in [Conns -> 0 .. MaxSubsPerConn]
    /\ cap \in Nat
    /\ cache \in Seq(Entry) /\ lvcBytes \in Nat
    /\ open \subseteq Conns
    /\ out \in [Conns -> Seq(Frames)]
    /\ \A c \in Conns : Len(out[c]) <= MaxPending
    /\ published \in 0 .. MaxPublishes /\ \A i \in 1 .. Len(cache) : cache[i].msg <= published
    /\ seen \in [Conns -> [Sids -> [Subjects -> Nat]]]

\* The counters the limits are enforced with agree with the lists after any sequence of
\* SUB, UNSUB, auto-unsubscribe, disconnects and refused replays; a subscription's connection
\* is open (a closed one is freed memory), and one that has had its last message is gone, even
\* when the publish failed halfway.
RegistryExact ==
    /\ count = HeldAll(lists)
    /\ \A c \in open : connSubs[c] = Held(lists, c)
    /\ \A sub \in Subs : sub.conn \in open /\ (sub.max = NoMax \/ sub.delivered < sub.max)

\* The payload bytes of the entries of a cache.
TotalSize(entries) ==
    LET sum[n \in 0 .. Len(entries)] == IF n = 0 THEN 0 ELSE sum[n - 1] + entries[n].size
    IN  sum[Len(entries)]

\* lvc_payload_bytes, which is only ever adjusted by the difference a publish makes, is what
\* the entries hold, however often they were replaced; both limits of the cache are kept, and
\* no subject has two entries.
CacheAccounted ==
    /\ lvcBytes = TotalSize(cache) /\ lvcBytes <= MaxLvcBytes /\ Len(cache) <= MaxLvcEntries
    /\ \A i, j \in DOMAIN cache : cache[i].subject = cache[j].subject => i = j

\* The scratch arrays of a publish have an entry for every connection it may kick (an
\* unchecked store, deliver_to_sub) and for every queue group.
ScratchFits == Cardinality({sub.conn : sub \in Subs}) <= cap /\ count <= cap

\* What a publish has added to the outputs, counted against the subscriptions there were.
DeliversExactly ==
    LET at(m) == lists[m[1]][m[2]]
        match == {m \in UNION {{<<k, i>> : i \in DOMAIN lists[k]} : k \in Keys} :
                     /\ SubjectMatches(at(m).filter, last'.subject)
                     /\ at(m).lvc => LvcEnabled(last'.subject)}
        plain == {m \in match : at(m).queue = NoQueue}
        groups == {<<at(m).lvc, at(m).filter, at(m).queue>> : m \in match \ plain}
        of(S, c, s, l) == Cardinality({m \in S : at(m).conn = c /\ at(m).sid = s /\ at(m).lvc = l})
        new(c) == Len(out[c]) + 1 .. Len(out'[c])
        got(c, s, l) == Cardinality({i \in new(c) : out'[c][i].sid = s /\ out'[c][i].lvc = l})
        total == Cardinality(UNION {{<<c, i>> : i \in new(c)} : c \in Conns})
    IN  published' # published /\ last'.ok =>
          /\ \A c \in open', s \in Sids, l \in Kinds :
                got(c, s, l) \in of(plain, c, s, l) .. of(match, c, s, l)
          /\ open' = open => total = Cardinality(plain) + Cardinality(groups)

\* A publish that reports success puts one frame per ordinary matching subscription and
\* one per matching queue group on the wire, and no other; a connection that overflows
\* takes nothing from the ordinary subscriptions of the others.
ExactDelivery == [][DeliversExactly]_vars

\* An ordinary $LVC subscription's view converges: for every cached subject it matches, the
\* last frame written for it is the cached value, whether it came by replay or live, in
\* whatever order SUB, UNSUB and publishes were interleaved.
LvcConverges ==
    \A sub \in Subs : sub.lvc /\ sub.queue = NoQueue =>
        \A i \in DOMAIN cache :
            LvcEnabled(cache[i].subject) /\ SubjectMatches(sub.filter, cache[i].subject) =>
                seen[sub.conn][sub.sid][cache[i].subject] = cache[i].msg

AllSubjects == UNION {[1 .. n -> Words] : n \in 1 .. MaxTokens}
AllFilters  == {f \in UNION {[1 .. n -> Words \cup {Star, FullWild}] : n \in 1 .. MaxTokens} :
                   \A i \in 1 .. Len(f) - 1 : f[i] # FullWild}
AllMatchAsTheyFit == \A filter \in AllFilters, subject \in AllSubjects : MatchesAsItFits(filter, subject)

\* subject_matches, a loop over two cursors, decides the declarative relation: the documented
\* one, and an empty rest for a ">" at the end of the filter as the only exception to it.  The
\* router's three lists lose and add nothing: a publish selects exactly the subscriptions that
\* fit, although it tests no literal filter and reads only two buckets and the global list.
\* The operators do not depend on the state, so it is asked of the initial one only.
MatchingExact == Init => AllMatchAsTheyFit

\* What docs/patchbay.md:384 and docs/AGENTS_PATCHBAY.md:46 say of the matching, where ">" is
\* one or more tokens.  It does not hold: subject_matches lets a.> match a.
MatchingAsDocumented ==
    Init => \A filter \in AllFilters, subject \in AllSubjects :
                SubjectMatches(filter, subject) <=> FitsAsDocumented(filter, subject)
=============================================================================
