---------------------------- MODULE RouterIndex ----------------------------
(***************************************************************************)
(* How the router finds a list of subscriptions, src/router.c: an array of *)
(* buckets, one per literal subject (or first token, or cached subject),   *)
(* and an open-addressing hash index into it that is rebuilt when it is    *)
(* half full and refreshed when a bucket is removed.  The code has this    *)
(* structure three times (literal_, wildcard_, lvc_; the last removes      *)
(* nothing).  Router takes the lists as a function; here is what makes     *)
(* them one.  A bucket is its key and the number of its subscriptions.     *)
(***************************************************************************)
EXTENDS OpenIndex

CONSTANTS Key,
          Hashes,      \* values of mb_slice_hash
          MaxPerBucket \* bound: subscriptions of a bucket

ASSUME IndexAssumption == Hashes \subseteq Nat /\ MaxPerBucket \in Nat

VARIABLES buckets,   \* router.literal, the first literal_len
          slots,     \* router.literal_index: 0 .. cap - 1 to entries; empty for no index
          hashOf     \* mb_slice_hash on Key, any function

indexVars == <<buckets, slots, hashOf>>

\* An index of this capacity for the buckets b: the loops of literal_index_ensure and of
\* literal_index_refresh.
Indexed(b, cap) == NewIndex([i \in DOMAIN b |-> hashOf[b[i].key]], cap)

\* literal_index_find
Find(k) == IndexFind(slots, hashOf[k], {i \in DOMAIN buckets : buckets[i].key = k})

\* Mutant: the index is not kept half empty.
IndexEnsure_Full(needed) ==
    IF Cap(slots) # 0 /\ needed <= Cap(slots) THEN slots ELSE Indexed(buckets, NextIndexCap(needed))

\* literal_index_ensure, when it succeeds
IndexEnsure(needed) ==
    IF Cap(slots) # 0 /\ needed < Cap(slots) \div 2 THEN slots
    ELSE Indexed(buckets, NextIndexCap(4 * needed))

-----------------------------------------------------------------------------
\* A subscription is added to the bucket of k (mb_router_subscribe_queue), which exists.
Join(k) ==
    /\ Find(k) > 0
    /\ buckets[Find(k)].n < MaxPerBucket
    /\ buckets' = [buckets EXCEPT ![Find(k)].n = @ + 1]
    /\ UNCHANGED <<slots, hashOf>>

\* literal_bucket makes the bucket; sub_list_append may still fail and leave it empty.
Create(k, n) ==
    /\ Find(k) = 0
    /\ slots' = IndexInsert(IndexEnsure(Len(buckets) + 1), hashOf[k], Len(buckets) + 1)
    /\ buckets' = Append(buckets, [key |-> k, n |-> n])
    /\ UNCHANGED hashOf

\* literal_bucket fails after the index was made ready: no room for the bucket, or no copy
\* of the key.
CreateFails(k) ==
    /\ Find(k) = 0
    /\ slots' = IndexEnsure(Len(buckets) + 1)
    /\ UNCHANGED <<buckets, hashOf>>

\* A publish finds k's bucket and removes the subscriptions that have had their last
\* message (remove_delivered_max); an emptied bucket stays.
DeliverLast(k) ==
    /\ Find(k) > 0 /\ buckets[Find(k)].n > 0
    /\ \E n \in 0 .. buckets[Find(k)].n - 1 : buckets' = [buckets EXCEPT ![Find(k)].n = n]
    /\ UNCHANGED <<slots, hashOf>>

\* The loop over the buckets of mb_router_unsubscribe and mb_router_remove_all_for: an empty
\* bucket is removed, the last one takes its place and is looked at next.
Swept(b) ==
    LET scan[r \in 0 .. Len(b)] ==
            IF r = 0 THEN [items |-> b, i |-> 1]
            ELSE LET s == scan[r - 1]
                     last == s.items[Len(s.items)]
                 IN  IF s.items[s.i].n > 0 THEN [s EXCEPT !.i = @ + 1]
                     ELSE [s EXCEPT !.items = Front([s.items EXCEPT ![s.i] = last])]
    IN  scan[Len(b)].items

\* literal_index_refresh, at the end of remove_literal_bucket_at.
Refresh(old, new) == IF old = new THEN slots ELSE Indexed(new, Cap(slots))

\* mb_router_unsubscribe or mb_router_remove_all_for leaves left[i] of the i-th bucket's
\* subscriptions.
RemoveSubs(left) ==
    LET fewer == [i \in DOMAIN buckets |-> [buckets[i] EXCEPT !.n = left[i]]]
    IN  /\ buckets' = Swept(fewer)
        /\ slots' = Refresh(fewer, buckets')
        /\ UNCHANGED hashOf

IndexInit == buckets = <<>> /\ slots = <<>> /\ hashOf \in [Key -> Hashes]

RemoveSome ==
    \E left \in [DOMAIN buckets -> 0 .. MaxPerBucket] :
        /\ \A i \in DOMAIN buckets : left[i] <= buckets[i].n
        /\ RemoveSubs(left)

IndexNext ==
    \/ \E k \in Key : Join(k) \/ CreateFails(k) \/ DeliverLast(k)
    \/ \E k \in Key, n \in {0, 1} : Create(k, n)
    \/ RemoveSome

IndexSpec == IndexInit /\ [][IndexNext]_indexVars

-----------------------------------------------------------------------------
\* Whatever was subscribed, removed and swapped, and wherever an allocation failed: a lookup
\* ends, it finds the one bucket of its key if there is one and nothing otherwise, and at
\* least half of the slots are free.
IndexExact ==
    /\ \A k \in Key : LET at == {i \in DOMAIN buckets : buckets[i].key = k}
                      IN  IF Find(k) = 0 THEN at = {} ELSE at = {Find(k)}
    /\ slots # <<>> => 2 * Len(buckets) <= Cap(slots)
=============================================================================
