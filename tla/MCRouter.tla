----------------------------- MODULE MCRouter -----------------------------
(***************************************************************************)
(* Router and RouterIndex for TLC, in three instances that share the run:  *)
(* "groups" has two connections, ordinary subscriptions, queue groups,     *)
(* limits and failing writes; "cache" one connection, $LVC and ordinary    *)
(* subscriptions without limits and a small cache; "index" the index       *)
(* alone.  The matching of Subject is compared with its declarative        *)
(* reference for every filter and subject of bounded length.               *)
(***************************************************************************)
EXTENDS Router, RouterIndex

CONSTANT MaxGroupPublishes  \* bound: messages published in "groups"

VARIABLE instance

routerVars == <<vars, indexVars, instance>>

ConnSymmetry == Permutations(Conns)

GroupSubjects == {<<"a", "x">>}
GroupFilters  == {<<"a", ">">>, <<"a", "*">>}
GroupSubs     == {fq \in GroupFilters \X Queues : fq[2] = NoQueue => fq[1] = <<"a", ">">>}
CacheSubjects == {<<"a">>, <<"b">>, <<"$STATS", "a">>}
CacheFilters  == {<<"a">>, <<">">>}
BothSubjects  == GroupSubjects \cup CacheSubjects
BothFilters   == GroupFilters \cup CacheFilters
NarrowLvc     == {<<"a">>, <<"*">>, <<"$STATS", ">">>}

\* Every instance starts from both initial states and leaves one of them.  The keys are
\* interchangeable, so it is enough to give them hashes in ascending order.
MCInit ==
    /\ Init
    /\ instance \in {"groups", "cache", "index"}
    /\ IndexInit
    /\ \A k, l \in Key : k < l => hashOf[k] <= hashOf[l]
    /\ instance # "index" => \A k \in Key : hashOf[k] = Min(Hashes)

GroupsNext ==
    /\ instance = "groups"
    /\ \/ AcceptSome \/ UnsubscribeSome \/ DrainSome \/ CloseSome
       \/ \E c \in Conns, fq \in GroupSubs, s \in Sids : Subscribe(c, fq[1], FALSE, fq[2], s)
       \/ \E x \in GroupSubjects, b \in Budgets, p \in Picks :
             published < MaxGroupPublishes /\ Publish(x, 1, p, b)

CacheNext ==
    /\ instance = "cache"
    /\ \/ accepts = 0 /\ AcceptSome
       \/ DrainSome \/ CloseSome \/ \E c \in Conns, s \in Sids : Unsubscribe(c, s, NoMax)
       \/ \E c \in Conns, f \in CacheFilters, l \in Kinds, s \in Sids : Subscribe(c, f, l, NoQueue, s)
       \/ \E x \in CacheSubjects, n \in Sizes, p \in Picks : Publish(x, n, p, Max(Budgets))
       \/ \E x \in CacheSubjects, n \in Sizes : PublishRefused(x, n)

MCNext ==
    \/ (GroupsNext \/ CacheNext) /\ UNCHANGED <<indexVars, instance>>
    \/ instance = "index" /\ IndexNext /\ UNCHANGED <<vars, instance>>

MCSpec == MCInit /\ [][MCNext]_routerVars
=============================================================================
