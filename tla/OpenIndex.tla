----------------------------- MODULE OpenIndex -----------------------------
(***************************************************************************)
(* The open-addressing hash index the router (src/router.c) and the rule   *)
(* state (src/patchbay/pb_eval.c) both keep into an array: a function from *)
(* 0 .. cap - 1 to entries, empty for no index.  Capacities are powers of  *)
(* two times MinCap, so the code's masks are remainders.                   *)
(***************************************************************************)
EXTENDS Integers, Sequences, SequencesExt, FiniteSetsExt

CONSTANT MinCap    \* the smallest index, 16

ASSUME MinCapAssumption == MinCap \in Nat \ {0}

Unoccupied == [hash |-> 0, index |-> 0]
Cap(s) == Cardinality(DOMAIN s)

\* The slot j steps after the one of hash h: after the last slot comes the first.
Slot(s, h, j) == LET at == (h % Cap(s)) + j IN IF at < Cap(s) THEN at ELSE at - Cap(s)

Probe(s, h, j) == s[Slot(s, h, j)]

\* next_index_cap: doubled until it is enough, which takes no more than needed rounds.
NextIndexCap(needed) ==
    LET after[round \in 0 .. needed] ==
            IF round = 0 THEN MinCap
            ELSE LET cap == after[round - 1] IN IF cap < needed THEN 2 * cap ELSE cap
    IN  after[needed]

\* index_insert: the first free slot (the code does not return if there is none).
IndexInsert(s, h, i) ==
    LET free == {j \in 0 .. Cap(s) - 1 : Probe(s, h, j).index = 0}
    IN  IF free = {} THEN s ELSE [s EXCEPT ![Slot(s, h, Min(free))] = [hash |-> h, index |-> i]]

\* A new index of this capacity for items with these hashes: the loops that rebuild one.
NewIndex(hashes, cap) ==
    LET upTo[i \in 0 .. Len(hashes)] ==
            IF i = 0 THEN [j \in 0 .. cap - 1 |-> Unoccupied] ELSE IndexInsert(upTo[i - 1], hashes[i], i)
    IN  upTo[Len(hashes)]

\* The loop of a lookup: the place of an item with this hash and the key sought, which those
\* at the places same have; 0 for none, -1 for a loop that never ends.
IndexFind(s, h, same) ==
    LET entry(j) == Probe(s, h, j)
        stops == {j \in 0 .. Cap(s) - 1 : \/ entry(j).index = 0
                                          \/ entry(j).hash = h /\ entry(j).index \in same}
    IN  IF s = <<>> THEN 0 ELSE IF stops = {} THEN -1 ELSE entry(Min(stops)).index
=============================================================================
