---------------------------- MODULE RouterProofs ----------------------------
(***************************************************************************)
(* Proofs about Router: the subject matcher, the subscription registry and *)
(* its caps, what a publish delivers, the last-value cache and what a      *)
(* subscriber makes of it; and about RouterIndex, the hash index the lists *)
(* are found with.                                                         *)
(* The loops of the code are recursive functions in the model; what holds  *)
(* of each after n turns is an operator here, a lemma says that one turn   *)
(* keeps it, and Recursion that the loop then ends with it.                *)
(***************************************************************************)
EXTENDS Router, RouterIndex, FiniteSetTheorems, SequenceTheorems, WellFoundedInduction, TLAPS

-----------------------------------------------------------------------------
(* Induction and recursion.  The library's theorems take an operator, which *)
(* a backend cannot find; these take a set, or a function.                  *)

\* A set of naturals that is not empty has a least element.
LEMMA LeastNumber ==
  ASSUME NEW P, P \subseteq Nat, P # {}
  PROVE  \E m \in P : \A k \in P : ~(k < m)
<1>1. \E x \in P : \A y \in P : ~ (<<y, x>> \in OpToRel(<,Nat))
  BY NatLessThanWellFounded, WFMin
<1> QED BY <1>1 DEF OpToRel

\* Induction on 0 .. N, for a set.
LEMMA Induction ==
  ASSUME NEW P, NEW N \in Nat, 0 \in P, \A n \in 1 .. N : n - 1 \in P => n \in P
  PROVE  0 .. N \subseteq P
<1>1. SUFFICES ASSUME (0 .. N) \ P # {} PROVE FALSE
  OBVIOUS
<1>2. PICK m \in (0 .. N) \ P : \A k \in (0 .. N) \ P : ~(k < m)
  <2>1. (0 .. N) \ P \subseteq Nat
    OBVIOUS
  <2> QED BY <1>1, <2>1, LeastNumber, Zenon
<1>3. m \in 1 .. N /\ m - 1 \in 0 .. N /\ m - 1 < m
  BY <1>2
<1> QED BY <1>2, <1>3

\* The least of a set of numbers.
LEMMA MinIs ==
  ASSUME NEW S, S \subseteq Nat, S # {}
  PROVE  Min(S) \in S /\ \A x \in S : Min(S) <= x
<1>1. \E m \in S : \A k \in S : ~(k < m)
  BY LeastNumber
<1>2. \E m \in S : \A k \in S : m <= k
  BY <1>1
<1> QED BY <1>2, Zenon DEF Min

\* An induction over the values of a function of 0 .. N.
LEMMA Stays ==
  ASSUME NEW N \in Nat, NEW T, NEW h, h[0] \in T[0], \A n \in 1 .. N : h[n - 1] \in T[n - 1] => h[n] \in T[n]
  PROVE  \A n \in 0 .. N : h[n] \in T[n]
<1> DEFINE P == {n \in 0 .. N : h[n] \in T[n]}
<1>1. 0 \in P
  OBVIOUS
<1>2. \A n \in 1 .. N : n - 1 \in P => n \in P
  OBVIOUS
<1>3. 0 .. N \subseteq P
  <2> HIDE DEF P
  <2> QED BY <1>1, <1>2, Induction
<1> QED BY <1>3

\* g is the recursive function of 0 .. N with g[0] = s0 whose n-th value F gives from the one before.
IsRun(g, N, s0, F) == g = [n \in 0 .. N |-> IF n = 0 THEN s0 ELSE F[<<n, g[n - 1]>>]]

\* There is one, if F leads from every value in T[n - 1] to one in T[n].
LEMMA Recursion ==
  ASSUME NEW N \in Nat, NEW T, NEW F, NEW s0 \in T[0],
         \A n \in 1 .. N : \A s \in T[n - 1] : F[<<n, s>>] \in T[n]
  PROVE  \E g : IsRun(g, N, s0, F) /\ \A n \in 0 .. N : g[n] \in T[n]
<1> DEFINE Good(g, m) == /\ g = [n \in 0 .. m |-> IF n = 0 THEN s0 ELSE F[<<n, g[n - 1]>>]]
                         /\ \A n \in 0 .. m : g[n] \in T[n]
           P == {m \in Nat : \E g : Good(g, m)}
<1>1. 0 \in P
  <2>1. Good([n \in 0 .. 0 |-> s0], 0)
    OBVIOUS
  <2> QED BY <2>1
<1>2. ASSUME NEW m \in 1 .. N, m - 1 \in P PROVE m \in P
  <2>1. PICK g : Good(g, m - 1)
    BY <1>2
  <2> DEFINE h == [n \in 0 .. m |-> IF n = m THEN F[<<m, g[m - 1]>>] ELSE g[n]]
  <2>2. \A n \in 0 .. m - 1 : g[n] = (IF n = 0 THEN s0 ELSE F[<<n, g[n - 1]>>]) /\ g[n] \in T[n]
    <3> HIDE DEF P
    <3> QED BY <2>1
  <2>3. \A n \in 0 .. m - 1 : n \in 0 .. m /\ n # m /\ (n # 0 => n - 1 \in 0 .. m - 1) /\ h[n] = g[n]
    OBVIOUS
  <2>4. h[m] = F[<<m, g[m - 1]>>] /\ m # 0 /\ m - 1 \in 0 .. m - 1
    OBVIOUS
  <2> HIDE DEF Good, P
  <2>5. h = [n \in 0 .. m |-> IF n = 0 THEN s0 ELSE F[<<n, h[n - 1]>>]]
    <3>1. SUFFICES ASSUME NEW n \in 0 .. m PROVE h[n] = IF n = 0 THEN s0 ELSE F[<<n, h[n - 1]>>]
      OBVIOUS
    <3> HIDE DEF h
    <3>2. CASE n = m
      BY <2>3, <2>4, <3>2
    <3>3. CASE n # m
      <4>1. n \in 0 .. m - 1
        BY <3>3
      <4> QED BY <2>2, <2>3, <4>1
    <3> QED BY <3>2, <3>3
  <2>6. ASSUME NEW n \in 0 .. m PROVE h[n] \in T[n]
    <3> HIDE DEF h
    <3>1. CASE n = m
      BY <2>2, <2>4, <3>1
    <3>2. CASE n # m
      <4>1. n \in 0 .. m - 1
        BY <3>2
      <4> QED BY <2>2, <2>3, <4>1
    <3> QED BY <3>1, <3>2
  <2>7. Good(h, m)
    BY <2>5, <2>6 DEF Good
  <2> HIDE DEF h
  <2> QED BY <2>7 DEF P
<1> HIDE DEF Good
<1>3. N \in P
  <2> HIDE DEF P
  <2>1. 0 .. N \subseteq P
    BY <1>1, <1>2, Induction
  <2> QED BY <2>1
<1> QED BY <1>3 DEF Good, IsRun

-----------------------------------------------------------------------------
(* Removal.                                                                *)

\* f places every item of new in list, no two at the same place, and leaves out only
\* items of gone.
Places(f, list, gone, new) ==
    /\ f \in [1 .. Len(new) -> 1 .. Len(list)]
    /\ \A j \in 1 .. Len(new) : new[j] = list[f[j]]
    /\ \A j, l \in 1 .. Len(new) : f[j] = f[l] => j = l
    /\ \A x \in 1 .. Len(list) : list[x] \notin gone => \E j \in 1 .. Len(new) : f[j] = x

\* What holds of the list and the index after n rounds of RemoveWhere.
Rounds(E, list, gone, n) ==
    {s \in [items : Seq(E), i : Nat \ {0}] :
        /\ Len(s.items) - s.i + 1 = Len(list) - n
        /\ \A j \in 1 .. s.i - 1 : j <= Len(s.items) => s.items[j] \notin gone
        /\ \E f : Places(f, list, gone, s.items)}

\* sub_list_remove_at: the last item takes the place of the one removed.
LEMMA RemoveAtProps ==
  ASSUME NEW E, NEW list \in Seq(E), NEW i \in 1 .. Len(list)
  PROVE  /\ ListRemoveAt(list, i) \in Seq(E)
         /\ Len(ListRemoveAt(list, i)) = Len(list) - 1
         /\ \A j \in 1 .. Len(list) - 1 :
               ListRemoveAt(list, i)[j] = IF j = i THEN list[Len(list)] ELSE list[j]
<1>1. Len(list) - 1 \in Nat
  OBVIOUS
<1>2. \A j \in 1 .. Len(list) - 1 : (IF j = i THEN list[Len(list)] ELSE list[j]) \in E
  BY ElementOfSeq
<1> QED BY <1>1, <1>2 DEF ListRemoveAt

\* One turn of the loop of remove_where keeps what holds of its first n turns.
LEMMA RoundKeeps ==
  ASSUME NEW E, NEW list \in Seq(E), NEW gone, NEW n \in 1 .. Len(list),
         NEW s \in Rounds(E, list, gone, n - 1)
  PROVE  RemoveRound(s, gone) \in Rounds(E, list, gone, n)
<1>1. /\ s \in [items : Seq(E), i : Nat \ {0}]
      /\ Len(s.items) - s.i + 1 = Len(list) - (n - 1)
      /\ \A j \in 1 .. s.i - 1 : j <= Len(s.items) => s.items[j] \notin gone
      /\ \E f : Places(f, list, gone, s.items)
  BY DEF Rounds
<1> DEFINE it == s.items
           i == s.i
<1>2. it \in Seq(E) /\ i \in Nat \ {0}
  BY <1>1
<1>3. i \in 1 .. Len(it) /\ Len(it) \in Nat
  BY <1>1, <1>2
<1>4. PICK f : Places(f, list, gone, it)
  BY <1>1
<1> HIDE DEF it, i
<1>5. CASE it[i] \in gone
  <2> DEFINE new == ListRemoveAt(it, i)
             g == [j \in 1 .. Len(it) - 1 |-> IF j = i THEN f[Len(it)] ELSE f[j]]
  <2>1. /\ new \in Seq(E) /\ Len(new) = Len(it) - 1
        /\ \A j \in 1 .. Len(it) - 1 : new[j] = IF j = i THEN it[Len(it)] ELSE it[j]
    BY <1>2, <1>3, RemoveAtProps
  <2> HIDE DEF new
  <2>2. Places(g, list, gone, new)
    <3>1. g \in [1 .. Len(new) -> 1 .. Len(list)]
      BY <1>3, <1>4, <2>1, SMTT(30) DEF Places
    <3>2. \A j \in 1 .. Len(new) : new[j] = list[g[j]]
      BY <1>3, <1>4, <2>1 DEF Places
    <3>3. \A j, l \in 1 .. Len(new) : g[j] = g[l] => j = l
      BY <1>3, <1>4, <2>1 DEF Places
    <3>4. ASSUME NEW x \in 1 .. Len(list), list[x] \notin gone
          PROVE  \E j \in 1 .. Len(new) : g[j] = x
      <4>1. PICK j \in 1 .. Len(it) : f[j] = x
        BY <1>4, <3>4 DEF Places
      <4>2. j # i
        BY <1>4, <1>5, <3>4, <4>1 DEF Places
      <4>3. CASE j = Len(it)
        <5>1. i \in 1 .. Len(it) - 1
          BY <1>3, <4>2, <4>3
        <5> QED BY <2>1, <4>1, <4>3, <5>1
      <4>4. CASE j # Len(it)
        <5>1. j \in 1 .. Len(it) - 1
          BY <1>3, <4>4
        <5> QED BY <2>1, <4>1, <4>2, <5>1
      <4> QED BY <4>3, <4>4
    <3> QED BY <3>1, <3>2, <3>3, <3>4 DEF Places
  <2>3. RemoveRound(s, gone) = [items |-> new, i |-> i]
    BY <1>5 DEF RemoveRound, it, i, new
  <2>4. Len(new) - i + 1 = Len(list) - n
    BY <1>1, <2>1, <1>3 DEF it, i
  <2>5. \A j \in 1 .. i - 1 : j <= Len(new) => new[j] \notin gone
    <3>1. \A j \in 1 .. i - 1 : j <= Len(it) => it[j] \notin gone
      BY <1>1 DEF it, i
    <3> QED BY <1>3, <2>1, <3>1
  <2> HIDE DEF g
  <2> QED BY <1>2, <2>1, <2>2, <2>3, <2>4, <2>5, SMTT(30) DEF Rounds
<1>6. CASE it[i] \notin gone
  <2>1. RemoveRound(s, gone) = [items |-> it, i |-> i + 1]
    BY <1>6 DEF RemoveRound, it, i
  <2>2. Len(it) - (i + 1) + 1 = Len(list) - n
    BY <1>1, <1>3 DEF it, i
  <2>3. \A j \in 1 .. i : j <= Len(it) => it[j] \notin gone
    <3>1. \A j \in 1 .. i - 1 : j <= Len(it) => it[j] \notin gone
      BY <1>1 DEF it, i
    <3> QED BY <1>3, <1>6, <3>1
  <2> QED BY <1>2, <1>4, <2>1, <2>2, <2>3, SMTT(30) DEF Rounds
<1> QED BY <1>5, <1>6

\* What RemoveWhere returns: the items that are not in gone, each once.
LEMMA RemoveWhereProps ==
  ASSUME NEW E, NEW list \in Seq(E), NEW gone
  PROVE  /\ RemoveWhere(list, gone) \in Seq(E)
         /\ \A j \in 1 .. Len(RemoveWhere(list, gone)) : RemoveWhere(list, gone)[j] \notin gone
         /\ \E f : Places(f, list, gone, RemoveWhere(list, gone))
<1> DEFINE N == Len(list)
           s0 == [items |-> list, i |-> 1]
           T == [n \in 0 .. N |-> Rounds(E, list, gone, n)]
           F == [p \in (1 .. N) \X [items : Seq(E), i : Nat \ {0}] |-> RemoveRound(p[2], gone)]
<1>1. N \in Nat
  OBVIOUS
<1>2. s0 \in T[0]
  <2>1. Places([j \in 1 .. Len(list) |-> j], list, gone, list)
    BY DEF Places
  <2>2. s0 \in Rounds(E, list, gone, 0)
    <3> HIDE DEF T, F
    <3> QED BY <2>1 DEF Rounds
  <2> QED BY <1>1, <2>2
<1>3. ASSUME NEW n \in 1 .. N, NEW s \in T[n - 1]
      PROVE  F[<<n, s>>] = RemoveRound(s, gone) /\ F[<<n, s>>] \in T[n]
  <2>1. s \in Rounds(E, list, gone, n - 1)
    BY <1>1
  <2>2. s \in [items : Seq(E), i : Nat \ {0}]
    BY <2>1 DEF Rounds
  <2>3. F[<<n, s>>] = RemoveRound(s, gone)
    BY <2>2
  <2>4. RemoveRound(s, gone) \in T[n]
    BY <1>1, <2>1, RoundKeeps
  <2> HIDE DEF T, F
  <2> QED BY <2>3, <2>4
<1> HIDE DEF N, T, F
<1> HIDE DEF s0
<1>4. PICK g : IsRun(g, N, s0, F) /\ \A n \in 0 .. N : g[n] \in T[n]
  <2>1. \A n \in 1 .. N : \A s \in T[n - 1] : F[<<n, s>>] \in T[n]
    BY <1>3
  <2> QED BY <1>1, <1>2, <2>1, Recursion
<1>5. g = [n \in 0 .. N |-> IF n = 0 THEN s0 ELSE RemoveRound(g[n - 1], gone)]
  <2>1. \A n \in 0 .. N : n # 0 => n \in 1 .. N /\ n - 1 \in 0 .. N
    BY <1>1
  <2>2. \A n \in 0 .. N : n # 0 => F[<<n, g[n - 1]>>] = RemoveRound(g[n - 1], gone)
    BY <1>3, <1>4, <2>1
  <2> QED BY <1>4, <2>2 DEF IsRun
<1>6. PICK h : /\ h = [n \in 0 .. N |-> IF n = 0 THEN s0 ELSE RemoveRound(h[n - 1], gone)]
               /\ RemoveWhere(list, gone) = h[N].items
  BY <1>5, Zenon DEF RemoveWhere, N, s0
<1>7. \A n \in 0 .. N : h[n] \in T[n]
  <2> DEFINE P == {n \in 0 .. N : h[n] \in T[n]}
  <2>1. 0 \in P
    BY <1>1, <1>2, <1>6
  <2>2. ASSUME NEW n \in 1 .. N, n - 1 \in P PROVE n \in P
    <3>1. h[n] = RemoveRound(h[n - 1], gone)
      BY <1>1, <1>6, <2>2
    <3>2. h[n - 1] \in T[n - 1] /\ n \in 0 .. N
      BY <1>1, <2>2
    <3>3. RemoveRound(h[n - 1], gone) \in T[n]
      BY <1>3, <3>2
    <3> QED BY <3>1, <3>2, <3>3
  <2>3. 0 .. N \subseteq P
    <3> HIDE DEF P
    <3> QED BY <1>1, <2>1, <2>2, Induction
  <2> QED BY <2>3
<1>8. h[N] \in Rounds(E, list, gone, N)
  BY <1>1, <1>7 DEF T
<1> QED BY <1>1, <1>6, <1>8 DEF Rounds, N

-----------------------------------------------------------------------------
(* Counting.                                                               *)

\* The places of the lists that hold a subscription of a connection of C.
Slots(ls, C) == {p \in Keys \X (Nat \ {0}) : p[2] <= Len(ls[p[1]]) /\ ls[p[1]][p[2]].conn \in C}

\* f places every item of new in list, no two at the same place, at an item of the same
\* connection.
Embeds(f, new, list) ==
    /\ f \in [1 .. Len(new) -> 1 .. Len(list)]
    /\ \A j \in 1 .. Len(new) : new[j].conn = list[f[j]].conn
    /\ \A j, l \in 1 .. Len(new) : f[j] = f[l] => j = l

\* f leaves out no item of a connection of C.
Covers(f, new, list, C) ==
    \A x \in 1 .. Len(list) : list[x].conn \in C => \E j \in 1 .. Len(new) : f[j] = x

AllLists == [Keys -> Seq(Sub)]

\* Lists whose items embed in those of others hold no more of them, and as many if none is
\* left out.
LEMMA SlotsEmbed ==
  ASSUME NEW ls \in AllLists, NEW ls2 \in AllLists, NEW C, IsFiniteSet(Slots(ls, C)),
         NEW exact \in BOOLEAN,
         \A k \in Keys : \E f : Embeds(f, ls2[k], ls[k]) /\ (exact => Covers(f, ls2[k], ls[k], C))
  PROVE  /\ IsFiniteSet(Slots(ls2, C))
         /\ Cardinality(Slots(ls2, C)) \in 0 .. Cardinality(Slots(ls, C))
         /\ exact => Cardinality(Slots(ls2, C)) = Cardinality(Slots(ls, C))
<1> DEFINE S == Slots(ls, C)
           S2 == Slots(ls2, C)
           Ok(f, k) == Embeds(f, ls2[k], ls[k]) /\ (exact => Covers(f, ls2[k], ls[k], C))
           F == [k \in Keys |-> CHOOSE f : Ok(f, k)]
           G == [p \in S2 |-> <<p[1], F[p[1]][p[2]]>>]
<1>1. \A k \in Keys : Ok(F[k], k)
  <2> HIDE DEF Ok
  <2>1. \A k \in Keys : \E f : Ok(f, k)
    BY DEF Ok
  <2>2. \A k \in Keys : Ok(CHOOSE f : Ok(f, k), k)
    BY <2>1, Zenon
  <2> QED BY <2>2, Zenon
<1> HIDE DEF F
<1>2. \A k \in Keys : Len(ls[k]) \in Nat /\ Len(ls2[k]) \in Nat
  BY DEF AllLists
<1>3. ASSUME NEW p \in S2
      PROVE  /\ p[1] \in Keys /\ p[2] \in 1 .. Len(ls2[p[1]]) /\ ls2[p[1]][p[2]].conn \in C
             /\ p = <<p[1], p[2]>>
  BY <1>2 DEF Slots
<1>4. ASSUME NEW k \in Keys, NEW x \in 1 .. Len(ls[k]), ls[k][x].conn \in C
      PROVE  <<k, x>> \in S
  BY <1>2, <1>4 DEF Slots
<1>5. ASSUME NEW k \in Keys, NEW x \in 1 .. Len(ls2[k]), ls2[k][x].conn \in C
      PROVE  <<k, x>> \in S2
  BY <1>2, <1>5 DEF Slots
<1>6. G \in [S2 -> S]
  <2>1. ASSUME NEW p \in S2 PROVE <<p[1], F[p[1]][p[2]]>> \in S
    <3>1. /\ F[p[1]][p[2]] \in 1 .. Len(ls[p[1]])
          /\ ls[p[1]][F[p[1]][p[2]]].conn = ls2[p[1]][p[2]].conn
      BY <1>1, <1>3 DEF Embeds
    <3> QED BY <1>3, <1>4, <3>1
  <2> HIDE DEF S2, S
  <2> QED BY <2>1
<1>7. G \in Injection(S2, S)
  <2>1. ASSUME NEW p \in S2, NEW q \in S2, G[p] = G[q] PROVE p = q
    <3>1. p[1] = q[1] /\ F[p[1]][p[2]] = F[p[1]][q[2]]
      BY <2>1
    <3>2. p[2] = q[2]
      BY <1>1, <1>3, <3>1 DEF Embeds
    <3> QED BY <1>3, <3>1, <3>2
  <2> HIDE DEF G, S2, S
  <2> QED BY <1>6, <2>1 DEF Injection, IsInjective
<1>8. /\ IsFiniteSet(S2) /\ Cardinality(S2) <= Cardinality(S)
      /\ Cardinality(S2) = Cardinality(S) <=> G \in Surjection(S2, S)
  <2> HIDE DEF G, S2, S
  <2>1. IsFiniteSet(S)
    BY DEF S
  <2> QED BY <1>7, <2>1, FS_Injection
<1>9. exact => G \in Surjection(S2, S)
  <2>1. ASSUME exact, NEW q \in S PROVE \E p \in S2 : G[p] = q
    <3>1. q[1] \in Keys /\ q[2] \in 1 .. Len(ls[q[1]]) /\ ls[q[1]][q[2]].conn \in C /\ q = <<q[1], q[2]>>
      BY <1>2 DEF Slots
    <3>2. PICK j \in 1 .. Len(ls2[q[1]]) : F[q[1]][j] = q[2]
      BY <1>1, <2>1, <3>1 DEF Covers
    <3>3. ls2[q[1]][j].conn \in C
      BY <1>1, <3>1, <3>2 DEF Embeds
    <3>4. <<q[1], j>> \in S2
      BY <1>5, <3>1, <3>3
    <3> HIDE DEF S2
    <3>5. G[<<q[1], j>>] = <<q[1], q[2]>>
      BY <3>2, <3>4
    <3> QED BY <3>1, <3>4, <3>5
  <2> HIDE DEF G, S2, S
  <2> QED BY <1>6, <2>1 DEF Surjection
<1>10. Cardinality(S2) \in Nat /\ Cardinality(S) \in Nat
  BY <1>8, FS_CardinalityType
<1> HIDE DEF G, S2, S
<1>11. Cardinality(S2) \in 0 .. Cardinality(S)
  BY <1>8, <1>10
<1> QED BY <1>8, <1>9, <1>11 DEF S, S2

\* An item of a list is a subscription of a connection.
LEMMA ItemIsSub ==
  ASSUME NEW ls \in AllLists, NEW k \in Keys, NEW i \in 1 .. Len(ls[k])
  PROVE  ls[k][i] \in Sub /\ ls[k][i].conn \in Conns
<1>1. ls[k] \in Seq(Sub)
  BY DEF AllLists
<1>2. ls[k][i] \in Sub
  BY <1>1, ElementOfSeq
<1> QED BY <1>2 DEF Sub

\* The counts of Router in these terms.
LEMMA HeldSlots ==
  ASSUME NEW ls \in AllLists
  PROVE  /\ HeldAll(ls) = Cardinality(Slots(ls, Conns))
         /\ \A c \in Conns : Held(ls, c) = Cardinality(Slots(ls, {c}))
<1>1. \A k \in Keys : DOMAIN ls[k] = 1 .. Len(ls[k]) /\ Len(ls[k]) \in Nat
  BY DEF AllLists
<1>2. \A k \in Keys : \A i \in DOMAIN ls[k] : ls[k][i].conn \in Conns
  BY <1>1, ItemIsSub
<1>3. UNION {{<<k, i>> : i \in DOMAIN ls[k]} : k \in Keys} = Slots(ls, Conns)
  BY <1>1, <1>2 DEF Slots
<1>4. ASSUME NEW c \in Conns
      PROVE  UNION {{<<k, i>> : i \in {j \in DOMAIN ls[k] : ls[k][j].conn = c}} : k \in Keys} = Slots(ls, {c})
  BY <1>1 DEF Slots
<1> QED BY <1>3, <1>4 DEF Held, HeldAll

-----------------------------------------------------------------------------
(* Removing subscriptions.                                                 *)

\* ls2 holds no more than ls: its items embed in those of ls, and none of a connection of
\* C is left out.
Within(ls2, ls, C) ==
    \A k \in Keys : \E f : Embeds(f, ls2[k], ls[k]) /\ Covers(f, ls2[k], ls[k], C)

\* new is list without the items of gone, and embeds in it.
Removed(new, list, gone, C) ==
    /\ new \in Seq(Sub)
    /\ \E f : Embeds(f, new, list) /\ Covers(f, new, list, C)
    /\ \A j \in 1 .. Len(new) : new[j] \notin gone /\ \E x \in 1 .. Len(list) : new[j] = list[x]

\* remove_where leaves exactly the items that are not gone, each once.
LEMMA RemoveEmbeds ==
  ASSUME NEW list \in Seq(Sub), NEW gone, NEW C, \A x \in 1 .. Len(list) : list[x] \in gone => list[x].conn \notin C
  PROVE  Removed(RemoveWhere(list, gone), list, gone, C)
<1> DEFINE new == RemoveWhere(list, gone)
<1>1. /\ new \in Seq(Sub)
      /\ \A j \in 1 .. Len(new) : new[j] \notin gone
      /\ \E f : Places(f, list, gone, new)
  BY RemoveWhereProps
<1> HIDE DEF new
<1>2. PICK f : Places(f, list, gone, new)
  BY <1>1
<1>3. Embeds(f, new, list) /\ Covers(f, new, list, C)
  BY <1>2 DEF Embeds, Covers, Places
<1>4. \A j \in 1 .. Len(new) : \E x \in 1 .. Len(list) : new[j] = list[x]
  BY <1>2 DEF Places
<1> QED BY <1>1, <1>3, <1>4 DEF new, Removed

\* new holds items of ls, none of a connection of gone.
LeftBy(new, ls, gone) ==
    \A k \in Keys : \A j \in 1 .. Len(new[k]) :
        new[k][j].conn \notin gone /\ \E x \in 1 .. Len(ls[k]) : new[k][j] = ls[k][x]

\* mb_router_remove_all_for removes the subscriptions of gone and no other.
LEMMA RemoveAllForProps ==
  ASSUME NEW ls \in AllLists, NEW gone, NEW C, C \cap gone = {}
  PROVE  /\ RemoveAllFor(ls, gone) \in AllLists
         /\ Within(RemoveAllFor(ls, gone), ls, C)
         /\ LeftBy(RemoveAllFor(ls, gone), ls, gone)
<1> DEFINE out2(k) == {sub \in ToSet(ls[k]) : sub.conn \in gone}
           new == RemoveAllFor(ls, gone)
<1>1. ASSUME NEW k \in Keys
      PROVE  /\ new[k] = RemoveWhere(ls[k], out2(k))
             /\ new[k] \in Seq(Sub)
             /\ \E f : Embeds(f, new[k], ls[k]) /\ Covers(f, new[k], ls[k], C)
             /\ \A j \in 1 .. Len(new[k]) : /\ new[k][j].conn \notin gone
                                            /\ \E x \in 1 .. Len(ls[k]) : new[k][j] = ls[k][x]
  <2>1. ls[k] \in Seq(Sub) /\ DOMAIN ls[k] = 1 .. Len(ls[k])
    BY DEF AllLists
  <2>2. \A x \in 1 .. Len(ls[k]) : ls[k][x] \in out2(k) => ls[k][x].conn \notin C
    OBVIOUS
  <2>3. \A x \in 1 .. Len(ls[k]) : ls[k][x] \notin out2(k) => ls[k][x].conn \notin gone
    BY <2>1 DEF ToSet
  <2>4. new[k] = RemoveWhere(ls[k], out2(k))
    BY DEF RemoveAllFor
  <2> HIDE DEF out2, new
  <2>5. /\ new[k] \in Seq(Sub)
        /\ \E f : Embeds(f, new[k], ls[k]) /\ Covers(f, new[k], ls[k], C)
        /\ \A j \in 1 .. Len(new[k]) : new[k][j] \notin out2(k) /\ \E x \in 1 .. Len(ls[k]) : new[k][j] = ls[k][x]
    <3>1. Removed(new[k], ls[k], out2(k), C)
      BY <2>1, <2>2, <2>4, RemoveEmbeds
    <3> QED BY <3>1 DEF Removed
  <2> QED BY <2>3, <2>4, <2>5
<1>2. new \in AllLists
  <2>1. new = [k \in Keys |-> new[k]]
    BY DEF RemoveAllFor
  <2> HIDE DEF new
  <2> QED BY <1>1, <2>1 DEF AllLists
<1> HIDE DEF new
<1> QED BY <1>1, <1>2 DEF Within, LeftBy, new

\* new holds items of ls, those of c and sid with a new limit that they are below.
LimitedBy(new, ls, c, sid, max) ==
    \A k \in Keys : \A j \in 1 .. Len(new[k]) : \E x \in 1 .. Len(ls[k]) :
        \/ new[k][j] = ls[k][x] /\ (ls[k][x].conn # c \/ ls[k][x].sid # sid)
        \/ new[k][j] = [ls[k][x] EXCEPT !.max = max] /\ max # NoMax /\ ls[k][x].delivered < max

\* mb_router_unsubscribe: what is left of the subscriptions of c and sid has the new limit
\* and is below it.
LEMMA UnsubscribeProps ==
  ASSUME NEW ls \in AllLists, NEW c \in Conns, NEW sid \in Sids,
         NEW max \in {NoMax} \cup 1 .. MaxMsgs, NEW C, c \notin C
  PROVE  /\ UnsubscribeIn(ls, c, sid, max) \in AllLists
         /\ Within(UnsubscribeIn(ls, c, sid, max), ls, C)
         /\ LimitedBy(UnsubscribeIn(ls, c, sid, max), ls, c, sid, max)
<1> DEFINE mine(sub) == sub.conn = c /\ sub.sid = sid
           drop(sub) == mine(sub) /\ (max = NoMax \/ max <= sub.delivered)
           limit(sub) == IF mine(sub) THEN [sub EXCEPT !.max = max] ELSE sub
           gone(k) == {sub \in ToSet(ls[k]) : drop(sub)}
           kept(k) == RemoveWhere(ls[k], gone(k))
           new == UnsubscribeIn(ls, c, sid, max)
<1>1. new = [k \in Keys |-> [i \in DOMAIN kept(k) |-> limit(kept(k)[i])]]
  BY DEF UnsubscribeIn
<1> HIDE DEF new
<1>2. ASSUME NEW k \in Keys
      PROVE  /\ new[k] \in Seq(Sub)
             /\ \E f : Embeds(f, new[k], ls[k]) /\ Covers(f, new[k], ls[k], C)
             /\ \A j \in 1 .. Len(new[k]) : \E x \in 1 .. Len(ls[k]) :
                  \/ new[k][j] = ls[k][x] /\ (ls[k][x].conn # c \/ ls[k][x].sid # sid)
                  \/ /\ new[k][j] = [ls[k][x] EXCEPT !.max = max]
                     /\ max # NoMax /\ ls[k][x].delivered < max
  <2>1. ls[k] \in Seq(Sub) /\ DOMAIN ls[k] = 1 .. Len(ls[k])
    BY DEF AllLists
  <2>2. \A x \in 1 .. Len(ls[k]) : ls[k][x] \in gone(k) => ls[k][x].conn \notin C
    OBVIOUS
  <2>3. \A x \in 1 .. Len(ls[k]) : ls[k][x] \notin gone(k) => ~drop(ls[k][x])
    BY <2>1 DEF ToSet
  <2>4. \A x \in 1 .. Len(ls[k]) : ls[k][x] \in Sub
    BY ItemIsSub
  <2> DEFINE old == kept(k)
  <2> HIDE DEF drop, gone
  <2>5. /\ old \in Seq(Sub)
        /\ \E f : Embeds(f, old, ls[k]) /\ Covers(f, old, ls[k], C)
        /\ \A j \in 1 .. Len(old) : old[j] \notin gone(k) /\ \E x \in 1 .. Len(ls[k]) : old[j] = ls[k][x]
    <3>1. Removed(old, ls[k], gone(k), C)
      BY <2>1, <2>2, RemoveEmbeds
    <3> QED BY <3>1 DEF Removed
  <2>6. new[k] = [i \in DOMAIN old |-> limit(old[i])]
    BY <1>1
  <2> HIDE DEF old
  <2>7. DOMAIN old = 1 .. Len(old) /\ Len(old) \in Nat /\ \A j \in 1 .. Len(old) : old[j] \in Sub
    BY <2>5, ElementOfSeq
  <2>8. \A sub \in Sub : limit(sub) \in Sub /\ limit(sub).conn = sub.conn
    BY DEF Sub
  <2> HIDE DEF limit
  <2>9. /\ new[k] \in Seq(Sub) /\ Len(new[k]) = Len(old)
        /\ \A j \in 1 .. Len(old) : new[k][j] = limit(old[j])
    BY <2>6, <2>7, <2>8
  <2>10. \E f : Embeds(f, new[k], ls[k]) /\ Covers(f, new[k], ls[k], C)
    <3>1. PICK f : Embeds(f, old, ls[k]) /\ Covers(f, old, ls[k], C)
      BY <2>5
    <3>2. Embeds(f, new[k], ls[k])
      BY <2>7, <2>8, <2>9, <3>1 DEF Embeds
    <3>3. Covers(f, new[k], ls[k], C)
      BY <2>9, <3>1 DEF Covers
    <3> QED BY <3>2, <3>3
  <2>11. ASSUME NEW j \in 1 .. Len(new[k])
         PROVE  \E x \in 1 .. Len(ls[k]) :
                  \/ new[k][j] = ls[k][x] /\ (ls[k][x].conn # c \/ ls[k][x].sid # sid)
                  \/ /\ new[k][j] = [ls[k][x] EXCEPT !.max = max]
                     /\ max # NoMax /\ ls[k][x].delivered < max
    <3>1. PICK x \in 1 .. Len(ls[k]) : old[j] = ls[k][x]
      BY <2>5, <2>9
    <3>2. new[k][j] = limit(ls[k][x]) /\ ~drop(ls[k][x])
      BY <2>3, <2>5, <2>9, <3>1
    <3>3. ls[k][x].delivered \in Nat
      BY <2>4 DEF Sub
    <3>4. CASE mine(ls[k][x])
      <4>1. max # NoMax /\ ls[k][x].delivered < max
        BY <3>2, <3>3, <3>4 DEF drop, NoMax
      <4> QED BY <3>2, <3>4, <4>1 DEF limit
    <3>5. CASE ~mine(ls[k][x])
      BY <3>2, <3>5 DEF limit
    <3> QED BY <3>4, <3>5
  <2> QED BY <2>9, <2>10, <2>11
<1>3. new \in AllLists
  <2>1. new = [k \in Keys |-> new[k]]
    BY <1>1
  <2> QED BY <1>2, <2>1 DEF AllLists
<1> QED BY <1>2, <1>3 DEF Within, LimitedBy, new

-----------------------------------------------------------------------------
(* Delivery.                                                               *)

Progress == [ls : AllLists, closed : SUBSET Conns, frames : [Conns -> Seq(Frames)], left : Nat, ok : BOOLEAN]

\* All but the number of messages delivered.
Same(a, b) ==
    /\ a.conn = b.conn /\ a.filter = b.filter /\ a.lvc = b.lvc
    /\ a.queue = b.queue /\ a.sid = b.sid /\ a.max = b.max

\* What is written in the course of a publish: frames with its subject and message, within
\* MB_MAX_PENDING.
WritesOK(d, subject, msg) ==
    \A c \in Conns :
        /\ Len(out[c]) + Len(d.frames[c]) <= MaxPending
        /\ \A i \in 1 .. Len(d.frames[c]) : d.frames[c][i].subject = subject /\ d.frames[c][i].msg = msg

\* An ordinary subscription that is due has been sent the message.
Served(d, sub, subject, msg) ==
    Deliverable(d, sub, subject) /\ sub.queue = NoQueue =>
        \E j \in 1 .. Len(d.frames[sub.conn]) : d.frames[sub.conn][j] = Frame(sub, subject, msg)

\* e comes after d: nothing is taken back.
Later(e, d) ==
    /\ d.closed \subseteq e.closed
    /\ e.ok => d.ok
    /\ \A c \in Conns : \A i \in 1 .. Len(d.frames[c]) :
          i \in 1 .. Len(e.frames[c]) /\ e.frames[c][i] = d.frames[c][i]

\* What holds after n items of list k have been looked at, from the progress d.
After(d, k, subject, msg, n) ==
    {e \in Progress :
        /\ \A l \in Keys : l # k => e.ls[l] = d.ls[l]
        /\ Len(e.ls[k]) = Len(d.ls[k])
        /\ \A i \in 1 .. Len(d.ls[k]) : Same(e.ls[k][i], d.ls[k][i])
        /\ e.closed \subseteq open
        /\ WritesOK(e, subject, msg)
        /\ Later(e, d)
        /\ e.ok => \A i \in 1 .. n : Served(e, d.ls[k][i], subject, msg)}

LoopTypes == /\ lists \in AllLists /\ open \subseteq Conns
             /\ out \in [Conns -> Seq(Frames)]

\* Being sent the message is not taken back either.
LEMMA ServedLater ==
  ASSUME NEW d, NEW e, Later(e, d), NEW sub, sub.conn \in Conns, NEW subject, NEW msg,
         Served(d, sub, subject, msg)
  PROVE  Served(e, sub, subject, msg)
<1> SUFFICES ASSUME Deliverable(e, sub, subject), sub.queue = NoQueue
             PROVE  \E j \in 1 .. Len(e.frames[sub.conn]) : e.frames[sub.conn][j] = Frame(sub, subject, msg)
  BY DEF Served
<1>1. Deliverable(d, sub, subject)
  BY DEF Deliverable, Later
<1>2. PICK j \in 1 .. Len(d.frames[sub.conn]) : d.frames[sub.conn][j] = Frame(sub, subject, msg)
  BY <1>1 DEF Served
<1> QED BY <1>2 DEF Later

\* Being served looks only at the connection, the sid and the filter of an item.
LEMMA ServedSame ==
  ASSUME NEW d, NEW a, NEW b, Same(a, b), NEW subject, NEW msg, Served(d, a, subject, msg)
  PROVE  Served(d, b, subject, msg)
BY DEF Served, Same, Deliverable, Frame

\* A delivery only ever gets later.
LEMMA LaterTransitive ==
  ASSUME NEW d, NEW e, NEW f, Later(e, d), Later(f, e)
  PROVE  Later(f, d)
BY DEF Later

\* What deliver_to_sub does for the i-th item of list k.
Sends(e, d, k, i, subject, msg) ==
    /\ e \in Progress
    /\ \A l \in Keys : l # k => e.ls[l] = d.ls[l]
    /\ Len(e.ls[k]) = Len(d.ls[k])
    /\ \A j \in 1 .. Len(d.ls[k]) : Same(e.ls[k][j], d.ls[k][j])
    /\ e.closed \subseteq open
    /\ WritesOK(e, subject, msg)
    /\ Later(e, d)
    /\ e.ok => Served(e, d.ls[k][i], subject, msg)

\* deliver_to_sub writes one frame, or fails, or marks the receiver for closing.
LEMMA DeliverToProps ==
  ASSUME LoopTypes, NEW d \in Progress, NEW k \in Keys, NEW i \in 1 .. Len(d.ls[k]),
         NEW subject \in Subjects, NEW msg \in Nat \ {0}, d.ok, d.closed \subseteq open, WritesOK(d, subject, msg),
         Deliverable(d, d.ls[k][i], subject), NEW e, e = DeliverTo(d, k, i, subject, msg)
  PROVE  Sends(e, d, k, i, subject, msg)
<1> DEFINE sub == d.ls[k][i]
           full == Len(out[sub.conn]) + Len(d.frames[sub.conn]) >= MaxPending
<1>1. d.ls \in AllLists /\ d.closed \in SUBSET Conns /\ d.frames \in [Conns -> Seq(Frames)] /\ d.left \in Nat
  BY DEF Progress
<1>2. sub \in Sub /\ sub.conn \in Conns
  BY <1>1, ItemIsSub
<1>3. sub.conn \in open
  BY DEF Deliverable
<1>4. \A j \in 1 .. Len(d.ls[k]) : Same(d.ls[k][j], d.ls[k][j])
  BY DEF Same
<1>5. CASE full
  <2>1. e = [d EXCEPT !.closed = @ \cup {sub.conn}]
    BY <1>5 DEF DeliverTo
  <2>2. /\ e.ls = d.ls /\ e.closed = d.closed \cup {sub.conn} /\ e.frames = d.frames /\ e.ok = d.ok
        /\ e \in Progress
    BY <1>1, <1>2, <2>1 DEF Progress
  <2>3. Served(e, sub, subject, msg)
    BY <2>2 DEF Served, Deliverable
  <2>4. WritesOK(e, subject, msg)
    <3>1. e.frames = d.frames
      BY <2>2
    <3>2. WritesOK(d, subject, msg)
      OBVIOUS
    <3> QED BY ONLY <3>1, <3>2 DEF WritesOK
  <2>5. Later(e, d)
    BY <2>2 DEF Later
  <2>6. e.closed \subseteq open
    BY <1>3, <2>2
  <2> QED BY <1>4, <2>2, <2>3, <2>4, <2>5, <2>6 DEF Sends
<1>6. CASE ~full /\ d.left = 0
  <2>1. e = [d EXCEPT !.ok = FALSE]
    BY <1>6 DEF DeliverTo
  <2>2. /\ e.ls = d.ls /\ e.closed = d.closed /\ e.frames = d.frames /\ e.ok = FALSE
        /\ e \in Progress
    BY <1>1, <1>2, <2>1 DEF Progress
  <2>3. WritesOK(e, subject, msg)
    BY <2>2, Zenon DEF WritesOK
  <2>4. Later(e, d)
    BY <2>2 DEF Later
  <2> QED BY <1>4, <2>2, <2>3, <2>4 DEF Sends
<1>7. CASE ~full /\ d.left # 0
  <2> DEFINE frame == Frame(sub, subject, msg)
             more == [sub EXCEPT !.delivered = @ + 1]
             list == [d.ls[k] EXCEPT ![i] = more]
             fs == Append(d.frames[sub.conn], frame)
  <2>1. e = [d EXCEPT !.ls = [d.ls EXCEPT ![k] = list],
                      !.frames = [d.frames EXCEPT ![sub.conn] = fs],
                      !.left = d.left - 1]
    BY <1>7 DEF DeliverTo
  <2>2. more \in Sub /\ Same(more, sub)
    BY <1>2 DEF Sub, Same
  <2>3. frame \in Frames /\ frame.subject = subject /\ frame.msg = msg
    BY <1>2 DEF Frame, Frames, Sub
  <2>4. d.ls[k] \in Seq(Sub) /\ d.frames[sub.conn] \in Seq(Frames)
    BY <1>1, <1>2 DEF AllLists
  <2> HIDE DEF more, frame
  <2>5. /\ list \in Seq(Sub) /\ Len(list) = Len(d.ls[k]) /\ list[i] = more
        /\ \A j \in 1 .. Len(d.ls[k]) : j # i => list[j] = d.ls[k][j]
    BY <2>2, <2>4
  <2>6. /\ fs \in Seq(Frames) /\ Len(fs) = Len(d.frames[sub.conn]) + 1 /\ fs[Len(fs)] = frame
        /\ \A j \in 1 .. Len(d.frames[sub.conn]) : fs[j] = d.frames[sub.conn][j]
    <3> DEFINE old == d.frames[sub.conn]
    <3>1. old \in Seq(Frames)
      BY <2>4
    <3> HIDE DEF old, sub
    <3>2. /\ Append(old, frame) \in Seq(Frames) /\ Len(Append(old, frame)) = Len(old) + 1
          /\ Append(old, frame)[Len(old) + 1] = frame
          /\ \A j \in 1 .. Len(old) : Append(old, frame)[j] = old[j]
      BY <2>3, <3>1, AppendProperties
    <3>3. fs = Append(old, frame)
      BY DEF old
    <3> HIDE DEF fs
    <3>4. /\ fs \in Seq(Frames) /\ Len(fs) = Len(old) + 1 /\ fs[Len(fs)] = frame
          /\ \A j \in 1 .. Len(old) : fs[j] = old[j]
      BY <3>2, <3>3
    <3> QED BY <3>4 DEF old
  <2>7. \A c \in Conns : Len(out[c]) \in Nat /\ Len(d.frames[c]) \in Nat
    BY <1>1 DEF LoopTypes
  <2>8. MaxPending \in Nat
    BY LimitsAssumption
  <2>9. Len(out[sub.conn]) + Len(d.frames[sub.conn]) < MaxPending
    <3> HIDE DEF sub
    <3> DEFINE a == Len(out[sub.conn])
               b == Len(d.frames[sub.conn])
    <3>1. a \in Nat /\ b \in Nat
      BY <1>2, <2>7
    <3>2. ~(a + b >= MaxPending)
      BY <1>7
    <3> HIDE DEF a, b
    <3>3. a + b < MaxPending
      BY <2>8, <3>1, <3>2
    <3> QED BY <3>3 DEF a, b
  <2> HIDE DEF list, fs, sub
  <2> DEFINE ls2 == [d.ls EXCEPT ![k] = list]
             frames2 == [d.frames EXCEPT ![sub.conn] = fs]
  <2>10. ls2 \in AllLists /\ ls2[k] = list /\ \A l \in Keys : l # k => ls2[l] = d.ls[l]
    BY <1>1, <2>5 DEF AllLists
  <2>11. /\ frames2 \in [Conns -> Seq(Frames)] /\ frames2[sub.conn] = fs
        /\ \A c \in Conns : c # sub.conn => frames2[c] = d.frames[c]
    BY <1>1, <1>2, <2>6
  <2>12. d.left - 1 \in Nat
    BY <1>1, <1>7
  <2> HIDE DEF ls2, frames2
  <2>13. /\ e.ls = ls2 /\ e.frames = frames2 /\ e.closed = d.closed /\ e.ok = d.ok
         /\ e \in Progress
    BY <2>1, <2>10, <2>11, <2>12 DEF Progress, ls2, frames2
  <2>14. \A j \in 1 .. Len(d.ls[k]) : Same(e.ls[k][j], d.ls[k][j])
    BY <1>4, <2>2, <2>5, <2>10, <2>13 DEF sub
  <2>15. \A c \in Conns : Len(out[c]) \in Nat /\ Len(d.frames[c]) \in Nat
    BY <1>1 DEF LoopTypes
  <2>16. MaxPending \in Nat
    BY LimitsAssumption
  <2>17. ASSUME NEW c \in Conns
         PROVE  /\ Len(out[c]) + Len(e.frames[c]) <= MaxPending
                /\ \A j \in 1 .. Len(e.frames[c]) : e.frames[c][j].subject = subject /\ e.frames[c][j].msg = msg
                /\ \A j \in 1 .. Len(d.frames[c]) :
                      j \in 1 .. Len(e.frames[c]) /\ e.frames[c][j] = d.frames[c][j]
    <3>1. CASE c = sub.conn
      <4>1. Len(out[c]) + Len(d.frames[c]) < MaxPending
        BY <2>9, <3>1
      <4>2. e.frames[c] = fs
        BY <2>11, <2>13, <3>1
      <4>3. \A j \in 1 .. Len(d.frames[c]) : d.frames[c][j].subject = subject /\ d.frames[c][j].msg = msg
        BY DEF WritesOK
      <4> DEFINE old == d.frames[c]
                 a == Len(out[c])
      <4>4. /\ Len(fs) = Len(old) + 1 /\ fs[Len(fs)] = frame /\ Len(old) \in Nat
            /\ \A j \in 1 .. Len(old) : fs[j] = old[j] /\ old[j].subject = subject /\ old[j].msg = msg
        BY <2>6, <2>15, <3>1, <4>3
      <4>5. a + Len(old) < MaxPending /\ a \in Nat
        BY <2>15, <4>1
      <4> HIDE DEF old, a
      <4>6. \A j \in 1 .. Len(fs) : j \in 1 .. Len(old) \/ j = Len(fs)
        BY <4>4
      <4>7. \A j \in 1 .. Len(fs) : fs[j].subject = subject /\ fs[j].msg = msg
        BY <2>3, <4>4, <4>6
      <4>8. a + Len(fs) <= MaxPending
        BY <2>16, <4>4, <4>5
      <4>9. \A j \in 1 .. Len(old) : j \in 1 .. Len(fs) /\ fs[j] = old[j]
        BY <4>4
      <4> QED BY <4>2, <4>7, <4>8, <4>9 DEF old, a
    <3>2. CASE c # sub.conn
      <4>1. e.frames[c] = d.frames[c]
        BY <2>11, <2>13, <3>2
      <4> QED BY <4>1 DEF WritesOK
    <3> QED BY <3>1, <3>2
  <2>18. WritesOK(e, subject, msg) /\ Later(e, d)
    BY <2>13, <2>17 DEF WritesOK, Later
  <2>19. Served(e, sub, subject, msg)
    <3>1. Len(fs) \in 1 .. Len(e.frames[sub.conn]) /\ e.frames[sub.conn][Len(fs)] = frame
      BY <1>2, <2>6, <2>11, <2>13, <2>15
    <3> QED BY <3>1 DEF Served, frame
  <2> QED BY <2>5, <2>10, <2>13, <2>14, <2>18, <2>19 DEF sub, Sends
<1> QED BY <1>5, <1>6, <1>7

\* Items that differ in their counter only are the same subscription.
LEMMA SameProps ==
  /\ \A a : Same(a, a)
  /\ \A a, b, c : Same(a, b) /\ Same(b, c) => Same(a, c)
BY DEF Same

\* The loop of deliver_matching_list, one item.
LEMMA ItemKeeps ==
  ASSUME LoopTypes, NEW d \in Progress, NEW k \in Keys, NEW subject \in Subjects, NEW msg \in Nat \ {0},
         NEW selected, NEW n \in 1 .. Len(d.ls[k]), NEW e \in After(d, k, subject, msg, n - 1)
  PROVE  DeliverItem(e, k, n, subject, msg, selected) \in After(d, k, subject, msg, n)
<1> DEFINE r == DeliverItem(e, k, n, subject, msg, selected)
           due == /\ e.ok
                  /\ Deliverable(e, e.ls[k][n], subject)
                  /\ e.ls[k][n].queue = NoQueue \/ n \in selected
<1>1. /\ e \in Progress
      /\ \A l \in Keys : l # k => e.ls[l] = d.ls[l]
      /\ Len(e.ls[k]) = Len(d.ls[k])
      /\ \A i \in 1 .. Len(d.ls[k]) : Same(e.ls[k][i], d.ls[k][i])
      /\ e.closed \subseteq open
      /\ WritesOK(e, subject, msg)
      /\ Later(e, d)
      /\ e.ok => \A i \in 1 .. n - 1 : Served(e, d.ls[k][i], subject, msg)
  BY DEF After
<1>2. n \in 1 .. Len(e.ls[k]) /\ Len(d.ls[k]) \in Nat
  BY <1>1 DEF Progress, AllLists
<1>3. \A i \in 1 .. Len(d.ls[k]) : d.ls[k][i].conn \in Conns
  BY ItemIsSub DEF Progress
<1>4. Same(e.ls[k][n], d.ls[k][n])
  BY <1>1
<1>5. \A i \in 1 .. n : i \in 1 .. Len(d.ls[k]) /\ (i \in 1 .. n - 1 \/ i = n)
  BY <1>2
<1>6. CASE due
  <2>1. r = DeliverTo(e, k, n, subject, msg)
    BY <1>6 DEF DeliverItem
  <2> HIDE DEF r
  <2>2. /\ r \in Progress
        /\ \A l \in Keys : l # k => r.ls[l] = e.ls[l]
        /\ Len(r.ls[k]) = Len(e.ls[k])
        /\ \A j \in 1 .. Len(e.ls[k]) : Same(r.ls[k][j], e.ls[k][j])
        /\ r.closed \subseteq open
        /\ WritesOK(r, subject, msg)
        /\ Later(r, e)
        /\ r.ok => Served(r, e.ls[k][n], subject, msg)
    <3>1. Sends(r, e, k, n, subject, msg)
      BY <1>1, <1>2, <1>6, <2>1, DeliverToProps
    <3> QED BY <3>1 DEF Sends
  <2>3. Later(r, d)
    BY <1>1, <2>2, LaterTransitive
  <2>4. \A j \in 1 .. Len(d.ls[k]) : Same(r.ls[k][j], d.ls[k][j])
    BY <1>1, <2>2, SameProps
  <2>5. r.ok => \A i \in 1 .. n : Served(r, d.ls[k][i], subject, msg)
    <3>1. SUFFICES ASSUME r.ok, NEW i \in 1 .. n PROVE Served(r, d.ls[k][i], subject, msg)
      OBVIOUS
    <3>2. CASE i = n
      BY <1>4, <2>2, <3>1, <3>2, ServedSame
    <3>3. CASE i \in 1 .. n - 1
      <4>1. Served(e, d.ls[k][i], subject, msg) /\ d.ls[k][i].conn \in Conns
        BY <1>1, <1>3, <1>5, <1>6, <3>3
      <4> QED BY <2>2, <4>1, ServedLater
    <3> QED BY <1>5, <3>2, <3>3
  <2> QED BY <1>1, <2>2, <2>3, <2>4, <2>5 DEF After, r
<1>7. CASE ~due
  <2>1. r = e
    BY <1>7 DEF DeliverItem
  <2>2. e.ok => Served(e, d.ls[k][n], subject, msg)
    <3>1. e.ok => Served(e, e.ls[k][n], subject, msg)
      BY <1>7 DEF Served
    <3> QED BY <1>4, <3>1, ServedSame
  <2>3. e.ok => \A i \in 1 .. n : Served(e, d.ls[k][i], subject, msg)
    BY <1>1, <1>5, <2>2
  <2> HIDE DEF r
  <2> QED BY <1>1, <2>1, <2>3 DEF After, r
<1> QED BY <1>6, <1>7

\* The loop of deliver_matching_list as a run of its turns.
LEMMA ItemsRun ==
  ASSUME LoopTypes, NEW d \in Progress, NEW k \in Keys, NEW subject \in Subjects, NEW msg \in Nat \ {0},
         NEW selected, d.closed \subseteq open, WritesOK(d, subject, msg)
  PROVE  \E h : /\ h[0] = d /\ d \in After(d, k, subject, msg, 0)
                /\ \A n \in 1 .. Len(d.ls[k]) : h[n] = DeliverItem(h[n - 1], k, n, subject, msg, selected)
                /\ DeliverItems(d, k, subject, msg, selected) = h[Len(d.ls[k])]
<1> DEFINE N == Len(d.ls[k])
           T == [n \in 0 .. N |-> After(d, k, subject, msg, n)]
           F == [p \in (1 .. N) \X Progress |-> DeliverItem(p[2], k, p[1], subject, msg, selected)]
<1>1. N \in Nat
  BY DEF Progress, AllLists
<1>2. d \in T[0] /\ d \in After(d, k, subject, msg, 0)
  <2>1. Later(d, d)
    BY DEF Later
  <2>2. d \in After(d, k, subject, msg, 0)
    <3> HIDE DEF N
    <3> QED BY <2>1, SameProps DEF After
  <2> QED BY <1>1, <2>2
<1>3. ASSUME NEW n \in 1 .. N, NEW s \in T[n - 1]
      PROVE  F[<<n, s>>] = DeliverItem(s, k, n, subject, msg, selected) /\ F[<<n, s>>] \in T[n]
  <2>1. s \in After(d, k, subject, msg, n - 1)
    BY <1>1
  <2>2. s \in Progress
    BY <2>1 DEF After
  <2>3. F[<<n, s>>] = DeliverItem(s, k, n, subject, msg, selected)
    BY <2>2
  <2>4. DeliverItem(s, k, n, subject, msg, selected) \in After(d, k, subject, msg, n)
    BY <2>1, ItemKeeps
  <2>5. DeliverItem(s, k, n, subject, msg, selected) \in T[n]
    BY <1>1, <2>4
  <2> HIDE DEF T, F
  <2> QED BY <2>3, <2>5
<1> HIDE DEF N, T, F
<1>4. PICK g : IsRun(g, N, d, F) /\ \A n \in 0 .. N : g[n] \in T[n]
  <2>1. \A n \in 1 .. N : \A s \in T[n - 1] : F[<<n, s>>] \in T[n]
    BY <1>3
  <2> QED BY <1>1, <1>2, <2>1, Recursion
<1>5. g = [n \in 0 .. N |-> IF n = 0 THEN d ELSE DeliverItem(g[n - 1], k, n, subject, msg, selected)]
  <2>1. \A n \in 0 .. N : n # 0 => n \in 1 .. N /\ n - 1 \in 0 .. N
    BY <1>1
  <2>2. \A n \in 0 .. N : n # 0 => F[<<n, g[n - 1]>>] = DeliverItem(g[n - 1], k, n, subject, msg, selected)
    BY <1>3, <1>4, <2>1
  <2> QED BY <1>4, <2>2 DEF IsRun
<1>6. PICK h : /\ h = [n \in 0 .. N |-> IF n = 0 THEN d ELSE DeliverItem(h[n - 1], k, n, subject, msg, selected)]
               /\ DeliverItems(d, k, subject, msg, selected) = h[N]
  BY <1>5, Zenon DEF DeliverItems, N
<1>7. h[0] = d /\ \A n \in 1 .. N : h[n] = DeliverItem(h[n - 1], k, n, subject, msg, selected)
  BY <1>1, <1>6
<1> QED BY <1>2, <1>6, <1>7 DEF N

\* What the loop keeps.
LEMMA ItemsProps ==
  ASSUME LoopTypes, NEW d \in Progress, NEW k \in Keys, NEW subject \in Subjects, NEW msg \in Nat \ {0},
         NEW selected, d.closed \subseteq open, WritesOK(d, subject, msg)
  PROVE  DeliverItems(d, k, subject, msg, selected) \in After(d, k, subject, msg, Len(d.ls[k]))
<1> DEFINE N == Len(d.ls[k])
           T == [n \in 0 .. N |-> After(d, k, subject, msg, n)]
<1>1. PICK h : /\ h[0] = d /\ d \in After(d, k, subject, msg, 0)
               /\ \A n \in 1 .. N : h[n] = DeliverItem(h[n - 1], k, n, subject, msg, selected)
               /\ DeliverItems(d, k, subject, msg, selected) = h[N]
  BY ItemsRun, SMTT(30)
<1>2. N \in Nat
  BY DEF Progress, AllLists
<1>3. h[0] \in T[0]
  BY <1>1, <1>2
<1>4. ASSUME NEW n \in 1 .. N, h[n - 1] \in T[n - 1] PROVE h[n] \in T[n]
  <2>1. h[n - 1] \in After(d, k, subject, msg, n - 1)
    BY <1>2, <1>4
  <2>2. h[n] \in After(d, k, subject, msg, n)
    BY <1>1, <2>1, ItemKeeps
  <2> QED BY <1>2, <2>2
<1> HIDE DEF T
<1>5. h[N] \in T[N]
  <2> HIDE DEF N
  <2>1. \A n \in 0 .. N : h[n] \in T[n]
    BY <1>2, <1>3, <1>4, Stays
  <2> QED BY <1>2, <2>1
<1> QED BY <1>1, <1>2, <1>5 DEF T

-----------------------------------------------------------------------------
\* What holds of a publish once it has been through the lists of V.
Delivering(V, subject, msg) ==
    {d \in Progress :
        /\ \A k \in Keys : k \notin V => d.ls[k] = lists[k]
        /\ \A k \in Keys : \E f : Embeds(f, d.ls[k], lists[k])
        /\ \A k \in Keys : \A j \in 1 .. Len(d.ls[k]) :
              ~AtMax(d.ls[k][j]) /\ \E x \in 1 .. Len(lists[k]) : Same(d.ls[k][j], lists[k][x])
        /\ d.closed \subseteq open
        /\ WritesOK(d, subject, msg)
        /\ d.ok => \A k \in Keys \cap V : \A i \in 1 .. Len(lists[k]) : Served(d, lists[k][i], subject, msg)}

\* deliver_matching_list
LEMMA ListProps ==
  ASSUME LoopTypes, NEW V, NEW k, k \notin V, NEW subject \in Subjects, NEW msg \in Nat \ {0}, NEW pick,
         NEW d \in Delivering(V, subject, msg)
  PROVE  DeliverList(d, k, subject, msg, pick) \in Delivering(V \cup {k}, subject, msg)
<1>1. /\ d \in Progress
      /\ \A l \in Keys : l \notin V => d.ls[l] = lists[l]
      /\ \A l \in Keys : \E f : Embeds(f, d.ls[l], lists[l])
      /\ \A l \in Keys : \A j \in 1 .. Len(d.ls[l]) :
            ~AtMax(d.ls[l][j]) /\ \E x \in 1 .. Len(lists[l]) : Same(d.ls[l][j], lists[l][x])
      /\ d.closed \subseteq open
      /\ WritesOK(d, subject, msg)
      /\ d.ok => \A l \in Keys \cap V : \A i \in 1 .. Len(lists[l]) : Served(d, lists[l][i], subject, msg)
  BY DEF Delivering
<1>2. CASE ~d.ok \/ k \notin Keys
  <2>1. DeliverList(d, k, subject, msg, pick) = d
    BY <1>2 DEF DeliverList
  <2>2. d.ok => Keys \cap (V \cup {k}) = Keys \cap V
    BY <1>2
  <2> QED BY <1>1, <2>1, <2>2 DEF Delivering
<1>3. CASE d.ok /\ k \in Keys
  <2> DEFINE e == DeliverItems(d, k, subject, msg, QueueSelected(d, d.ls[k], subject, pick))
             gone == {sub \in ToSet(e.ls[k]) : AtMax(sub)}
             new == RemoveWhere(e.ls[k], gone)
             r == DeliverList(d, k, subject, msg, pick)
  <2>1. e \in After(d, k, subject, msg, Len(d.ls[k]))
    BY <1>1, <1>3, ItemsProps
  <2>2. r = [e EXCEPT !.ls = [e.ls EXCEPT ![k] = new]]
    BY <1>3 DEF DeliverList, RemoveDeliveredMax
  <2> HIDE DEF e, r
  <2>3. /\ e \in Progress
        /\ \A l \in Keys : l # k => e.ls[l] = d.ls[l]
        /\ Len(e.ls[k]) = Len(d.ls[k])
        /\ \A i \in 1 .. Len(d.ls[k]) : Same(e.ls[k][i], d.ls[k][i])
        /\ e.closed \subseteq open
        /\ WritesOK(e, subject, msg)
        /\ Later(e, d)
        /\ e.ok => \A i \in 1 .. Len(d.ls[k]) : Served(e, d.ls[k][i], subject, msg)
    BY <2>1 DEF After
  <2>4. d.ls[k] = lists[k]
    BY <1>1, <1>3
  <2>5. e.ls \in AllLists /\ e.ls[k] \in Seq(Sub) /\ DOMAIN e.ls[k] = 1 .. Len(e.ls[k])
    BY <1>3, <2>3 DEF Progress, AllLists
  <2>6. \A x \in 1 .. Len(e.ls[k]) : e.ls[k][x] \in gone <=> AtMax(e.ls[k][x])
    BY <2>5 DEF ToSet
  <2>7. Removed(new, e.ls[k], gone, {})
    <3> HIDE DEF gone
    <3> QED BY <2>5, RemoveEmbeds
  <2> HIDE DEF gone, new
  <2>8. /\ new \in Seq(Sub)
        /\ \E f : Embeds(f, new, e.ls[k])
        /\ \A j \in 1 .. Len(new) : new[j] \notin gone /\ \E x \in 1 .. Len(e.ls[k]) : new[j] = e.ls[k][x]
    BY <2>7 DEF Removed
  <2>9. \A j \in 1 .. Len(new) : ~AtMax(new[j]) /\ \E x \in 1 .. Len(lists[k]) : Same(new[j], lists[k][x])
    BY <2>3, <2>4, <2>6, <2>8, SMTT(30)
  <2>10. \E f : Embeds(f, new, lists[k])
    <3>1. PICK f : Embeds(f, new, e.ls[k])
      BY <2>8
    <3>2. \A x \in 1 .. Len(lists[k]) : e.ls[k][x].conn = lists[k][x].conn
      BY <2>3, <2>4 DEF Same
    <3>3. Embeds(f, new, lists[k])
      BY <2>3, <2>4, <3>1, <3>2 DEF Embeds
    <3> QED BY <3>3
  <2> DEFINE ls2 == [e.ls EXCEPT ![k] = new]
  <2>11. ls2 \in AllLists /\ ls2[k] = new /\ \A l \in Keys : l # k => ls2[l] = d.ls[l]
    BY <1>3, <2>3, <2>5, <2>8 DEF AllLists
  <2> HIDE DEF ls2
  <2>12. /\ r \in Progress /\ r.ls = ls2 /\ r.closed = e.closed /\ r.frames = e.frames /\ r.ok = e.ok
    BY <2>2, <2>3, <2>11 DEF Progress, ls2
  <2>13. ASSUME NEW l \in Keys, l \notin V \cup {k} PROVE r.ls[l] = lists[l]
    BY <1>1, <2>11, <2>12, <2>13
  <2>14. ASSUME NEW l \in Keys
         PROVE  /\ \E f : Embeds(f, r.ls[l], lists[l])
                /\ \A j \in 1 .. Len(r.ls[l]) :
                      ~AtMax(r.ls[l][j]) /\ \E x \in 1 .. Len(lists[l]) : Same(r.ls[l][j], lists[l][x])
    <3>1. CASE l = k
      BY <2>9, <2>10, <2>11, <2>12, <3>1
    <3>2. CASE l # k
      BY <1>1, <2>11, <2>12, <3>2
    <3> QED BY <3>1, <3>2
  <2>15. WritesOK(r, subject, msg)
    BY <2>3, <2>12 DEF WritesOK
  <2>16. ASSUME r.ok, NEW l \in Keys \cap (V \cup {k}), NEW i \in 1 .. Len(lists[l])
         PROVE  Served(r, lists[l][i], subject, msg)
    <3>1. Served(e, lists[l][i], subject, msg)
      <4>1. CASE l = k
        BY <2>3, <2>4, <2>12, <2>16, <4>1
      <4>2. CASE l # k
        <5>1. Served(d, lists[l][i], subject, msg)
          BY <1>1, <1>3, <2>16, <4>2
        <5>2. lists[l][i].conn \in Conns
          BY <2>16, ItemIsSub DEF LoopTypes
        <5> QED BY <2>3, <5>1, <5>2, ServedLater
      <4> QED BY <4>1, <4>2
    <3> QED BY <2>12, <3>1 DEF Served, Deliverable
  <2> QED BY <2>3, <2>12, <2>13, <2>14, <2>15, <2>16 DEF Delivering, r
<1> QED BY <1>2, <1>3

\* A publish before its first list.
LEMMA StartDelivers ==
  ASSUME LoopTypes, NEW subject, NEW msg, NEW budget \in Nat,
         \A c \in Conns : Len(out[c]) <= MaxPending,
         \A k \in Keys : \A i \in 1 .. Len(lists[k]) : ~AtMax(lists[k][i])
  PROVE  [ls |-> lists, closed |-> {}, frames |-> [c \in Conns |-> <<>>], left |-> budget, ok |-> TRUE]
            \in Delivering({}, subject, msg)
<1> DEFINE start == [ls |-> lists, closed |-> {}, frames |-> [c \in Conns |-> <<>>],
                     left |-> budget, ok |-> TRUE]
<1>1. /\ start \in Progress /\ start.ls = lists /\ start.closed = {}
      /\ \A c \in Conns : start.frames[c] = <<>>
  BY DEF Progress, LoopTypes
<1> HIDE DEF start
<1>2. ASSUME NEW k \in Keys PROVE \E f : Embeds(f, lists[k], lists[k])
  <2>1. Embeds([i \in 1 .. Len(lists[k]) |-> i], lists[k], lists[k])
    BY DEF Embeds
  <2> QED BY <2>1
<1>3. \A k \in Keys : \A j \in 1 .. Len(lists[k]) : \E x \in 1 .. Len(lists[k]) : Same(lists[k][j], lists[k][x])
  BY SameProps
<1>4. WritesOK(start, subject, msg)
  <2>1. \A c \in Conns : Len(out[c]) \in Nat /\ Len(start.frames[c]) = 0
    BY <1>1 DEF LoopTypes
  <2>2. ASSUME NEW c \in Conns PROVE Len(out[c]) + Len(start.frames[c]) <= MaxPending
    <3> DEFINE a == Len(out[c])
               b == Len(start.frames[c])
    <3>1. a \in Nat /\ b = 0 /\ a <= MaxPending
      BY <2>1
    <3> HIDE DEF a, b
    <3>2. a + b <= MaxPending
      BY <3>1
    <3> QED BY <3>2 DEF a, b
  <2>3. \A c \in Conns : 1 .. Len(start.frames[c]) = {}
    BY <2>1
  <2> QED BY <2>2, <2>3 DEF WritesOK
<1>5. start \in Delivering({}, subject, msg)
  BY <1>1, <1>2, <1>3, <1>4 DEF Delivering
<1> QED BY <1>5 DEF start

\* deliver_publish over the three lists of a subject.
LEMMA DeliverProps ==
  ASSUME LoopTypes, NEW subject \in Subjects, NEW msg \in Nat \ {0}, NEW pick, NEW budget \in Nat,
         \A c \in Conns : Len(out[c]) <= MaxPending,
         \A k \in Keys : \A i \in 1 .. Len(lists[k]) : ~AtMax(lists[k][i])
  PROVE  Deliver(subject, msg, pick, budget) \in
            Delivering({ListsFor(subject)[n] : n \in 1 .. 3}, subject, msg)
<1> DEFINE start == [ls |-> lists, closed |-> {}, frames |-> [c \in Conns |-> <<>>],
                     left |-> budget, ok |-> TRUE]
           next(d, n) == DeliverList(d, ListsFor(subject)[n], subject, msg, pick)
           key(n) == ListsFor(subject)[n]
<1>1. start \in Delivering({}, subject, msg)
  BY StartDelivers
<1>2. key(1) # key(2) /\ key(1) # key(3) /\ key(2) # key(3)
  <2>1. key(1)[1] = "literal" /\ key(2)[1] = "wildcard" /\ key(3)[1] = "global"
    BY DEF ListsFor
  <2> QED BY <2>1
<1>3. Deliver(subject, msg, pick, budget) = next(next(next(start, 1), 2), 3)
  BY DEF Deliver
<1> HIDE DEF start
<1>4. next(start, 1) \in Delivering({key(1)}, subject, msg)
  <2>1. next(start, 1) \in Delivering({} \cup {key(1)}, subject, msg)
    <3> HIDE DEF key
    <3> QED BY <1>1, ListProps DEF key
  <2> QED BY <2>1
<1>5. next(next(start, 1), 2) \in Delivering({key(1)} \cup {key(2)}, subject, msg)
  <2> DEFINE d == next(start, 1)
  <2>1. d \in Delivering({key(1)}, subject, msg)
    BY <1>4
  <2> HIDE DEF d
  <2>2. DeliverList(d, key(2), subject, msg, pick) \in Delivering({key(1)} \cup {key(2)}, subject, msg)
    <3> HIDE DEF key
    <3> QED BY <1>2, <2>1, ListProps
  <2> QED BY <2>2 DEF d
<1>6. next(next(next(start, 1), 2), 3) \in Delivering(({key(1)} \cup {key(2)}) \cup {key(3)}, subject, msg)
  <2> DEFINE d == next(next(start, 1), 2)
  <2>1. d \in Delivering({key(1)} \cup {key(2)}, subject, msg)
    BY <1>5
  <2> HIDE DEF d
  <2>2. DeliverList(d, key(3), subject, msg, pick) \in Delivering(({key(1)} \cup {key(2)}) \cup {key(3)}, subject, msg)
    <3> HIDE DEF key
    <3> QED BY <1>2, <2>1, ListProps
  <2> QED BY <2>2 DEF d
<1>7. ({key(1)} \cup {key(2)}) \cup {key(3)} = {ListsFor(subject)[n] : n \in 1 .. 3}
  OBVIOUS
<1> QED BY <1>3, <1>6, <1>7

-----------------------------------------------------------------------------
(* The counters.                                                           *)

\* The items of ls2 are items of ls, or fewer.
Shrunk(ls2, ls) == \A k \in Keys : \E f : Embeds(f, ls2[k], ls[k])

\* Lists shrunk twice are shrunk.
LEMMA EmbedsTransitive ==
  ASSUME NEW a \in AllLists, NEW b \in AllLists, NEW c \in AllLists, Shrunk(a, b), Shrunk(b, c)
  PROVE  Shrunk(a, c)
<1>1. SUFFICES ASSUME NEW k \in Keys PROVE \E h : Embeds(h, a[k], c[k])
  BY DEF Shrunk
<1>2. PICK f : Embeds(f, a[k], b[k])
  BY DEF Shrunk
<1>3. PICK g : Embeds(g, b[k], c[k])
  BY DEF Shrunk
<1>4. Embeds([j \in 1 .. Len(a[k]) |-> g[f[j]]], a[k], c[k])
  BY <1>2, <1>3 DEF Embeds
<1> QED BY <1>4

\* note_sub_removed leaves the number of the subscriptions that are left.
LEMMA DecProps ==
  ASSUME NEW n \in Nat, NEW m \in 0 .. n, NEW x \in Nat
  PROVE  Dec(n, n - m) = m /\ Dec(x, n - m) \in 0 .. x
BY DEF Dec

\* The slots of fewer connections are finitely many as well.
LEMMA ConnSlots ==
  ASSUME NEW ls, NEW C, NEW D, D \subseteq C, IsFiniteSet(Slots(ls, C))
  PROVE  IsFiniteSet(Slots(ls, D)) /\ Cardinality(Slots(ls, D)) \in Nat
<1>1. Slots(ls, D) \subseteq Slots(ls, C)
  BY DEF Slots
<1>2. IsFiniteSet(Slots(ls, D))
  BY <1>1, FS_Subset
<1> QED BY <1>2, FS_CardinalityType

\* ls2 holds no more subscriptions of the connections of C than ls does.
Counted(ls2, ls, C) ==
    /\ IsFiniteSet(Slots(ls2, C))
    /\ Cardinality(Slots(ls, C)) \in Nat
    /\ Cardinality(Slots(ls2, C)) \in 0 .. Cardinality(Slots(ls, C))

\* Lists that shrink lose slots, in all and of every connection.
LEMMA ShrunkCounted ==
  ASSUME NEW ls \in AllLists, NEW ls2 \in AllLists, Shrunk(ls2, ls), IsFiniteSet(Slots(ls, Conns))
  PROVE  Counted(ls2, ls, Conns) /\ \A c \in Conns : Counted(ls2, ls, {c})
<1>1. \A k \in Keys : \E f : Embeds(f, ls2[k], ls[k]) /\ (FALSE => Covers(f, ls2[k], ls[k], Conns))
  BY DEF Shrunk
<1>2. Counted(ls2, ls, Conns)
  <2>1. IsFiniteSet(Slots(ls2, Conns)) /\ Cardinality(Slots(ls2, Conns)) \in 0 .. Cardinality(Slots(ls, Conns))
    BY <1>1, SlotsEmbed
  <2>2. Cardinality(Slots(ls, Conns)) \in Nat
    BY FS_CardinalityType
  <2> QED BY <2>1, <2>2 DEF Counted
<1>3. ASSUME NEW c \in Conns PROVE Counted(ls2, ls, {c})
  <2>1. IsFiniteSet(Slots(ls, {c})) /\ Cardinality(Slots(ls, {c})) \in Nat
    BY ConnSlots
  <2>2. \A k \in Keys : \E f : Embeds(f, ls2[k], ls[k]) /\ (FALSE => Covers(f, ls2[k], ls[k], {c}))
    BY DEF Shrunk
  <2>3. IsFiniteSet(Slots(ls2, {c})) /\ Cardinality(Slots(ls2, {c})) \in 0 .. Cardinality(Slots(ls, {c}))
    BY <2>1, <2>2, SlotsEmbed
  <2> QED BY <2>1, <2>3 DEF Counted
<1> QED BY <1>2, <1>3

\* The counters are exact, the scratch arrays large enough, and a subscription in its list,
\* below its limit, and of an open connection.
ItemsOK(ls, alive) ==
    \A k \in Keys : \A i \in 1 .. Len(ls[k]) :
        ls[k][i].conn \in alive /\ ~AtMax(ls[k][i]) /\ ListOf(ls[k][i].filter) = k
Registry ==
    /\ IsFiniteSet(Slots(lists, Conns))
    /\ count = Cardinality(Slots(lists, Conns))
    /\ \A c \in open : connSubs[c] = Cardinality(Slots(lists, {c}))
    /\ ItemsOK(lists, open)
    /\ count <= cap

\* Types of what the registry is made of.
RegistryTypes ==
    /\ lists \in AllLists
    /\ count \in 0 .. MaxSubsTotal
    /\ connSubs \in [Conns -> 0 .. MaxSubsPerConn]
    /\ cap \in Nat
    /\ open \subseteq Conns

\* The limits are positive.
LEMMA Constants ==
  {MaxPending, MaxSubsPerConn, MaxSubsTotal, MaxLvcEntries, MaxLvcBytes} \subseteq Nat \ {0}
BY LimitsAssumption

\* Any removal that note_sub_removed counts.
LEMMA RemovalKeeps ==
  ASSUME RegistryTypes, Registry, lists' \in AllLists, Shrunk(lists', lists), NoteRemoved(lists, lists'),
         open' \subseteq open, ItemsOK(lists', open'), cap' = cap
  PROVE  RegistryTypes' /\ Registry'
<1>1. /\ lists \in AllLists /\ count \in 0 .. MaxSubsTotal /\ connSubs \in [Conns -> 0 .. MaxSubsPerConn]
      /\ cap \in Nat /\ open \subseteq Conns
  BY DEF RegistryTypes
<1>2. Counted(lists', lists, Conns) /\ \A c \in Conns : Counted(lists', lists, {c})
  BY <1>1, ShrunkCounted DEF Registry
<1>3. count' = Cardinality(Slots(lists', Conns)) /\ count' \in 0 .. count /\ IsFiniteSet(Slots(lists', Conns))
  <2>1. count' = Dec(count, Cardinality(Slots(lists, Conns)) - Cardinality(Slots(lists', Conns)))
    BY <1>1, HeldSlots DEF NoteRemoved
  <2>2. count = Cardinality(Slots(lists, Conns))
    BY DEF Registry
  <2> QED BY <1>2, <2>1, <2>2, DecProps DEF Counted
<1>4. ASSUME NEW c \in Conns
      PROVE  /\ connSubs'[c] \in 0 .. connSubs[c]
             /\ c \in open => connSubs'[c] = Cardinality(Slots(lists', {c}))
  <2>1. connSubs'[c] = Dec(connSubs[c], Cardinality(Slots(lists, {c})) - Cardinality(Slots(lists', {c})))
    BY <1>1, HeldSlots DEF NoteRemoved
  <2>2. connSubs[c] \in Nat
    BY <1>1, Constants
  <2>3. /\ Cardinality(Slots(lists, {c})) \in Nat
        /\ Cardinality(Slots(lists', {c})) \in 0 .. Cardinality(Slots(lists, {c}))
    BY <1>2 DEF Counted
  <2>4. connSubs'[c] \in 0 .. connSubs[c]
    <3> DEFINE n == Cardinality(Slots(lists, {c}))
               m == Cardinality(Slots(lists', {c}))
               x == connSubs[c]
    <3>1. n \in Nat /\ m \in 0 .. n /\ x \in Nat
      BY <2>2, <2>3
    <3>2. connSubs'[c] = Dec(x, n - m)
      BY <2>1
    <3> HIDE DEF n, m, x
    <3>3. Dec(x, n - m) \in 0 .. x
      BY <3>1, DecProps
    <3> QED BY <3>2, <3>3 DEF x
  <2>5. c \in open => connSubs[c] = Cardinality(Slots(lists, {c}))
    BY DEF Registry
  <2>6. c \in open => connSubs'[c] = Cardinality(Slots(lists', {c}))
    BY <2>1, <2>3, <2>5, DecProps
  <2> QED BY <2>4, <2>6
<1>5. connSubs' \in [Conns -> 0 .. MaxSubsPerConn]
  <2>1. connSubs' = [c \in Conns |-> connSubs'[c]]
    BY DEF NoteRemoved
  <2>2. ASSUME NEW c \in Conns PROVE connSubs'[c] \in 0 .. MaxSubsPerConn
    <3>1. connSubs[c] \in 0 .. MaxSubsPerConn /\ MaxSubsPerConn \in Nat
      BY <1>1, Constants
    <3>2. \A m \in Nat : \A x \in 0 .. m : 0 .. x \subseteq 0 .. m
      OBVIOUS
    <3> QED BY <1>4, <3>1, <3>2
  <2> QED BY <2>1, <2>2
<1>6. count' \in 0 .. MaxSubsTotal /\ count' <= cap'
  BY <1>1, <1>3, Constants DEF Registry
<1>7. RegistryTypes'
  BY <1>1, <1>5, <1>6 DEF RegistryTypes
<1>8. Registry'
  BY <1>1, <1>3, <1>4, <1>6 DEF Registry
<1> QED BY <1>7, <1>8

-----------------------------------------------------------------------------
(* The registry under the actions that do not touch the cache.             *)

\* A router without connections has nothing registered.
LEMMA RegistryInit ==
  ASSUME Init
  PROVE  RegistryTypes /\ Registry
<1>1. \A k \in Keys : lists[k] = <<>> /\ Len(lists[k]) = 0
  BY DEF Init
<1>2. \A C : Slots(lists, C) = {}
  BY <1>1 DEF Slots
<1>3. IsFiniteSet({}) /\ Cardinality({}) = 0
  BY FS_EmptySet
<1>4. lists \in AllLists
  BY DEF Init, AllLists
<1>5. RegistryTypes
  BY <1>4, Constants DEF Init, RegistryTypes
<1>6. Registry
  <2>1. Slots(lists, Conns) = {} /\ open = {} /\ count = 0 /\ cap = 0
    BY <1>2 DEF Init
  <2>2. ItemsOK(lists, open)
    BY <1>1 DEF ItemsOK
  <2> QED BY <1>3, <2>1, <2>2 DEF Registry
<1> QED BY <1>5, <1>6

\* A new connection starts with no subscription, whatever its slot was used for before.
LEMMA AcceptKeeps ==
  ASSUME RegistryTypes, Registry, NEW c \in Conns, Accept(c)
  PROVE  RegistryTypes' /\ Registry'
<1>1. Slots(lists, {c}) = {}
  <2>1. SUFFICES ASSUME NEW p \in Slots(lists, {c}) PROVE FALSE
    OBVIOUS
  <2>2. p[1] \in Keys /\ p[2] \in 1 .. Len(lists[p[1]]) /\ lists[p[1]][p[2]].conn = c
    BY DEF Slots, RegistryTypes, AllLists
  <2>3. lists[p[1]][p[2]].conn \in open
    BY <2>2 DEF Registry, ItemsOK
  <2> QED BY <2>2, <2>3 DEF Accept
<1>2. Cardinality({}) = 0
  BY FS_EmptySet
<1>3. connSubs' \in [Conns -> 0 .. MaxSubsPerConn] /\ connSubs'[c] = 0 /\ \A e \in Conns \ {c} : connSubs'[e] = connSubs[e]
  BY Constants DEF Accept, RegistryTypes
<1>4. RegistryTypes'
  BY <1>3 DEF Accept, RegistryTypes
<1>5. /\ lists' = lists /\ count' = count /\ cap' = cap /\ open' = open \cup {c}
  BY DEF Accept
<1>6. ASSUME NEW e \in open' PROVE connSubs'[e] = Cardinality(Slots(lists', {e}))
  <2>1. CASE e = c
    BY <1>1, <1>2, <1>3, <1>5, <2>1
  <2>2. CASE e # c
    BY <1>3, <1>5, <2>2 DEF Registry, RegistryTypes
  <2> QED BY <2>1, <2>2
<1>7. ItemsOK(lists', open')
  BY <1>5 DEF ItemsOK, Registry
<1> QED BY <1>4, <1>5, <1>6, <1>7 DEF Registry

\* mb_router_unsubscribe, with and without max_msgs.
LEMMA UnsubscribeKeeps ==
  ASSUME RegistryTypes, Registry, NEW c \in Conns, NEW sid \in Sids, NEW max \in {NoMax} \cup 1 .. MaxMsgs,
         Unsubscribe(c, sid, max)
  PROVE  RegistryTypes' /\ Registry'
<1> DEFINE new == UnsubscribeIn(lists, c, sid, max)
<1>1. lists \in AllLists
  BY DEF RegistryTypes
<1>2. new \in AllLists /\ Within(new, lists, {}) /\ LimitedBy(new, lists, c, sid, max)
  BY <1>1, UnsubscribeProps
<1>3. \A k \in Keys : \A j \in 1 .. Len(new[k]) : \E x \in 1 .. Len(lists[k]) :
          \/ new[k][j] = lists[k][x]
          \/ new[k][j] = [lists[k][x] EXCEPT !.max = max] /\ max # NoMax /\ lists[k][x].delivered < max
  BY <1>2 DEF LimitedBy
<1> HIDE DEF new
<1>4. Shrunk(new, lists)
  BY <1>2 DEF Shrunk, Within
<1>5. ItemsOK(new, open)
  <2>1. SUFFICES ASSUME NEW k \in Keys, NEW j \in 1 .. Len(new[k])
                 PROVE  new[k][j].conn \in open /\ ~AtMax(new[k][j]) /\ ListOf(new[k][j].filter) = k
    BY DEF ItemsOK
  <2>2. PICK x \in 1 .. Len(lists[k]) :
          \/ new[k][j] = lists[k][x]
          \/ new[k][j] = [lists[k][x] EXCEPT !.max = max] /\ max # NoMax /\ lists[k][x].delivered < max
    BY <1>3, <2>1
  <2>3. lists[k][x] \in Sub /\ lists[k][x].conn \in open /\ ~AtMax(lists[k][x]) /\ ListOf(lists[k][x].filter) = k
    BY <1>1, ItemIsSub DEF Registry, ItemsOK
  <2>4. CASE new[k][j] = lists[k][x]
    BY <2>3, <2>4
  <2>5. CASE new[k][j] = [lists[k][x] EXCEPT !.max = max] /\ max # NoMax /\ lists[k][x].delivered < max
    <3>1. /\ new[k][j].conn = lists[k][x].conn /\ new[k][j].filter = lists[k][x].filter
          /\ new[k][j].max = max /\ new[k][j].delivered = lists[k][x].delivered
          /\ lists[k][x].delivered \in Nat
      BY <2>3, <2>5 DEF Sub
    <3>2. max \in Nat
      BY <2>5, BoundsAssumption
    <3>3. ~AtMax(new[k][j])
      BY <2>5, <3>1, <3>2 DEF AtMax
    <3> QED BY <2>3, <3>1, <3>3
  <2> QED BY <2>2, <2>4, <2>5
<1>6. lists' = new /\ NoteRemoved(lists, lists') /\ open' = open /\ cap' = cap
  BY DEF Unsubscribe, new
<1> QED BY <1>2, <1>4, <1>5, <1>6, RemovalKeeps

\* mb_router_remove_conn.
LEMMA BeginCloseKeeps ==
  ASSUME RegistryTypes, Registry, NEW c \in Conns, BeginClose(c)
  PROVE  RegistryTypes' /\ Registry'
<1> DEFINE new == RemoveAllFor(lists, {c})
<1>1. lists \in AllLists
  BY DEF RegistryTypes
<1>2. new \in AllLists /\ Within(new, lists, {}) /\ LeftBy(new, lists, {c})
  BY <1>1, RemoveAllForProps
<1> HIDE DEF new
<1>3. Shrunk(new, lists)
  BY <1>2 DEF Shrunk, Within
<1>4. lists' = new /\ NoteRemoved(lists, lists') /\ open' = open \ {c} /\ cap' = cap
  BY DEF BeginClose, new
<1>5. ItemsOK(new, open \ {c})
  <2>1. SUFFICES ASSUME NEW k \in Keys, NEW j \in 1 .. Len(new[k])
                 PROVE  /\ new[k][j].conn \in open \ {c} /\ ~AtMax(new[k][j])
                        /\ ListOf(new[k][j].filter) = k
    BY DEF ItemsOK
  <2>2. PICK x \in 1 .. Len(lists[k]) : new[k][j] = lists[k][x] /\ new[k][j].conn \notin {c}
    BY <1>2 DEF LeftBy
  <2> QED BY <2>2 DEF ItemsOK, Registry
<1> QED BY <1>2, <1>3, <1>4, <1>5, RemovalKeeps

-----------------------------------------------------------------------------
(* The registry under a publish.                                           *)

\* What is written is bounded and typed.
OutTypes == out \in [Conns -> Seq(Frames)] /\ \A c \in Conns : Len(out[c]) <= MaxPending

\* A publish, the removal of the receivers it closed and of exhausted subscriptions included.
LEMMA PublishKeeps ==
  ASSUME RegistryTypes, Registry, OutTypes, published \in Nat,
         NEW subject \in Subjects, NEW size, NEW pick, NEW budget \in Budgets,
         Publish(subject, size, pick, budget)
  PROVE  RegistryTypes' /\ Registry'
<1> DEFINE d == Deliver(subject, published', pick, budget)
           V == {ListsFor(subject)[n] : n \in 1 .. 3}
           new == RemoveAllFor(d.ls, d.closed)
<1>1. LoopTypes /\ budget \in Nat /\ published' \in Nat \ {0}
  BY BudgetsAssumption DEF LoopTypes, RegistryTypes, OutTypes, Publish
<1>2. \A k \in Keys : \A i \in 1 .. Len(lists[k]) : ~AtMax(lists[k][i])
  BY DEF Registry, ItemsOK
<1>3. d \in Delivering(V, subject, published')
  <2> HIDE DEF V
  <2> QED BY <1>1, <1>2, DeliverProps DEF OutTypes, V
<1>4. lists' = new /\ NoteRemoved(lists, lists') /\ open' = open \ d.closed /\ cap' = cap
  BY DEF Publish
<1> HIDE DEF d, V
<1>5. /\ d.ls \in AllLists
      /\ Shrunk(d.ls, lists)
      /\ \A k \in Keys : \A j \in 1 .. Len(d.ls[k]) :
              ~AtMax(d.ls[k][j]) /\ \E x \in 1 .. Len(lists[k]) : Same(d.ls[k][j], lists[k][x])
  BY <1>3 DEF Delivering, Progress, Shrunk
<1>6. new \in AllLists /\ Within(new, d.ls, {}) /\ LeftBy(new, d.ls, d.closed)
  BY <1>5, RemoveAllForProps
<1> HIDE DEF new
<1>7. Shrunk(new, lists)
  <2>1. Shrunk(new, d.ls)
    BY <1>6 DEF Shrunk, Within
  <2>2. lists \in AllLists
    BY DEF RegistryTypes
  <2> QED BY <1>5, <1>6, <2>1, <2>2, EmbedsTransitive
<1>8. ItemsOK(new, open \ d.closed)
  <2>1. SUFFICES ASSUME NEW k \in Keys, NEW j \in 1 .. Len(new[k])
                 PROVE  /\ new[k][j].conn \in open \ d.closed /\ ~AtMax(new[k][j])
                        /\ ListOf(new[k][j].filter) = k
    BY DEF ItemsOK
  <2>2. PICK x \in 1 .. Len(d.ls[k]) : new[k][j] = d.ls[k][x] /\ new[k][j].conn \notin d.closed
    BY <1>6 DEF LeftBy
  <2>3. PICK y \in 1 .. Len(lists[k]) : ~AtMax(d.ls[k][x]) /\ Same(d.ls[k][x], lists[k][y])
    BY <1>5
  <2>4. lists[k][y].conn \in open /\ ListOf(lists[k][y].filter) = k
    BY DEF Registry, ItemsOK
  <2> QED BY <2>2, <2>3, <2>4 DEF Same
<1> QED BY <1>4, <1>6, <1>7, <1>8, RemovalKeeps

-----------------------------------------------------------------------------
(* The registry under a subscription.                                      *)

\* The lists with one more subscription.
AddedTo(sub) == [lists EXCEPT ![ListOf(sub.filter)] = Append(@, sub)]

\* Appending a subscription adds one slot, to its own connection.
LEMMA AddedProps ==
  ASSUME lists \in AllLists, NEW sub \in Sub
  PROVE  /\ AddedTo(sub) \in AllLists
         /\ ListOf(sub.filter) \in Keys
         /\ \A k \in Keys : \A i \in 1 .. Len(AddedTo(sub)[k]) :
               \/ i \in 1 .. Len(lists[k]) /\ AddedTo(sub)[k][i] = lists[k][i]
               \/ AddedTo(sub)[k][i] = sub /\ k = ListOf(sub.filter)
         /\ \A C : sub.conn \notin C => Slots(AddedTo(sub), C) = Slots(lists, C)
         /\ \A C : sub.conn \in C /\ IsFiniteSet(Slots(lists, C)) =>
               /\ IsFiniteSet(Slots(AddedTo(sub), C))
               /\ Cardinality(Slots(AddedTo(sub), C)) = Cardinality(Slots(lists, C)) + 1
<1> DEFINE new == AddedTo(sub)
           k0 == ListOf(sub.filter)
           n0 == Len(lists[k0])
<1>1. k0 \in Keys
  BY DEF Keys, Sub
<1>2. /\ lists[k0] \in Seq(Sub) /\ n0 \in Nat
      /\ new[k0] = Append(lists[k0], sub) /\ \A k \in Keys : k # k0 => new[k] = lists[k]
  BY <1>1 DEF AllLists, AddedTo
<1>3. new \in AllLists
  BY <1>1, <1>2 DEF AllLists, AddedTo
<1>4. /\ Len(new[k0]) = n0 + 1 /\ new[k0][n0 + 1] = sub
      /\ \A i \in 1 .. n0 : new[k0][i] = lists[k0][i]
  BY <1>2
<1>5. \A k \in Keys : Len(lists[k]) \in Nat /\ Len(new[k]) \in Nat
  BY <1>3 DEF AllLists
<1> HIDE DEF new, k0, n0
<1>6. ASSUME NEW k \in Keys, NEW i \in 1 .. Len(new[k])
      PROVE  \/ i \in 1 .. Len(lists[k]) /\ new[k][i] = lists[k][i]
             \/ new[k][i] = sub /\ k = k0
  <2>1. CASE k # k0
    BY <1>2, <2>1
  <2>2. CASE k = k0
    <3>1. i \in 1 .. n0 \/ i = n0 + 1
      BY <1>2, <1>4, <2>2
    <3> QED BY <1>4, <2>2, <3>1 DEF n0
  <2> QED BY <2>1, <2>2
<1>7. ASSUME NEW C
      PROVE  Slots(new, C) = Slots(lists, C) \cup (IF sub.conn \in C THEN {<<k0, n0 + 1>>} ELSE {})
  <2>1. ASSUME NEW k \in Keys, NEW i \in Nat \ {0}
        PROVE  (i <= Len(new[k]) /\ new[k][i].conn \in C) <=>
               \/ i <= Len(lists[k]) /\ lists[k][i].conn \in C
               \/ sub.conn \in C /\ k = k0 /\ i = n0 + 1
    <3>1. CASE k # k0
      BY <1>2, <3>1
    <3>2. CASE k = k0
      <4>1. Len(new[k]) = n0 + 1 /\ Len(lists[k]) = n0
        BY <1>4, <3>2 DEF n0
      <4>2. CASE i <= n0
        BY <1>2, <1>4, <3>2, <4>1, <4>2
      <4>3. CASE i = n0 + 1
        BY <1>2, <1>4, <3>2, <4>1, <4>3
      <4>4. CASE i > n0 + 1
        BY <1>2, <4>1, <4>4
      <4> QED BY <1>2, <4>2, <4>3, <4>4
    <3> QED BY <3>1, <3>2
  <2>2. n0 + 1 \in Nat \ {0}
    BY <1>2
  <2> QED BY <1>1, <2>1, <2>2 DEF Slots
<1>8. ASSUME NEW C, sub.conn \in C, IsFiniteSet(Slots(lists, C))
      PROVE  /\ IsFiniteSet(Slots(new, C))
             /\ Cardinality(Slots(new, C)) = Cardinality(Slots(lists, C)) + 1
  <2>1. <<k0, n0 + 1>> \notin Slots(lists, C)
    BY <1>2 DEF Slots, n0
  <2>2. Slots(new, C) = Slots(lists, C) \cup {<<k0, n0 + 1>>}
    BY <1>7, <1>8
  <2> QED BY <1>8, <2>1, <2>2, FS_AddElement
<1> QED BY <1>1, <1>3, <1>6, <1>7, <1>8 DEF new, k0

\* mb_router_unsubscribe, counted: the other connections lose nothing.
LEMMA TakenBack ==
  ASSUME NEW ls \in AllLists, IsFiniteSet(Slots(ls, Conns)), NEW c \in Conns, NEW sid \in Sids,
         NEW back, back = UnsubscribeIn(ls, c, sid, NoMax)
  PROVE  /\ back \in AllLists
         /\ \A C \in {Conns, {c}} :
               /\ IsFiniteSet(Slots(back, C)) /\ Cardinality(Slots(ls, C)) \in Nat
               /\ Dec(Cardinality(Slots(ls, C)), Cardinality(Slots(ls, C)) - Cardinality(Slots(back, C)))
                     = Cardinality(Slots(back, C))
               /\ Cardinality(Slots(back, C)) \in 0 .. Cardinality(Slots(ls, C))
         /\ \A e \in Conns \ {c} : Cardinality(Slots(back, {e})) = Cardinality(Slots(ls, {e}))
         /\ LeftBy(back, ls, {})
<1>1. back \in AllLists /\ Within(back, ls, {}) /\ LimitedBy(back, ls, c, sid, NoMax)
  BY UnsubscribeProps
<1>2. LeftBy(back, ls, {})
  BY <1>1 DEF LeftBy, LimitedBy
<1>3. Shrunk(back, ls)
  BY <1>1 DEF Shrunk, Within
<1>4. Counted(back, ls, Conns) /\ Counted(back, ls, {c})
  BY <1>1, <1>3, ShrunkCounted
<1>5. ASSUME NEW e \in Conns \ {c} PROVE Cardinality(Slots(back, {e})) = Cardinality(Slots(ls, {e}))
  <2>1. Within(back, ls, {e})
    BY UnsubscribeProps
  <2>2. \A k \in Keys : \E f : Embeds(f, back[k], ls[k]) /\ (TRUE => Covers(f, back[k], ls[k], {e}))
    BY <2>1 DEF Within
  <2>3. IsFiniteSet(Slots(ls, {e}))
    BY ConnSlots
  <2> QED BY <1>1, <2>2, <2>3, SlotsEmbed
<1>6. ASSUME NEW C \in {Conns, {c}}
      PROVE  /\ IsFiniteSet(Slots(back, C)) /\ Cardinality(Slots(ls, C)) \in Nat
             /\ Dec(Cardinality(Slots(ls, C)), Cardinality(Slots(ls, C)) - Cardinality(Slots(back, C)))
                   = Cardinality(Slots(back, C))
             /\ Cardinality(Slots(back, C)) \in 0 .. Cardinality(Slots(ls, C))
  <2>1. Counted(back, ls, C)
    BY <1>4
  <2> QED BY <2>1, DecProps DEF Counted
<1> QED BY <1>1, <1>2, <1>5, <1>6

\* mb_router_subscribe_queue, whether the replay fits or not.
LEMMA SubscribeKeeps ==
  ASSUME RegistryTypes, Registry,
         NEW c \in Conns, NEW filter \in Filters, NEW lvc \in Kinds, NEW queue \in Queues, NEW sid \in Sids,
         Subscribe(c, filter, lvc, queue, sid)
  PROVE  RegistryTypes' /\ Registry'
<1> DEFINE sub == [conn |-> c, filter |-> filter, lvc |-> lvc, queue |-> queue, sid |-> sid,
                   delivered |-> 0, max |-> NoMax]
           added == AddedTo(sub)
           back == UnsubscribeIn(added, c, sid, NoMax)
           replay == IF lvc THEN EmitCached(sub, MaxPending - Len(out[c])) ELSE [ok |-> TRUE, frames |-> <<>>]
<1>1. /\ lists \in AllLists /\ count \in 0 .. MaxSubsTotal /\ connSubs \in [Conns -> 0 .. MaxSubsPerConn]
      /\ cap \in Nat /\ open \subseteq Conns /\ count \in Nat /\ connSubs[c] \in Nat
      /\ {MaxSubsTotal, MaxSubsPerConn} \subseteq Nat
  BY Constants DEF RegistryTypes
<1>2. sub \in Sub /\ sub.conn = c /\ ~AtMax(sub) /\ sub.filter = filter
  BY DEF Sub, AtMax
<1>3. c \in open /\ connSubs[c] < MaxSubsPerConn /\ count < MaxSubsTotal /\ cap' = ReservedCap /\ open' = open
  BY DEF Subscribe
<1>4. /\ lists' = IF replay.ok THEN added ELSE back
      /\ count' = IF replay.ok THEN count + 1 ELSE Dec(count + 1, HeldAll(added) - HeldAll(back))
      /\ connSubs' = [connSubs EXCEPT ![c] =
                             IF replay.ok THEN @ + 1 ELSE Dec(@ + 1, Held(added, c) - Held(back, c))]
  BY DEF Subscribe, AddedTo
<1> HIDE DEF sub, replay
<1>5. added \in AllLists /\ \A k \in Keys : \A i \in 1 .. Len(added[k]) :
               \/ i \in 1 .. Len(lists[k]) /\ added[k][i] = lists[k][i]
               \/ added[k][i] = sub /\ k = ListOf(filter)
  BY <1>1, <1>2, AddedProps
<1>6. ItemsOK(added, open)
  BY <1>2, <1>3, <1>5 DEF ItemsOK, Registry
<1>7. /\ IsFiniteSet(Slots(lists, Conns)) /\ count = Cardinality(Slots(lists, Conns))
      /\ \A e \in open : IsFiniteSet(Slots(lists, {e})) /\ connSubs[e] = Cardinality(Slots(lists, {e}))
  BY <1>1, ConnSlots DEF Registry
<1>8. /\ IsFiniteSet(Slots(added, Conns)) /\ Cardinality(Slots(added, Conns)) = count + 1
      /\ Cardinality(Slots(added, {c})) = connSubs[c] + 1
      /\ \A e \in open \ {c} : Cardinality(Slots(added, {e})) = connSubs[e]
  <2>1. /\ \A C : sub.conn \notin C => Slots(added, C) = Slots(lists, C)
        /\ \A C : sub.conn \in C /\ IsFiniteSet(Slots(lists, C)) =>
               /\ IsFiniteSet(Slots(added, C))
               /\ Cardinality(Slots(added, C)) = Cardinality(Slots(lists, C)) + 1
    BY <1>1, <1>2, AddedProps
  <2> HIDE DEF added
  <2>2. c \in Conns /\ c \in {c} /\ \A e \in open \ {c} : c \notin {e}
    OBVIOUS
  <2> QED BY <1>2, <1>3, <1>7, <2>1, <2>2
<1>9. cap' \in Nat /\ count + 1 <= cap'
  BY <1>1, <1>3 DEF ReservedCap, Registry
<1>10. CASE replay.ok
  <2>1. lists' = added /\ count' = count + 1 /\ connSubs' = [connSubs EXCEPT ![c] = @ + 1]
    BY <1>4, <1>10
  <2> HIDE DEF added, back
  <2>2. /\ connSubs' \in [Conns -> 0 .. MaxSubsPerConn] /\ connSubs'[c] = connSubs[c] + 1
        /\ \A e \in Conns \ {c} : connSubs'[e] = connSubs[e]
    BY <1>1, <1>3, <2>1
  <2>3. RegistryTypes'
    BY <1>1, <1>3, <1>5, <1>9, <2>1, <2>2 DEF RegistryTypes
  <2>4. \A e \in open' : connSubs'[e] = Cardinality(Slots(lists', {e}))
    BY <1>1, <1>3, <1>8, <2>1, <2>2
  <2> QED BY <1>3, <1>6, <1>8, <1>9, <2>1, <2>3, <2>4 DEF Registry
<1>11. CASE ~replay.ok
  <2>1. /\ lists' = back /\ count' = Dec(count + 1, HeldAll(added) - HeldAll(back))
        /\ connSubs' = [connSubs EXCEPT ![c] = Dec(@ + 1, Held(added, c) - Held(back, c))]
    BY <1>4, <1>11
  <2>2. /\ back \in AllLists
        /\ \A C \in {Conns, {c}} :
               /\ IsFiniteSet(Slots(back, C)) /\ Cardinality(Slots(added, C)) \in Nat
               /\ Dec(Cardinality(Slots(added, C)), Cardinality(Slots(added, C)) - Cardinality(Slots(back, C)))
                     = Cardinality(Slots(back, C))
               /\ Cardinality(Slots(back, C)) \in 0 .. Cardinality(Slots(added, C))
        /\ \A e \in Conns \ {c} : Cardinality(Slots(back, {e})) = Cardinality(Slots(added, {e}))
        /\ LeftBy(back, added, {})
    BY <1>5, <1>8, TakenBack
  <2> HIDE DEF added, back
  <2>3. HeldAll(added) = Cardinality(Slots(added, Conns)) /\ HeldAll(back) = Cardinality(Slots(back, Conns))
    BY <1>5, <2>2, HeldSlots
  <2>4. Held(added, c) = Cardinality(Slots(added, {c})) /\ Held(back, c) = Cardinality(Slots(back, {c}))
    BY <1>5, <2>2, HeldSlots
  <2>5. count' = Cardinality(Slots(back, Conns)) /\ count' \in 0 .. count + 1 /\ IsFiniteSet(Slots(back, Conns))
    BY <1>8, <2>1, <2>2, <2>3
  <2>6. connSubs'[c] = Cardinality(Slots(back, {c})) /\ connSubs'[c] \in 0 .. connSubs[c] + 1
    <3>1. connSubs'[c] = Dec(connSubs[c] + 1, Held(added, c) - Held(back, c))
      BY <1>1, <2>1
    <3> QED BY <1>8, <2>2, <2>4, <3>1
  <2>7. \A e \in Conns \ {c} : connSubs'[e] = connSubs[e]
    BY <1>1, <2>1
  <2>8. connSubs' \in [Conns -> 0 .. MaxSubsPerConn]
    <3> DEFINE n == Dec(connSubs[c] + 1, Held(added, c) - Held(back, c))
    <3>1. connSubs' = [connSubs EXCEPT ![c] = n] /\ connSubs'[c] = n
      BY <1>1, <2>1
    <3> HIDE DEF n
    <3>2. n \in 0 .. MaxSubsPerConn
      BY <1>1, <1>3, <2>6, <3>1
    <3> QED BY <1>1, <3>1, <3>2
  <2>9. count' \in 0 .. MaxSubsTotal /\ count' <= cap'
    BY <1>1, <1>3, <1>9, <2>5
  <2>10. RegistryTypes'
    BY <1>1, <1>3, <1>9, <2>1, <2>2, <2>8, <2>9 DEF RegistryTypes
  <2>11. \A e \in open' : connSubs'[e] = Cardinality(Slots(lists', {e}))
    BY <1>1, <1>3, <1>8, <2>1, <2>2, <2>6, <2>7
  <2>12. ItemsOK(lists', open')
    <3>1. \A k \in Keys : \A j \in 1 .. Len(back[k]) : \E x \in 1 .. Len(added[k]) : back[k][j] = added[k][x]
      BY <2>2 DEF LeftBy
    <3> QED BY <1>3, <1>6, <2>1, <3>1, SMTT(30) DEF ItemsOK
  <2> QED BY <2>1, <2>5, <2>9, <2>10, <2>11, <2>12 DEF Registry
<1> QED BY <1>10, <1>11

-----------------------------------------------------------------------------
(* The bytes of the cache.                                                 *)

\* The partial sums of TotalSize.
IsSum(f, s) ==
    /\ f \in [0 .. Len(s) -> Nat]
    /\ f[0] = 0 /\ \A n \in 1 .. Len(s) : f[n] = f[n - 1] + s[n].size

\* The fields of a cached entry.
LEMMA EntryProps ==
  ASSUME NEW s \in Seq(Entry), NEW i \in 1 .. Len(s)
  PROVE  /\ s[i] \in Entry /\ s[i].size \in Sizes /\ s[i].size \in Nat
         /\ s[i].subject \in Subjects /\ s[i].msg \in Nat \ {0}
<1>1. s[i] \in Entry
  BY ElementOfSeq
<1> QED BY <1>1, BudgetsAssumption DEF Entry

\* TotalSize is the last of the partial sums.
LEMMA SumExists ==
  ASSUME NEW s \in Seq(Entry)
  PROVE  \E f : IsSum(f, s) /\ TotalSize(s) = f[Len(s)]
<1> DEFINE N == Len(s)
           T == [n \in 0 .. N |-> Nat]
           F == [p \in (1 .. N) \X Nat |-> p[2] + s[p[1]].size]
<1>1. N \in Nat
  OBVIOUS
<1>2. ASSUME NEW n \in 1 .. N, NEW x \in Nat PROVE F[<<n, x>>] = x + s[n].size /\ x + s[n].size \in Nat
  BY EntryProps
<1>3. ASSUME NEW n \in 1 .. N, NEW x \in T[n - 1] PROVE F[<<n, x>>] \in T[n]
  <2>1. T[n - 1] = Nat /\ T[n] = Nat
    BY <1>1
  <2> HIDE DEF T, F, N
  <2>2. F[<<n, x>>] = x + s[n].size /\ x + s[n].size \in Nat
    BY <1>2, <2>1
  <2> QED BY <2>1, <2>2
<1>4. 0 \in T[0]
  BY <1>1
<1>5. PICK g : IsRun(g, N, 0, F) /\ \A n \in 0 .. N : g[n] \in T[n]
  <2> HIDE DEF T, F, N
  <2> QED BY <1>1, <1>3, <1>4, Recursion
<1> HIDE DEF F
<1>6. \A n \in 0 .. N : g[n] \in Nat
  BY <1>5
<1> HIDE DEF T, N
<1>7. g = [n \in 0 .. N |-> IF n = 0 THEN 0 ELSE g[n - 1] + s[n].size]
  <2>1. \A n \in 0 .. N : n # 0 => n \in 1 .. N /\ n - 1 \in 0 .. N
    BY <1>1
  <2>2. \A n \in 0 .. N : n # 0 => F[<<n, g[n - 1]>>] = g[n - 1] + s[n].size
    BY <1>2, <1>6, <2>1
  <2> QED BY <1>5, <2>2 DEF IsRun
<1>8. PICK h : h = [n \in 0 .. N |-> IF n = 0 THEN 0 ELSE h[n - 1] + s[n].size] /\ TotalSize(s) = h[N]
  BY <1>7, Zenon DEF TotalSize, N
<1>9. h[0] = 0 /\ \A n \in 1 .. N : h[n] = h[n - 1] + s[n].size
  BY <1>1, <1>8
<1>10. \A n \in 0 .. N : h[n] \in T[n]
  <2>1. h[0] \in T[0]
    BY <1>4, <1>9
  <2>2. ASSUME NEW n \in 1 .. N, h[n - 1] \in T[n - 1] PROVE h[n] \in T[n]
    <3>1. T[n] = Nat /\ T[n - 1] = Nat
      BY <1>1 DEF T
    <3> QED BY <1>2, <1>9, <2>2, <3>1
  <2> QED BY <1>1, <2>1, <2>2, Stays
<1>11. h \in [0 .. N -> Nat]
  <2>1. \A n \in 0 .. N : h[n] \in Nat
    BY <1>10 DEF T
  <2>2. h = [n \in 0 .. N |-> h[n]]
    BY <1>8
  <2> QED BY <2>1, <2>2
<1>12. IsSum(h, s)
  BY <1>9, <1>11 DEF IsSum, N
<1> QED BY <1>8, <1>12 DEF N

\* Two caches that differ in the i-th entry differ by what it holds.
LEMMA SumsDiffer ==
  ASSUME NEW s \in Seq(Entry), NEW t \in Seq(Entry), NEW N \in Nat, N <= Len(s), N <= Len(t),
         NEW i \in Nat, \A j \in 1 .. N : j # i => s[j].size = t[j].size,
         NEW f, IsSum(f, s), NEW g, IsSum(g, t)
  PROVE  g[N] = f[N] + (IF i \in 1 .. N THEN t[i].size - s[i].size ELSE 0)
<1> DEFINE P == {n \in 0 .. N : g[n] = f[n] + (IF i \in 1 .. n THEN t[i].size - s[i].size ELSE 0)}
<1>1. 0 \in P
  <2>1. f[0] = 0 /\ g[0] = 0
    BY DEF IsSum
  <2> QED BY <2>1
<1>2. ASSUME NEW n \in 1 .. N, n - 1 \in P PROVE n \in P
  <2>1. n \in 1 .. Len(s) /\ n \in 1 .. Len(t)
    OBVIOUS
  <2>2. f[n] = f[n - 1] + s[n].size /\ g[n] = g[n - 1] + t[n].size
    BY <2>1 DEF IsSum
  <2>3. s[n].size \in Nat /\ t[n].size \in Nat
    BY <2>1, EntryProps
  <2>4. f[n - 1] \in Nat /\ g[n - 1] \in Nat
    <3>1. n - 1 \in 0 .. Len(s) /\ n - 1 \in 0 .. Len(t)
      BY <2>1
    <3> QED BY <3>1 DEF IsSum
  <2> DEFINE a == f[n - 1]
             b == g[n - 1]
             x == s[n].size
             y == t[n].size
  <2>5. a \in Nat /\ b \in Nat /\ x \in Nat /\ y \in Nat /\ f[n] = a + x /\ g[n] = b + y
    BY <2>2, <2>3, <2>4
  <2>6. CASE i = n
    <3>1. b = a
      BY <1>2, <2>5, <2>6
    <3> HIDE DEF a, b, x, y
    <3>2. g[n] = f[n] + (y - x)
      BY <2>5, <3>1
    <3> QED BY <2>6, <3>2 DEF x, y
  <2>7. CASE i # n /\ i \in 1 .. n - 1
    <3> DEFINE z == t[i].size - s[i].size
    <3>1. t[i].size \in Nat /\ s[i].size \in Nat
      BY <2>7, EntryProps
    <3>2. z \in Int /\ b = a + z /\ x = y
      BY <1>2, <2>7, <3>1
    <3> HIDE DEF a, b, x, y, z
    <3>3. g[n] = f[n] + z
      BY <2>5, <3>2
    <3> QED BY <2>7, <3>3 DEF z
  <2>8. CASE i # n /\ i \notin 1 .. n - 1
    <3>1. b = a /\ x = y
      BY <1>2, <2>5, <2>8
    <3> HIDE DEF a, b, x, y
    <3>2. g[n] = f[n] + 0
      BY <2>5, <3>1
    <3> QED BY <2>8, <3>2
  <2> QED BY <2>6, <2>7, <2>8
<1>3. 0 .. N \subseteq P
  <2> HIDE DEF P
  <2> QED BY <1>1, <1>2, Induction
<1> QED BY <1>3

\* A cache with one more entry, and one in which an entry is replaced.
LEMMA SizeAppended ==
  ASSUME NEW s \in Seq(Entry), NEW e \in Entry
  PROVE  TotalSize(Append(s, e)) = TotalSize(s) + e.size
<1> DEFINE t == Append(s, e)
           N == Len(s)
<1>1. t \in Seq(Entry) /\ N \in Nat /\ Len(t) = N + 1 /\ t[N + 1] = e /\ \A j \in 1 .. N : t[j] = s[j]
  OBVIOUS
<1> HIDE DEF t, N
<1>2. PICK f : IsSum(f, s) /\ TotalSize(s) = f[Len(s)]
  BY SumExists
<1>3. PICK g : IsSum(g, t) /\ TotalSize(t) = g[Len(t)]
  BY <1>1, SumExists
<1>4. g[N] = f[N] + (IF 0 \in 1 .. N THEN t[0].size - s[0].size ELSE 0)
  BY <1>1, <1>2, <1>3, SumsDiffer, SMTT(30) DEF N
<1>5. f[N] \in Nat
  BY <1>1, <1>2 DEF IsSum, N
<1>6. g[N] = f[N]
  BY <1>4, <1>5
<1>7. g[N + 1] = g[N] + e.size
  <2>1. N + 1 \in 1 .. Len(t) /\ (N + 1) - 1 = N
    BY <1>1
  <2> QED BY <1>1, <1>3, <2>1 DEF IsSum
<1> QED BY <1>1, <1>2, <1>3, <1>6, <1>7 DEF t, N

\* Another entry in the place of one changes the total by their difference.
LEMMA SizeReplaced ==
  ASSUME NEW s \in Seq(Entry), NEW t \in Seq(Entry), Len(t) = Len(s), NEW i \in 1 .. Len(s),
         \A j \in 1 .. Len(s) : j # i => s[j] = t[j]
  PROVE  TotalSize(t) = TotalSize(s) + t[i].size - s[i].size /\ TotalSize(s) \in Nat /\ TotalSize(t) \in Nat
<1> DEFINE N == Len(s)
           x == s[i].size
           y == t[i].size
<1>1. N \in Nat /\ i \in 1 .. N
  OBVIOUS
<1>2. PICK f : IsSum(f, s) /\ TotalSize(s) = f[N]
  BY SumExists
<1>3. PICK g : IsSum(g, t) /\ TotalSize(t) = g[N]
  BY SumExists
<1>4. f[N] \in Nat /\ g[N] \in Nat
  BY <1>1, <1>2, <1>3 DEF IsSum
<1>5. g[N] = f[N] + (IF i \in 1 .. N THEN y - x ELSE 0)
  BY <1>1, <1>2, <1>3, SumsDiffer, SMTT(30)
<1>6. x \in Nat /\ y \in Nat
  BY EntryProps
<1> HIDE DEF x, y, N
<1>7. g[N] = f[N] + y - x
  BY <1>1, <1>4, <1>5, <1>6
<1> QED BY <1>2, <1>3, <1>4, <1>7 DEF x, y

-----------------------------------------------------------------------------
(* lvc_store.                                                              *)

CacheTypes ==
    /\ cache \in Seq(Entry) /\ lvcBytes \in Nat
    /\ published \in 0 .. MaxPublishes /\ \A i \in 1 .. Len(cache) : cache[i].msg <= published

\* The entries lvc_store leaves as they are, and the one it writes.
LEMMA StoreKeeps ==
  ASSUME CacheTypes, CacheAccounted, NEW subject \in Subjects, NEW size \in Sizes,
         published < MaxPublishes, published' = published + 1,
         ~LvcRefuses(subject, size), LvcStore(subject, published', size)
  PROVE  CacheTypes' /\ CacheAccounted'
<1> DEFINE entry == [subject |-> subject, msg |-> published', size |-> size]
<1>1. /\ cache \in Seq(Entry) /\ lvcBytes \in Nat /\ published \in 0 .. MaxPublishes
      /\ \A i \in 1 .. Len(cache) : cache[i].msg <= published
      /\ DOMAIN cache = 1 .. Len(cache) /\ Len(cache) \in Nat
      /\ {MaxPublishes, MaxLvcBytes, MaxLvcEntries} \subseteq Nat /\ size \in Nat
  BY Constants, BoundsAssumption, BudgetsAssumption, SMTT(30) DEF CacheTypes
<1>2. published' \in 0 .. MaxPublishes /\ published' \in Nat \ {0}
  BY <1>1
<1>3. entry \in Entry /\ entry.subject = subject /\ entry.size = size /\ entry.msg = published'
  BY <1>2 DEF Entry
<1>4. /\ lvcBytes = TotalSize(cache) /\ lvcBytes <= MaxLvcBytes /\ Len(cache) <= MaxLvcEntries
      /\ \A i, j \in DOMAIN cache : cache[i].subject = cache[j].subject => i = j
  BY DEF CacheAccounted
<1>5. \A i \in 1 .. Len(cache) : cache[i].msg \in Nat /\ cache[i].size \in Nat /\ cache[i].msg <= published'
  <2>1. SUFFICES ASSUME NEW i \in 1 .. Len(cache)
                 PROVE  cache[i].msg \in Nat /\ cache[i].size \in Nat /\ cache[i].msg <= published'
    OBVIOUS
  <2>2. cache[i].msg \in Nat /\ cache[i].size \in Nat
    BY <1>1, EntryProps
  <2> DEFINE m == cache[i].msg
  <2>3. m \in Nat /\ m <= published
    BY <1>1, <2>2
  <2> HIDE DEF m
  <2>4. m <= published'
    BY <1>1, <2>3
  <2> QED BY <2>2, <2>4 DEF m
<1> HIDE DEF entry
<1>6. CASE ~Cached(subject)
  <2>1. cache' = cache /\ lvcBytes' = lvcBytes
    BY <1>6 DEF LvcStore
  <2> QED BY <1>1, <1>2, <1>4, <1>5, <2>1 DEF CacheTypes, CacheAccounted
<1>7. CASE Cached(subject) /\ Entries(subject) = {}
  <2>1. cache' = Append(cache, entry) /\ lvcBytes' = lvcBytes + size
    BY <1>1, <1>7 DEF LvcStore, BytesWith, entry
  <2>2. lvcBytes' <= MaxLvcBytes /\ Len(cache) < MaxLvcEntries
    BY <1>1, <1>7, <2>1 DEF LvcRefuses, BytesWith
  <2>3. /\ cache' \in Seq(Entry) /\ Len(cache') = Len(cache) + 1 /\ DOMAIN cache' = 1 .. Len(cache) + 1
        /\ cache'[Len(cache) + 1] = entry
        /\ \A i \in 1 .. Len(cache) : cache'[i] = cache[i]
    BY <1>1, <1>3, <2>1
  <2>4. lvcBytes' = TotalSize(cache')
    BY <1>1, <1>3, <1>4, <2>1, SizeAppended
  <2>5. \A i \in 1 .. Len(cache) : cache[i].subject # subject
    BY <1>1, <1>7 DEF Entries
  <2>6. \A i \in 1 .. Len(cache) + 1 : i \in 1 .. Len(cache) \/ i = Len(cache) + 1
    BY <1>1
  <2>7. \A i \in 1 .. Len(cache') : cache'[i].msg <= published'
    BY <1>2, <1>3, <1>5, <2>3, <2>6
  <2>8. \A i, j \in DOMAIN cache' : cache'[i].subject = cache'[j].subject => i = j
    BY <1>1, <1>3, <1>4, <2>3, <2>5, <2>6
  <2>9. lvcBytes' \in Nat /\ Len(cache') <= MaxLvcEntries
    BY <1>1, <2>1, <2>2, <2>3
  <2> QED BY <1>2, <2>2, <2>3, <2>4, <2>7, <2>8, <2>9 DEF CacheTypes, CacheAccounted
<1>8. CASE Cached(subject) /\ Entries(subject) # {}
  <2>1. PICK i \in 1 .. Len(cache) : cache[i].subject = subject
    BY <1>1, <1>8 DEF Entries
  <2>2. Entries(subject) = {i}
    BY <1>1, <1>4, <2>1 DEF Entries
  <2>3. cache' = [j \in 1 .. Len(cache) |-> IF j = i THEN entry ELSE cache[j]]
    BY <1>1, <1>8, <2>2 DEF LvcStore, entry
  <2>4. lvcBytes' = lvcBytes + size - cache[i].size /\ lvcBytes' <= MaxLvcBytes
    <3>1. (CHOOSE j \in Entries(subject) : TRUE) = i
      BY <2>2
    <3>2. BytesWith(subject, size) = lvcBytes + size - cache[i].size
      BY <1>8, <3>1 DEF BytesWith
    <3>3. lvcBytes' = BytesWith(subject, size)
      BY <1>8 DEF LvcStore
    <3>4. ~(BytesWith(subject, size) > MaxLvcBytes)
      BY <1>8 DEF LvcRefuses
    <3> DEFINE x == cache[i].size
    <3>5. x \in Nat
      BY <1>5
    <3> HIDE DEF x
    <3> QED BY <1>1, <3>2, <3>3, <3>4, <3>5 DEF x
  <2>5. /\ cache' \in Seq(Entry) /\ Len(cache') = Len(cache) /\ DOMAIN cache' = 1 .. Len(cache)
        /\ cache'[i] = entry /\ \A j \in 1 .. Len(cache) : j # i => cache[j] = cache'[j]
    BY <1>1, <1>3, <2>3, EntryProps
  <2>6. lvcBytes' = TotalSize(cache') /\ lvcBytes' \in Nat
    BY <1>1, <1>3, <1>4, <2>4, <2>5, SizeReplaced
  <2>7. \A j \in 1 .. Len(cache') : cache'[j].msg <= published'
    BY <1>2, <1>3, <1>5, <2>5
  <2>8. \A j \in 1 .. Len(cache) : cache'[j].subject = cache[j].subject
    BY <1>3, <2>1, <2>5
  <2>9. \A j, l \in DOMAIN cache' : cache'[j].subject = cache'[l].subject => j = l
    BY <1>1, <1>4, <2>5, <2>8
  <2> QED BY <1>2, <1>4, <2>4, <2>5, <2>6, <2>7, <2>9 DEF CacheTypes, CacheAccounted
<1> QED BY <1>6, <1>7, <1>8

-----------------------------------------------------------------------------
(* Matching.                                                               *)

\* What the loop of subject_matches returns from the i-th token on.
FitsFrom(f, s, i) ==
    LET fixed == IF f[Len(f)] = FullWild THEN Len(f) - 1 ELSE Len(f)
    IN  \/ i > Len(f) /\ i > Len(s)
        \/ /\ i <= Len(f)
           /\ \A j \in i .. fixed : j <= Len(s) /\ f[j] \in {Star, s[j]}
           /\ fixed = Len(f) => Len(s) <= Len(f)

\* A round of the loop, which returns x if it goes on.
Round(f, s, i, x) ==
    IF i > Len(f) THEN i > Len(s)
    ELSE IF f[i] = FullWild THEN i = Len(f)
    ELSE /\ i <= Len(s)
         /\ f[i] \in {Star, s[i]}
         /\ x

\* The loop computes it.
LEMMA MatchesFrom ==
  ASSUME NEW f \in ValidFilters, NEW s \in ValidSubjects
  PROVE  SubjectMatches(f, s) <=> FitsFrom(f, s, 1)
<1> DEFINE N == Len(f)
           g == [i \in 1 .. N + 1 |-> FitsFrom(f, s, i)]
<1>1. N \in Nat \ {0} /\ Len(s) \in Nat /\ \A i \in 1 .. N - 1 : f[i] # FullWild
  BY DEF ValidFilters, ValidSubjects
<1>2. ASSUME NEW i \in 1 .. N + 1
      PROVE  /\ i > N => (FitsFrom(f, s, i) <=> i > Len(s))
             /\ i <= N /\ f[i] = FullWild => (FitsFrom(f, s, i) <=> i = N)
             /\ i <= N /\ f[i] # FullWild =>
                   (FitsFrom(f, s, i) <=> i <= Len(s) /\ f[i] \in {Star, s[i]} /\ FitsFrom(f, s, i + 1))
             /\ FitsFrom(f, s, i) \in BOOLEAN
  <2> DEFINE fixed == IF f[N] = FullWild THEN N - 1 ELSE N
             ok(j) == j <= Len(s) /\ f[j] \in {Star, s[j]}
  <2>1. FitsFrom(f, s, i) \in BOOLEAN
    BY Zenon DEF FitsFrom
  <2>2. CASE i > N
    BY <1>1, <2>1, <2>2 DEF FitsFrom
  <2>3. CASE i <= N /\ f[i] = FullWild
    <3>1. i = N /\ fixed = N - 1
      BY <1>1, <2>3
    <3>2. i .. fixed = {} /\ fixed # N
      BY <1>1, <3>1
    <3>3. FitsFrom(f, s, i)
      BY <1>1, <2>3, <3>1, <3>2 DEF FitsFrom
    <3> QED BY <1>1, <2>1, <2>3, <3>1, <3>3
  <2>4. CASE i <= N /\ f[i] # FullWild
    <3>1. i \in 1 .. fixed /\ fixed \in 0 .. N
      BY <1>1, <2>4
    <3>2. FitsFrom(f, s, i) <=> (\A j \in i .. fixed : ok(j)) /\ (fixed = N => Len(s) <= N)
      BY <1>1, <2>4 DEF FitsFrom
    <3>3. (\A j \in i .. fixed : ok(j)) <=> ok(i) /\ \A j \in i + 1 .. fixed : ok(j)
      <4>1. i \in i .. fixed /\ \A j \in i .. fixed : j = i \/ j \in i + 1 .. fixed
        BY <1>1, <3>1
      <4>2. i + 1 .. fixed \subseteq i .. fixed
        BY <1>1, <3>1
      <4> HIDE DEF ok, fixed
      <4> QED BY <4>1, <4>2
    <3>4. ASSUME i + 1 <= N PROVE FitsFrom(f, s, i) <=> ok(i) /\ FitsFrom(f, s, i + 1)
      <4>1. FitsFrom(f, s, i + 1) <=> (\A j \in i + 1 .. fixed : ok(j)) /\ (fixed = N => Len(s) <= N)
        BY <1>1, <3>4 DEF FitsFrom
      <4>2. FitsFrom(f, s, i) <=> ok(i) /\ FitsFrom(f, s, i + 1)
        <5> HIDE DEF fixed, ok
        <5> QED BY <3>2, <3>3, <4>1
      <4> QED BY <4>2
    <3>5. ASSUME i = N PROVE FitsFrom(f, s, i) <=> ok(i) /\ FitsFrom(f, s, i + 1)
      <4>1. fixed = N /\ i + 1 .. fixed = {}
        BY <1>1, <2>4, <3>5
      <4>2. FitsFrom(f, s, i + 1) <=> Len(s) <= N
        BY <1>1, <3>5 DEF FitsFrom
      <4>3. FitsFrom(f, s, i) <=> ok(i) /\ FitsFrom(f, s, i + 1)
        <5> HIDE DEF fixed, ok
        <5> QED BY <3>2, <3>3, <4>1, <4>2
      <4> QED BY <4>3
    <3>6. FitsFrom(f, s, i) <=> ok(i) /\ FitsFrom(f, s, i + 1)
      BY <1>1, <2>4, <3>4, <3>5
    <3> QED BY <1>1, <2>1, <2>4, <3>6
  <2> QED BY <1>1, <2>2, <2>3, <2>4
<1>3. ASSUME NEW i \in 1 .. N + 1, NEW x, i <= N => x = FitsFrom(f, s, i + 1)
      PROVE  FitsFrom(f, s, i) = Round(f, s, i, x)
  <2>1. i <= N <=> ~(i > N)
    BY <1>1
  <2>2. Round(f, s, i, x) \in BOOLEAN
    <3>1. (i > Len(s)) \in BOOLEAN
      BY <1>1
    <3>2. (i = N) \in BOOLEAN /\ (i <= Len(s) /\ f[i] \in {Star, s[i]} /\ x) \in BOOLEAN
      BY Zenon
    <3> QED BY <3>1, <3>2, Zenon DEF Round
  <2>3. FitsFrom(f, s, i) <=> Round(f, s, i, x)
    <3>1. CASE i > N
      BY <1>2, <3>1 DEF Round
    <3>2. CASE ~(i > N) /\ f[i] = FullWild
      BY <1>2, <2>1, <3>2 DEF Round
    <3>3. CASE ~(i > N) /\ f[i] # FullWild
      BY <1>3, <1>2, <2>1, <3>3, Zenon DEF Round
    <3> QED BY <3>1, <3>2, <3>3
  <2> HIDE DEF N
  <2> QED BY <1>2, <2>2, <2>3, Zenon
<1>4. g = [i \in 1 .. N + 1 |-> IF i > N THEN i > Len(s)
                                ELSE IF f[i] = FullWild THEN i = N
                                ELSE /\ i <= Len(s)
                                     /\ f[i] \in {Star, s[i]}
                                     /\ g[i + 1]]
  <2>1. \A i \in 1 .. N + 1 : g[i] = FitsFrom(f, s, i)
    OBVIOUS
  <2>2. \A i \in 1 .. N + 1 : ~(i > N) => i + 1 \in 1 .. N + 1
    BY <1>1
  <2> HIDE DEF N, g
  <2>3. ASSUME NEW i \in 1 .. N + 1 PROVE g[i] = Round(f, s, i, g[i + 1])
    <3>1. i <= N => g[i + 1] = FitsFrom(f, s, i + 1)
      BY <1>1, <2>1
    <3> QED BY <1>3, <2>1, <3>1
  <2>4. g = [i \in 1 .. N + 1 |-> g[i]]
    BY DEF g
  <2> QED BY <2>3, <2>4, Zenon DEF Round, N
<1> HIDE DEF g
<1>5. PICK h : /\ h = [i \in 1 .. N + 1 |-> IF i > N THEN i > Len(s)
                                            ELSE IF f[i] = FullWild THEN i = N
                                            ELSE /\ i <= Len(s)
                                                 /\ f[i] \in {Star, s[i]}
                                                 /\ h[i + 1]]
               /\ SubjectMatches(f, s) = h[1]
  BY <1>4, Zenon DEF SubjectMatches
<1> HIDE DEF N
<1>6. \A i \in 1 .. N + 1 : h[i] = FitsFrom(f, s, i)
  <2> DEFINE P == {n \in 0 .. N : h[N + 1 - n] = FitsFrom(f, s, N + 1 - n)}
  <2>1. 0 \in P
    <3>1. N + 1 \in 1 .. N + 1 /\ N + 1 > N /\ N + 1 - 0 = N + 1
      BY <1>1
    <3>2. h[N + 1] = FitsFrom(f, s, N + 1)
      BY <1>2, <1>5, <3>1
    <3> QED BY <1>1, <3>1, <3>2
  <2>2. ASSUME NEW n \in 1 .. N, n - 1 \in P PROVE n \in P
    <3> DEFINE i == N + 1 - n
    <3>1. i \in 1 .. N + 1 /\ i + 1 = N + 1 - (n - 1) /\ ~(i > N) /\ n \in 0 .. N
      BY <1>1
    <3>2. h[i + 1] = FitsFrom(f, s, i + 1)
      BY <2>2, <3>1
    <3> HIDE DEF i
    <3>3. h[i] = FitsFrom(f, s, i)
      <4>1. h[i] = Round(f, s, i, h[i + 1])
        BY <1>5, <3>1, Zenon DEF Round, N
      <4> QED BY <1>3, <3>1, <3>2, <4>1
    <3> QED BY <3>1, <3>3 DEF i
  <2>3. 0 .. N \subseteq P
    <3> HIDE DEF P
    <3> QED BY <1>1, <2>1, <2>2, Induction
  <2>4. SUFFICES ASSUME NEW i \in 1 .. N + 1 PROVE h[i] = FitsFrom(f, s, i)
    OBVIOUS
  <2>5. N + 1 - i \in 0 .. N /\ N + 1 - (N + 1 - i) = i
    BY <1>1
  <2> QED BY <2>3, <2>5
<1>7. h[1] = FitsFrom(f, s, 1)
  BY <1>1, <1>6
<1> QED BY <1>5, <1>7

\* The documented relation and its exception, together: ">" leaves any rest over.
LEMMA FitsMeans ==
  ASSUME NEW f \in ValidFilters, NEW s \in ValidSubjects
  PROVE  Fits(f, s) <=>
           LET fixed == IF f[Len(f)] = FullWild THEN Len(f) - 1 ELSE Len(f)
           IN  /\ IF fixed < Len(f) THEN Len(s) >= fixed ELSE Len(s) = fixed
               /\ \A i \in 1 .. fixed : f[i] = Star \/ (i <= Len(s) /\ f[i] = s[i])
<1>1. Len(f) \in Nat \ {0} /\ Len(s) \in Nat
  BY DEF ValidFilters, ValidSubjects
<1>2. /\ f[Len(f)] = FullWild => (Len(s) > Fixed(f) \/ Len(s) = Fixed(f) <=> Len(s) >= Fixed(f)) /\ Fixed(f) < Len(f)
      /\ f[Len(f)] # FullWild => ~(Fixed(f) < Len(f))
  BY <1>1 DEF Fixed
<1>3. Fits(f, s) <=> /\ IF Fixed(f) < Len(f) THEN Len(s) >= Fixed(f) ELSE Len(s) = Fixed(f)
                     /\ TokensFit(f, s)
  BY <1>2 DEF Fits, FitsAsDocumented, FitsWithEmptyRest
<1> QED BY <1>3 DEF Fixed, TokensFit

\* mb_subject_matches is the declarative relation on what mb_proto_subject_valid admits.
LEMMA MatchesFits ==
  ASSUME NEW f \in ValidFilters, NEW s \in ValidSubjects
  PROVE  SubjectMatches(f, s) <=> Fits(f, s)
<1>1. Len(f) \in Nat \ {0} /\ Len(s) \in Nat
  BY DEF ValidFilters, ValidSubjects
<1>2. FitsFrom(f, s, 1) <=> Fits(f, s)
  <2> DEFINE fixed == IF f[Len(f)] = FullWild THEN Len(f) - 1 ELSE Len(f)
  <2>1. fixed \in 0 .. Len(f)
    BY <1>1
  <2>2. FitsFrom(f, s, 1) <=> /\ \A j \in 1 .. fixed : j <= Len(s) /\ f[j] \in {Star, s[j]}
                              /\ fixed = Len(f) => Len(s) <= Len(f)
    BY <1>1 DEF FitsFrom
  <2>3. Fits(f, s) <=> /\ IF fixed < Len(f) THEN Len(s) >= fixed ELSE Len(s) = fixed
                       /\ \A i \in 1 .. fixed : f[i] = Star \/ (i <= Len(s) /\ f[i] = s[i])
    BY FitsMeans
  <2> HIDE DEF fixed
  <2>4. (\A j \in 1 .. fixed : j <= Len(s)) <=> fixed <= Len(s)
    <3>1. fixed # 0 => fixed \in 1 .. fixed
      BY <2>1
    <3> QED BY <1>1, <2>1, <3>1
  <2> QED BY <1>1, <2>1, <2>2, <2>3, <2>4
<1> QED BY <1>2, MatchesFrom

\* A filter without wildcards fits the subject it is, and no other.
LEMMA LiteralFits ==
  ASSUME NEW f \in ValidFilters, NEW s \in ValidSubjects, IsLiteralFilter(f)
  PROVE  Fits(f, s) <=> f = s
<1>1. Len(f) \in Nat \ {0} /\ Len(s) \in Nat /\ f = [i \in 1 .. Len(f) |-> f[i]] /\ s = [i \in 1 .. Len(s) |-> s[i]]
  BY DEF ValidFilters, ValidSubjects
<1>2. \A i \in 1 .. Len(f) : f[i] # Star /\ f[i] # FullWild
  BY DEF IsLiteralFilter
<1>3. Len(f) \in 1 .. Len(f)
  BY <1>1
<1>4. Fits(f, s) <=> Len(s) = Len(f) /\ \A i \in 1 .. Len(f) : i <= Len(s) /\ f[i] = s[i]
  <2>1. f[Len(f)] # FullWild
    BY <1>2, <1>3
  <2>2. Fits(f, s) <=> /\ IF Len(f) < Len(f) THEN Len(s) >= Len(f) ELSE Len(s) = Len(f)
                       /\ \A i \in 1 .. Len(f) : f[i] = Star \/ (i <= Len(s) /\ f[i] = s[i])
    BY <2>1, FitsMeans
  <2>3. Len(s) = Len(f) => \A i \in 1 .. Len(f) : i <= Len(s)
    BY <1>1
  <2>4. ~(Len(f) < Len(f))
    BY <1>1
  <2> QED BY <1>2, <2>2, <2>3, <2>4
<1>5. ASSUME Len(s) = Len(f), \A i \in 1 .. Len(f) : f[i] = s[i] PROVE f = s
  BY <1>1, <1>5
<1>6. f = s => Len(s) = Len(f) /\ \A i \in 1 .. Len(f) : i <= Len(s) /\ f[i] = s[i]
  BY <1>1
<1> QED BY <1>4, <1>5, <1>6

\* The lists of a publish are the ones in which subscriptions that fit are kept.
LEMMA SelectedFits ==
  ASSUME NEW f \in ValidFilters, NEW s \in ValidSubjects
  PROVE  Selected(f, s) <=> Fits(f, s)
<1>1. Len(f) \in Nat \ {0} /\ Len(s) \in Nat \ {0}
  BY DEF ValidFilters, ValidSubjects
<1>2. /\ ListsFor(s)[1] = <<"literal", s>> /\ ListsFor(s)[2] = <<"wildcard", s[1]>> /\ ListsFor(s)[3] = <<"global">>
  BY DEF ListsFor
<1>3. (\E i \in 1 .. 3 : ListOf(f) = ListsFor(s)[i]) <=>
        \/ ListOf(f) = <<"literal", s>> \/ ListOf(f) = <<"wildcard", s[1]>> \/ ListOf(f) = <<"global">>
  BY <1>2
<1>4. \A a, b : /\ <<"literal", a>>[1] = "literal" /\ <<"wildcard", a>>[1] = "wildcard" /\ <<"global">>[1] = "global"
                /\ <<"literal", a>> = <<"literal", b>> <=> a = b
                /\ <<"wildcard", a>> = <<"wildcard", b>> <=> a = b
                /\ <<"literal", a>> # <<"wildcard", b>> /\ <<"literal", a>> # <<"global">>
                /\ <<"wildcard", a>> # <<"global">>
  <2>1. \A a, b : <<"literal", a>>[1] = "literal" /\ <<"wildcard", a>>[1] = "wildcard" /\ <<"global">>[1] = "global"
    OBVIOUS
  <2>2. \A a, b : (<<"literal", a>> = <<"literal", b>> <=> a = b) /\ (<<"wildcard", a>> = <<"wildcard", b>> <=> a = b)
    OBVIOUS
  <2>3. "literal" # "wildcard" /\ "literal" # "global" /\ "wildcard" # "global"
    OBVIOUS
  <2> QED BY <2>1, <2>2, <2>3
<1>5. CASE IsLiteralFilter(f)
  <2>1. ListOf(f) = <<"literal", f>>
    BY <1>5 DEF ListOf
  <2>2. Selected(f, s) <=> f = s
    BY <1>3, <1>4, <2>1 DEF Selected
  <2> QED BY <1>5, <2>2, LiteralFits
<1>6. CASE ~IsLiteralFilter(f) /\ f[1] \in {Star, FullWild}
  <2>1. ListOf(f) = <<"global">>
    BY <1>6 DEF ListOf
  <2>2. Selected(f, s) <=> SubjectMatches(f, s)
    BY <1>3, <1>4, <2>1 DEF Selected
  <2> QED BY <2>2, MatchesFits
<1>7. CASE ~IsLiteralFilter(f) /\ f[1] \notin {Star, FullWild}
  <2>1. ListOf(f) = <<"wildcard", f[1]>>
    BY <1>7 DEF ListOf
  <2>2. Selected(f, s) <=> f[1] = s[1] /\ SubjectMatches(f, s)
    BY <1>3, <1>4, <2>1 DEF Selected
  <2>3. Fits(f, s) => f[1] = s[1]
    <3> DEFINE fixed == IF f[Len(f)] = FullWild THEN Len(f) - 1 ELSE Len(f)
    <3>1. Fits(f, s) => \A i \in 1 .. fixed : f[i] = Star \/ (i <= Len(s) /\ f[i] = s[i])
      BY FitsMeans
    <3>2. 1 \in 1 .. fixed
      BY <1>1, <1>7
    <3> HIDE DEF fixed
    <3> QED BY <1>7, <3>1, <3>2
  <2> QED BY <2>2, <2>3, MatchesFits
<1> QED BY <1>5, <1>6, <1>7

\* Router!MatchingExact without its bound, and hence with it: for every filter and subject a
\* client may use, of any length and over any alphabet, subject_matches decides whether the
\* filter fits, and the three lists a publish reads hold the subscriptions that do.
THEOREM MatchingIsExact ==
  /\ \A f \in ValidFilters, s \in ValidSubjects : MatchesAsItFits(f, s)
  /\ MatchingExact
<1>1. \A f \in ValidFilters, s \in ValidSubjects : MatchesAsItFits(f, s)
  BY MatchesFits, SelectedFits DEF MatchesAsItFits
<1>2. AllSubjects \subseteq ValidSubjects
  <2>1. ASSUME NEW n \in 1 .. MaxTokens, NEW s \in [1 .. n -> Words] PROVE s \in Seq(Words) /\ Len(s) = n /\ n # 0
    <3>1. n \in Nat
      BY BoundsAssumption
    <3> QED BY <3>1
  <2> QED BY <2>1 DEF AllSubjects, ValidSubjects
<1>3. AllFilters \subseteq ValidFilters
  <2>1. ASSUME NEW n \in 1 .. MaxTokens, NEW s \in [1 .. n -> Words \cup {Star, FullWild}]
        PROVE  s \in Seq(Words \cup {Star, FullWild}) /\ Len(s) = n /\ n # 0
    <3>1. n \in Nat
      BY BoundsAssumption
    <3> QED BY <3>1
  <2> QED BY <2>1 DEF AllFilters, ValidFilters
<1> QED BY <1>1, <1>2, <1>3 DEF MatchingExact, AllMatchAsTheyFit

-----------------------------------------------------------------------------
(* emit_cached.                                                            *)

\* What has been written after the first n entries of the cache.
Replayed(sub, room, n) ==
    {r \in [ok : BOOLEAN, frames : Seq(Frames)] :
        /\ Len(r.frames) <= room
        /\ \A i \in 1 .. Len(r.frames) : \E j \in 1 .. Len(cache) :
              r.frames[i] = Frame(sub, cache[j].subject, cache[j].msg)
        /\ r.ok => \A j \in 1 .. n : Wanted(sub, cache[j]) =>
              \E i \in 1 .. Len(r.frames) : r.frames[i] = Frame(sub, cache[j].subject, cache[j].msg)}

\* One entry of the replay to a new subscription.
LEMMA EmitEntryKeeps ==
  ASSUME cache \in Seq(Entry), NEW sub \in Sub, NEW room \in Nat,
         NEW n \in 1 .. Len(cache), NEW r \in Replayed(sub, room, n - 1)
  PROVE  EmitEntry(r, sub, cache[n], room) \in Replayed(sub, room, n)
<1> DEFINE e == EmitEntry(r, sub, cache[n], room)
           fr == Frame(sub, cache[n].subject, cache[n].msg)
<1>1. /\ r \in [ok : BOOLEAN, frames : Seq(Frames)]
      /\ Len(r.frames) <= room
      /\ \A i \in 1 .. Len(r.frames) : \E j \in 1 .. Len(cache) :
            r.frames[i] = Frame(sub, cache[j].subject, cache[j].msg)
      /\ r.ok => \A j \in 1 .. n - 1 : Wanted(sub, cache[j]) =>
            \E i \in 1 .. Len(r.frames) : r.frames[i] = Frame(sub, cache[j].subject, cache[j].msg)
  BY DEF Replayed
<1>2. fr \in Frames
  <2>1. cache[n].subject \in Subjects /\ cache[n].msg \in Nat \ {0}
    BY EntryProps
  <2> QED BY <2>1 DEF Frame, Frames, Sub
<1>3. \A j \in 1 .. n : j \in 1 .. n - 1 \/ j = n
  OBVIOUS
<1>4. Len(r.frames) \in Nat /\ r.frames \in Seq(Frames) /\ r.ok \in BOOLEAN
  BY <1>1
<1>5. CASE ~r.ok \/ ~Wanted(sub, cache[n])
  <2>1. e = r
    BY <1>5 DEF EmitEntry
  <2> HIDE DEF e, fr
  <2> QED BY <1>1, <1>3, <1>5, <2>1 DEF Replayed, e
<1>6. CASE ~(~r.ok \/ ~Wanted(sub, cache[n])) /\ Len(r.frames) >= room
  <2>1. e = [ok |-> FALSE, frames |-> r.frames]
    BY <1>6 DEF EmitEntry
  <2>2. e \in [ok : BOOLEAN, frames : Seq(Frames)] /\ e.frames = r.frames /\ ~e.ok
    BY <1>4, <2>1
  <2> HIDE DEF e, fr
  <2> QED BY <1>1, <2>2, SMTT(30) DEF Replayed, e
<1>7. CASE ~(~r.ok \/ ~Wanted(sub, cache[n])) /\ ~(Len(r.frames) >= room)
  <2>1. e = [ok |-> TRUE, frames |-> Append(r.frames, fr)]
    BY <1>7 DEF EmitEntry
  <2>2. e \in [ok : BOOLEAN, frames : Seq(Frames)] /\ e.frames = Append(r.frames, fr)
    BY <1>2, <1>4, <2>1
  <2> DEFINE m == Len(r.frames)
  <2>3. /\ m \in Nat /\ Len(e.frames) = m + 1 /\ e.frames[m + 1] = fr
        /\ \A i \in 1 .. m : e.frames[i] = r.frames[i]
    BY <1>2, <1>4, <2>2
  <2>4. m < room
    BY <1>4, <1>7
  <2> HIDE DEF e, m
  <2>5. Len(e.frames) <= room /\ \A i \in 1 .. m + 1 : i \in 1 .. m \/ i = m + 1
    BY <2>3, <2>4
  <2>6. 1 .. m \subseteq 1 .. Len(e.frames) /\ m + 1 \in 1 .. Len(e.frames)
    BY <2>3
  <2>7. \A i \in 1 .. Len(e.frames) : \E j \in 1 .. Len(cache) :
            e.frames[i] = Frame(sub, cache[j].subject, cache[j].msg)
    BY <1>1, <2>3, <2>5 DEF m, fr
  <2>8. \A j \in 1 .. n : Wanted(sub, cache[j]) =>
            \E i \in 1 .. Len(e.frames) : e.frames[i] = Frame(sub, cache[j].subject, cache[j].msg)
    BY <1>1, <1>3, <1>7, <2>3, <2>6 DEF m, fr
  <2> QED BY <2>2, <2>5, <2>7, <2>8 DEF Replayed, e
<1> QED BY <1>5, <1>6, <1>7

\* The loop.
LEMMA EmitCachedProps ==
  ASSUME cache \in Seq(Entry), NEW sub \in Sub, NEW room \in Nat
  PROVE  EmitCached(sub, room) \in Replayed(sub, room, Len(cache))
<1> DEFINE N == Len(cache)
           s0 == [ok |-> TRUE, frames |-> <<>>]
           T == [n \in 0 .. N |-> Replayed(sub, room, n)]
           R == [ok : BOOLEAN, frames : Seq(Frames)]
           F == [p \in (1 .. N) \X R |-> EmitEntry(p[2], sub, cache[p[1]], room)]
<1>1. N \in Nat
  OBVIOUS
<1>2. s0 \in T[0]
  <2>1. s0 \in Replayed(sub, room, 0)
    <3> HIDE DEF N
    <3> QED BY DEF Replayed
  <2> QED BY <1>1, <2>1
<1>3. ASSUME NEW n \in 1 .. N, NEW s \in T[n - 1]
      PROVE  F[<<n, s>>] = EmitEntry(s, sub, cache[n], room) /\ F[<<n, s>>] \in T[n]
  <2>1. s \in Replayed(sub, room, n - 1)
    BY <1>1
  <2>2. s \in R
    BY <2>1 DEF Replayed
  <2>3. F[<<n, s>>] = EmitEntry(s, sub, cache[n], room)
    <3> HIDE DEF R
    <3> QED BY <2>2
  <2>4. EmitEntry(s, sub, cache[n], room) \in Replayed(sub, room, n)
    BY <2>1, EmitEntryKeeps
  <2>5. EmitEntry(s, sub, cache[n], room) \in T[n]
    BY <1>1, <2>4
  <2> HIDE DEF T, F
  <2> QED BY <2>3, <2>5
<1> HIDE DEF N, T, F, s0
<1>4. PICK g : IsRun(g, N, s0, F) /\ \A n \in 0 .. N : g[n] \in T[n]
  <2>1. \A n \in 1 .. N : \A s \in T[n - 1] : F[<<n, s>>] \in T[n]
    BY <1>3
  <2> QED BY <1>1, <1>2, <2>1, Recursion
<1>5. g = [n \in 0 .. N |-> IF n = 0 THEN s0 ELSE EmitEntry(g[n - 1], sub, cache[n], room)]
  <2>1. \A n \in 0 .. N : n # 0 => n \in 1 .. N /\ n - 1 \in 0 .. N
    BY <1>1
  <2>2. \A n \in 0 .. N : n # 0 => F[<<n, g[n - 1]>>] = EmitEntry(g[n - 1], sub, cache[n], room)
    BY <1>3, <1>4, <2>1
  <2> QED BY <1>4, <2>2 DEF IsRun
<1>6. PICK h : /\ h = [n \in 0 .. N |-> IF n = 0 THEN s0 ELSE EmitEntry(h[n - 1], sub, cache[n], room)]
               /\ EmitCached(sub, room) = h[N]
  BY <1>5, Zenon DEF EmitCached, N, s0
<1>7. \A n \in 0 .. N : h[n] \in T[n]
  <2>1. h[0] \in T[0]
    BY <1>1, <1>2, <1>6
  <2>2. ASSUME NEW n \in 1 .. N, h[n - 1] \in T[n - 1] PROVE h[n] \in T[n]
    <3>1. h[n] = EmitEntry(h[n - 1], sub, cache[n], room)
      BY <1>1, <1>6
    <3>2. EmitEntry(h[n - 1], sub, cache[n], room) \in T[n]
      BY <1>3, <2>2
    <3> QED BY <3>1, <3>2
  <2> QED BY <1>1, <2>1, <2>2, Stays
<1>8. h[N] \in Replayed(sub, room, N)
  BY <1>1, <1>7 DEF T
<1> QED BY <1>6, <1>8 DEF N

-----------------------------------------------------------------------------
(* What a connection has seen.                                             *)

Views == [Sids -> [Subjects -> Nat]]

\* The first n frames of fs that show a value of x to s.
Hits(fs, n, s, x) == {i \in 1 .. n : fs[i].lvc /\ fs[i].sid = s /\ fs[i].subject = x}

\* g is f after n frames.
Shows(f, fs, n) ==
    {g \in Views : \A s \in Sids, x \in Subjects :
        IF Hits(fs, n, s, x) = {} THEN g[s][x] = f[s][x]
        ELSE \E i \in Hits(fs, n, s, x) : g[s][x] = fs[i].msg}

\* One frame that arrives replaces what its subscription showed of its subject.
LEMMA PutKeeps ==
  ASSUME NEW f \in Views, NEW fs \in Seq(Frames), NEW n \in 1 .. Len(fs), NEW g \in Shows(f, fs, n - 1)
  PROVE  Put(g, fs[n]) \in Shows(f, fs, n)
<1> DEFINE fr == fs[n]
           p == Put(g, fr)
<1>1. fr \in Frames /\ fr.sid \in Sids /\ fr.subject \in Subjects /\ fr.msg \in Nat /\ fr.lvc \in BOOLEAN
  <2>1. fr \in Frames
    BY ElementOfSeq
  <2> QED BY <2>1, BoundsAssumption DEF Frames
<1>2. g \in Views
  BY DEF Shows
<1>3. ASSUME NEW s \in Sids, NEW x \in Subjects
      PROVE  IF Hits(fs, n - 1, s, x) = {} THEN g[s][x] = f[s][x]
             ELSE \E i \in Hits(fs, n - 1, s, x) : g[s][x] = fs[i].msg
  BY DEF Shows
<1>4. ASSUME NEW s, NEW x
      PROVE  Hits(fs, n, s, x) = Hits(fs, n - 1, s, x) \cup (IF fr.lvc /\ fr.sid = s /\ fr.subject = x THEN {n} ELSE {})
  <2>1. \A i : i \in 1 .. n <=> i \in 1 .. n - 1 \/ i = n
    OBVIOUS
  <2> QED BY <2>1 DEF Hits
<1> HIDE DEF fr
<1>5. p \in Views
  <2>1. CASE fr.lvc
    <3>1. p = [g EXCEPT ![fr.sid] = [g[fr.sid] EXCEPT ![fr.subject] = fr.msg]]
      BY <2>1 DEF Put
    <3>2. [g[fr.sid] EXCEPT ![fr.subject] = fr.msg] \in [Subjects -> Nat]
      BY <1>1, <1>2 DEF Views
    <3> HIDE DEF p
    <3> QED BY <1>2, <3>1, <3>2 DEF Views
  <2>2. CASE ~fr.lvc
    BY <1>2, <2>2 DEF Put
  <2> QED BY <1>1, <2>1, <2>2
<1>6. ASSUME NEW s \in Sids, NEW x \in Subjects
      PROVE  p[s][x] = IF fr.lvc /\ fr.sid = s /\ fr.subject = x THEN fr.msg ELSE g[s][x]
  BY <1>1, <1>2 DEF Put, Views
<1> HIDE DEF p
<1>7. ASSUME NEW s \in Sids, NEW x \in Subjects
      PROVE  IF Hits(fs, n, s, x) = {} THEN p[s][x] = f[s][x]
             ELSE \E i \in Hits(fs, n, s, x) : p[s][x] = fs[i].msg
  <2>1. CASE fr.lvc /\ fr.sid = s /\ fr.subject = x
    <3>1. n \in Hits(fs, n, s, x) /\ p[s][x] = fs[n].msg
      BY <1>4, <1>6, <2>1 DEF fr
    <3> QED BY <3>1
  <2>2. CASE ~(fr.lvc /\ fr.sid = s /\ fr.subject = x)
    <3>1. Hits(fs, n, s, x) = Hits(fs, n - 1, s, x) \cup {} /\ p[s][x] = g[s][x]
      BY <1>4, <1>6, <2>2, Zenon
    <3> QED BY <1>3, <3>1
  <2> QED BY <2>1, <2>2
<1> QED BY <1>5, <1>7 DEF Shows, p, fr

\* What a client shows after all frames: of each subject the last frame, or what it was before.
LEMMA LatestProps ==
  ASSUME NEW f \in Views, NEW fs \in Seq(Frames)
  PROVE  Latest(f, fs) \in Shows(f, fs, Len(fs))
<1> DEFINE N == Len(fs)
           T == [n \in 0 .. N |-> Shows(f, fs, n)]
           F == [p \in (1 .. N) \X Views |-> Put(p[2], fs[p[1]])]
<1>1. N \in Nat
  OBVIOUS
<1>2. f \in T[0]
  <2>1. \A s, x : Hits(fs, 0, s, x) = {}
    BY DEF Hits
  <2>2. f \in Shows(f, fs, 0)
    BY <2>1 DEF Shows
  <2> QED BY <1>1, <2>2
<1>3. ASSUME NEW n \in 1 .. N, NEW s \in T[n - 1]
      PROVE  F[<<n, s>>] = Put(s, fs[n]) /\ F[<<n, s>>] \in T[n]
  <2>1. s \in Shows(f, fs, n - 1)
    BY <1>1
  <2>2. s \in Views
    BY <2>1 DEF Shows
  <2>3. F[<<n, s>>] = Put(s, fs[n])
    BY <2>2
  <2>4. Put(s, fs[n]) \in Shows(f, fs, n)
    BY <2>1, PutKeeps
  <2>5. Put(s, fs[n]) \in T[n]
    BY <1>1, <2>4
  <2> HIDE DEF T, F
  <2> QED BY <2>3, <2>5
<1> HIDE DEF N, T, F
<1>4. PICK g : IsRun(g, N, f, F) /\ \A n \in 0 .. N : g[n] \in T[n]
  <2>1. \A n \in 1 .. N : \A s \in T[n - 1] : F[<<n, s>>] \in T[n]
    BY <1>3
  <2> QED BY <1>1, <1>2, <2>1, Recursion
<1>5. g = [n \in 0 .. N |-> IF n = 0 THEN f ELSE Put(g[n - 1], fs[n])]
  <2>1. \A n \in 0 .. N : n # 0 => n \in 1 .. N /\ n - 1 \in 0 .. N
    BY <1>1
  <2>2. \A n \in 0 .. N : n # 0 => F[<<n, g[n - 1]>>] = Put(g[n - 1], fs[n])
    BY <1>3, <1>4, <2>1
  <2> QED BY <1>4, <2>2 DEF IsRun
<1>6. PICK h : /\ h = [n \in 0 .. N |-> IF n = 0 THEN f ELSE Put(h[n - 1], fs[n])]
               /\ Latest(f, fs) = h[N]
  BY <1>5, Zenon DEF Latest, N
<1>7. \A n \in 0 .. N : h[n] \in T[n]
  <2>1. h[0] \in T[0]
    BY <1>1, <1>2, <1>6
  <2>2. ASSUME NEW n \in 1 .. N, h[n - 1] \in T[n - 1] PROVE h[n] \in T[n]
    <3>1. h[n] = Put(h[n - 1], fs[n])
      BY <1>1, <1>6
    <3>2. Put(h[n - 1], fs[n]) \in T[n]
      BY <1>3, <2>2
    <3> QED BY <3>1, <3>2
  <2> QED BY <1>1, <2>1, <2>2, Stays
<1>8. h[N] \in Shows(f, fs, N)
  BY <1>1, <1>7 DEF T
<1> QED BY <1>6, <1>8 DEF N

-----------------------------------------------------------------------------
(* The types, and the invariants.                                          *)

SeenTypes == seen \in [Conns -> Views]

\* The type invariant by the parts the actions write together.
LEMMA TypeParts == TypeOK <=> RegistryTypes /\ CacheTypes /\ OutTypes /\ SeenTypes
BY DEF TypeOK, RegistryTypes, CacheTypes, OutTypes, SeenTypes, Views, AllLists

\* The inductive invariant.
Safe == TypeOK /\ Registry /\ CacheAccounted

\* Safe holds initially.
LEMMA SafeInit == ASSUME Init PROVE Safe
<1>1. RegistryTypes /\ Registry
  BY RegistryInit
<1>2. cache = <<>> /\ lvcBytes = 0 /\ published = 0 /\ Len(cache) = 0 /\ DOMAIN cache = {}
  BY DEF Init
<1>3. TotalSize(cache) = 0
  <2>1. cache \in Seq(Entry)
    BY <1>2
  <2>2. PICK f : IsSum(f, cache) /\ TotalSize(cache) = f[Len(cache)]
    BY <2>1, SumExists
  <2> QED BY <1>2, <2>2 DEF IsSum
<1>4. CacheTypes /\ CacheAccounted
  BY <1>2, <1>3, Constants, BoundsAssumption DEF CacheTypes, CacheAccounted
<1>5. OutTypes
  <2>1. out = [c \in Conns |-> <<>>] /\ MaxPending \in Nat
    BY Constants DEF Init
  <2>2. \A c \in Conns : out[c] = <<>> /\ Len(out[c]) = 0
    BY <2>1
  <2> QED BY <2>1, <2>2 DEF OutTypes
<1>6. SeenTypes
  BY DEF Init, SeenTypes, Views, NothingSeen
<1> QED BY <1>1, <1>4, <1>5, <1>6, TypeParts DEF Safe

\* What a subscription writes is within MB_MAX_PENDING.
LEMMA SubscribeWrites ==
  ASSUME OutTypes, SeenTypes, CacheTypes,
         NEW c \in Conns, NEW filter \in Filters, NEW lvc \in Kinds, NEW queue \in Queues, NEW sid \in Sids,
         Subscribe(c, filter, lvc, queue, sid)
  PROVE  OutTypes' /\ SeenTypes'
<1> DEFINE sub == [conn |-> c, filter |-> filter, lvc |-> lvc, queue |-> queue, sid |-> sid,
                   delivered |-> 0, max |-> NoMax]
           room == MaxPending - Len(out[c])
           replay == IF lvc THEN EmitCached(sub, room) ELSE [ok |-> TRUE, frames |-> <<>>]
<1>1. sub \in Sub
  BY DEF Sub
<1>2. /\ out' = [out EXCEPT ![c] = @ \o replay.frames]
      /\ seen' = [seen EXCEPT ![c] = Latest(@, replay.frames)]
  BY DEF Subscribe
<1>3. MaxPending \in Nat /\ Len(out[c]) \in Nat /\ out[c] \in Seq(Frames) /\ Len(out[c]) <= MaxPending
  BY Constants DEF OutTypes
<1>4. room \in Nat /\ Len(out[c]) + room = MaxPending
  BY <1>3
<1> HIDE DEF sub, room
<1>5. replay.frames \in Seq(Frames) /\ Len(replay.frames) <= room
  <2>1. CASE lvc
    <3>1. EmitCached(sub, room) \in Replayed(sub, room, Len(cache))
      BY <1>1, <1>4, EmitCachedProps DEF CacheTypes
    <3> QED BY <2>1, <3>1 DEF Replayed
  <2>2. CASE ~lvc
    BY <1>4, <2>2
  <2> QED BY <2>1, <2>2
<1> DEFINE fs == replay.frames
<1> HIDE DEF replay
<1>6. out[c] \o fs \in Seq(Frames) /\ Len(out[c] \o fs) = Len(out[c]) + Len(fs) /\ Len(fs) \in Nat
  BY <1>3, <1>5
<1>7. Len(out[c] \o fs) <= MaxPending
  <2> DEFINE a == Len(out[c])
             b == Len(fs)
  <2>1. a \in Nat /\ b \in Nat /\ b <= room /\ a + room = MaxPending /\ Len(out[c] \o fs) = a + b
    BY <1>3, <1>4, <1>5, <1>6
  <2> HIDE DEF a, b
  <2> QED BY <1>3, <1>4, <2>1
<1>8. OutTypes'
  BY <1>2, <1>6, <1>7 DEF OutTypes
<1>9. Latest(seen[c], fs) \in Views
  <2>1. Latest(seen[c], fs) \in Shows(seen[c], fs, Len(fs))
    BY <1>5, LatestProps DEF SeenTypes
  <2> QED BY <2>1 DEF Shows
<1>10. SeenTypes'
  BY <1>2, <1>9 DEF SeenTypes
<1> QED BY <1>8, <1>10

\* And what a publish writes.
LEMMA PublishWrites ==
  ASSUME OutTypes, SeenTypes, RegistryTypes, Registry, published \in Nat,
         NEW subject \in Subjects, NEW size, NEW pick, NEW budget \in Budgets,
         Publish(subject, size, pick, budget)
  PROVE  OutTypes' /\ SeenTypes'
<1> DEFINE d == Deliver(subject, published', pick, budget)
           V == {ListsFor(subject)[n] : n \in 1 .. 3}
<1>1. LoopTypes /\ budget \in Nat /\ published' \in Nat \ {0}
  BY BudgetsAssumption DEF LoopTypes, RegistryTypes, OutTypes, Publish
<1>2. \A k \in Keys : \A i \in 1 .. Len(lists[k]) : ~AtMax(lists[k][i])
  BY DEF Registry, ItemsOK
<1>3. d \in Delivering(V, subject, published')
  <2> HIDE DEF V
  <2> QED BY <1>1, <1>2, DeliverProps DEF OutTypes, V
<1>4. /\ out' = [c \in Conns |-> IF c \in d.closed THEN <<>> ELSE out[c] \o d.frames[c]]
      /\ seen' = [c \in Conns |-> IF c \in d.closed THEN NothingSeen ELSE Latest(seen[c], d.frames[c])]
  BY DEF Publish
<1> HIDE DEF d, V
<1>5. d.frames \in [Conns -> Seq(Frames)] /\ \A c \in Conns : Len(out[c]) + Len(d.frames[c]) <= MaxPending
  BY <1>3 DEF Delivering, Progress, WritesOK
<1>6. MaxPending \in Nat
  BY Constants
<1>7. ASSUME NEW c \in Conns
      PROVE  /\ out'[c] \in Seq(Frames) /\ Len(out'[c]) <= MaxPending
             /\ seen'[c] \in Views
  <2>1. CASE c \in d.closed
    <3>1. NothingSeen \in Views
      BY DEF NothingSeen, Views
    <3>2. out'[c] = <<>> /\ seen'[c] = NothingSeen
      BY <1>4, <2>1
    <3> QED BY <1>6, <3>1, <3>2
  <2>2. CASE c \notin d.closed
    <3> DEFINE a == out[c]
               b == d.frames[c]
    <3>1. a \in Seq(Frames) /\ b \in Seq(Frames) /\ Len(a) + Len(b) <= MaxPending
      BY <1>5 DEF OutTypes
    <3>2. out'[c] = a \o b /\ seen'[c] = Latest(seen[c], b)
      BY <1>4, <2>2
    <3> HIDE DEF a, b
    <3>3. out'[c] \in Seq(Frames) /\ Len(out'[c]) <= MaxPending
      BY <3>1, <3>2
    <3>4. seen'[c] \in Shows(seen[c], b, Len(b))
      BY <3>1, <3>2, LatestProps DEF SeenTypes
    <3> QED BY <3>3, <3>4 DEF Shows
  <2> QED BY <2>1, <2>2
<1>8. out' = [c \in Conns |-> out'[c]] /\ seen' = [c \in Conns |-> seen'[c]]
  BY <1>4
<1>9. OutTypes'
  BY <1>7, <1>8 DEF OutTypes
<1>10. SeenTypes'
  BY <1>7, <1>8 DEF SeenTypes
<1> QED BY <1>9, <1>10

\* A step that leaves the cache and the message count alone.
LEMMA CacheKept ==
  ASSUME CacheTypes, CacheAccounted, UNCHANGED <<cache, lvcBytes, published>>
  PROVE  CacheTypes' /\ CacheAccounted'
BY DEF CacheTypes, CacheAccounted

\* A step that leaves the registry alone.
LEMMA RegistryKept ==
  ASSUME RegistryTypes, Registry, UNCHANGED <<lists, count, connSubs, cap, open>>
  PROVE  RegistryTypes' /\ Registry'
BY DEF RegistryTypes, Registry

\* Safe is kept by every action.
LEMMA SafeNext == ASSUME Safe, [Next]_vars PROVE Safe'
<1>1. RegistryTypes /\ CacheTypes /\ OutTypes /\ SeenTypes /\ Registry /\ CacheAccounted
  BY TypeParts DEF Safe
<1>2. published \in Nat
  BY <1>1, BoundsAssumption DEF CacheTypes
<1>3. SUFFICES RegistryTypes' /\ CacheTypes' /\ OutTypes' /\ SeenTypes' /\ Registry' /\ CacheAccounted'
  <2>1. TypeOK' <=> RegistryTypes' /\ CacheTypes' /\ OutTypes' /\ SeenTypes'
    BY TypeParts, PTL
  <2> QED BY <2>1 DEF Safe
<1>4. NothingSeen \in Views /\ Len(<<>>) = 0 /\ <<>> \in Seq(Frames) /\ MaxPending \in Nat
  BY Constants DEF NothingSeen, Views
<1>5. ASSUME NEW c \in Conns, out' = [out EXCEPT ![c] = <<>>] PROVE OutTypes'
  BY <1>1, <1>4, <1>5 DEF OutTypes
<1>6. ASSUME NEW c \in Conns, seen' = [seen EXCEPT ![c] = NothingSeen] PROVE SeenTypes'
  BY <1>1, <1>4, <1>6 DEF SeenTypes
<1>7. ASSUME UNCHANGED out PROVE OutTypes'
  BY <1>1, <1>7 DEF OutTypes
<1>8. ASSUME UNCHANGED seen PROVE SeenTypes'
  BY <1>1, <1>8 DEF SeenTypes
<1>9. ASSUME NEW c \in Conns, Accept(c) PROVE RegistryTypes' /\ CacheTypes' /\ OutTypes' /\ SeenTypes' /\ Registry' /\ CacheAccounted'
  <2>1. RegistryTypes' /\ Registry'
    BY <1>1, <1>9, AcceptKeeps
  <2>2. /\ out' = [out EXCEPT ![c] = <<>>] /\ seen' = [seen EXCEPT ![c] = NothingSeen]
        /\ UNCHANGED <<cache, lvcBytes, published>>
    BY <1>9 DEF Accept
  <2> QED BY <1>1, <1>5, <1>6, <2>1, <2>2, CacheKept
<1>10. ASSUME NEW c \in Conns, NEW f \in Filters, NEW l \in Kinds, NEW q \in Queues, NEW s \in Sids,
              Subscribe(c, f, l, q, s)
       PROVE  RegistryTypes' /\ CacheTypes' /\ OutTypes' /\ SeenTypes' /\ Registry' /\ CacheAccounted'
  <2>1. RegistryTypes' /\ Registry'
    BY <1>1, <1>10, SubscribeKeeps
  <2>2. OutTypes' /\ SeenTypes'
    BY <1>1, <1>10, SubscribeWrites
  <2>3. UNCHANGED <<cache, lvcBytes, published>>
    BY <1>10 DEF Subscribe
  <2> QED BY <1>1, <2>1, <2>2, <2>3, CacheKept
<1>11. ASSUME NEW c \in Conns, NEW s \in Sids, NEW m \in {NoMax} \cup 1 .. MaxMsgs, Unsubscribe(c, s, m)
       PROVE  RegistryTypes' /\ CacheTypes' /\ OutTypes' /\ SeenTypes' /\ Registry' /\ CacheAccounted'
  <2>1. RegistryTypes' /\ Registry'
    BY <1>1, <1>11, UnsubscribeKeeps
  <2>2. UNCHANGED <<cache, lvcBytes, published>> /\ UNCHANGED out /\ UNCHANGED seen
    BY <1>11 DEF Unsubscribe
  <2> QED BY <1>1, <1>7, <1>8, <2>1, <2>2, CacheKept
<1>12. ASSUME NEW c \in Conns, Drain(c) PROVE RegistryTypes' /\ CacheTypes' /\ OutTypes' /\ SeenTypes' /\ Registry' /\ CacheAccounted'
  <2>1. /\ out' = [out EXCEPT ![c] = <<>>] /\ UNCHANGED seen /\ UNCHANGED <<cache, lvcBytes, published>>
        /\ UNCHANGED <<lists, count, connSubs, cap, open>>
    BY <1>12 DEF Drain
  <2> QED BY <1>1, <1>5, <1>8, <2>1, CacheKept, RegistryKept
<1>13. ASSUME NEW c \in Conns, BeginClose(c) PROVE RegistryTypes' /\ CacheTypes' /\ OutTypes' /\ SeenTypes' /\ Registry' /\ CacheAccounted'
  <2>1. RegistryTypes' /\ Registry'
    BY <1>1, <1>13, BeginCloseKeeps
  <2>2. /\ out' = [out EXCEPT ![c] = <<>>] /\ seen' = [seen EXCEPT ![c] = NothingSeen]
        /\ UNCHANGED <<cache, lvcBytes, published>>
    BY <1>13 DEF BeginClose
  <2> QED BY <1>1, <1>5, <1>6, <2>1, <2>2, CacheKept
<1>14. ASSUME NEW x \in Subjects, NEW n \in Sizes, NEW b \in Budgets, NEW p \in Picks, Publish(x, n, p, b)
       PROVE  RegistryTypes' /\ CacheTypes' /\ OutTypes' /\ SeenTypes' /\ Registry' /\ CacheAccounted'
  <2>1. RegistryTypes' /\ Registry'
    BY <1>1, <1>2, <1>14, PublishKeeps
  <2>2. OutTypes' /\ SeenTypes'
    BY <1>1, <1>2, <1>14, PublishWrites
  <2>3. /\ published < MaxPublishes /\ published' = published + 1
        /\ ~LvcRefuses(x, n) /\ LvcStore(x, published', n)
    BY <1>14 DEF Publish
  <2>4. CacheTypes' /\ CacheAccounted'
    BY <1>1, <2>3, StoreKeeps
  <2> QED BY <2>1, <2>2, <2>4
<1>15. ASSUME NEW x \in Subjects, NEW n \in Sizes, PublishRefused(x, n)
       PROVE  RegistryTypes' /\ CacheTypes' /\ OutTypes' /\ SeenTypes' /\ Registry' /\ CacheAccounted'
  <2>1. UNCHANGED <<lists, count, connSubs, cap, open>> /\ UNCHANGED out /\ UNCHANGED seen
    BY <1>15 DEF PublishRefused
  <2>2. published < MaxPublishes /\ published' = published + 1
    BY <1>15 DEF PublishRefused
  <2>3. CASE LvcRefuses(x, n)
    <3>1. UNCHANGED <<cache, lvcBytes>>
      BY <1>15, <2>3 DEF PublishRefused
    <3>2. CacheTypes' /\ CacheAccounted'
      <4>1. cache \in Seq(Entry) /\ published' \in 0 .. MaxPublishes
        BY <1>1, <1>2, <2>2, BoundsAssumption DEF CacheTypes
      <4>2. \A i \in 1 .. Len(cache) : cache[i].msg <= published'
        <5>1. SUFFICES ASSUME NEW i \in 1 .. Len(cache) PROVE cache[i].msg <= published'
          OBVIOUS
        <5> DEFINE m == cache[i].msg
        <5>2. m \in Nat /\ m <= published
          BY <1>1, <4>1, EntryProps DEF CacheTypes
        <5> HIDE DEF m
        <5>3. m <= published'
          BY <1>2, <2>2, <5>2
        <5> QED BY <5>3 DEF m
      <4> QED BY <1>1, <3>1, <4>1, <4>2 DEF CacheTypes, CacheAccounted
    <3> QED BY <1>1, <1>7, <1>8, <2>1, <3>2, RegistryKept
  <2>4. CASE ~LvcRefuses(x, n)
    <3>1. LvcStore(x, published', n)
      BY <1>15, <2>4 DEF PublishRefused
    <3>2. CacheTypes' /\ CacheAccounted'
      BY <1>1, <2>2, <2>4, <3>1, StoreKeeps
    <3> QED BY <1>1, <1>7, <1>8, <2>1, <3>2, RegistryKept
  <2> QED BY <2>3, <2>4
<1>16. CASE UNCHANGED vars
  <2>1. /\ UNCHANGED <<lists, count, connSubs, cap, open>> /\ UNCHANGED out /\ UNCHANGED seen
        /\ UNCHANGED <<cache, lvcBytes, published>>
    BY <1>16 DEF vars
  <2> QED BY <1>1, <1>7, <1>8, <2>1, RegistryKept, CacheKept
<1> QED
  BY <1>9, <1>10, <1>11, <1>12, <1>13, <1>14, <1>15, <1>16
  DEF Next, AcceptSome, SubscribeSome, UnsubscribeSome, DrainSome, CloseSome, PublishSome, RefuseSome

-----------------------------------------------------------------------------
(* Theorems.                                                               *)

\* Router's types, for any number of connections, sids, filters, subjects, queues and any
\* limits: in particular no counter and no output passes its limit, and none of the counters
\* becomes negative.
THEOREM TypeCorrect == Spec => []TypeOK
<1>1. Init => Safe
  BY SafeInit
<1>2. Safe /\ [Next]_vars => Safe'
  BY SafeNext
<1>3. Safe => TypeOK
  BY DEF Safe
<1> QED BY <1>1, <1>2, <1>3, PTL DEF Spec

\* lvc_payload_bytes is the size of the cache, the limits hold, and no subject is cached twice.
THEOREM CacheIsAccounted == Spec => []CacheAccounted
<1>1. Init => Safe
  BY SafeInit
<1>2. Safe /\ [Next]_vars => Safe'
  BY SafeNext
<1>3. Safe => CacheAccounted
  BY DEF Safe
<1> QED BY <1>1, <1>2, <1>3, PTL DEF Spec

\* The counters agree with the lists after any sequence of operations, the failing ones
\* included, and no list holds a subscription of a closed connection or one past its limit.
THEOREM RegistryIsExact == Spec => []RegistryExact
<1>1. Init => Safe
  BY SafeInit
<1>2. Safe /\ [Next]_vars => Safe'
  BY SafeNext
<1>3. ASSUME Safe PROVE RegistryExact
  <2>1. lists \in AllLists /\ open \subseteq Conns
    BY <1>3 DEF Safe, TypeOK, AllLists
  <2>2. count = HeldAll(lists) /\ \A c \in open : connSubs[c] = Held(lists, c)
    BY <1>3, <2>1, HeldSlots DEF Safe, Registry
  <2>3. ASSUME NEW sub \in Subs PROVE sub.conn \in open /\ (sub.max = NoMax \/ sub.delivered < sub.max)
    <3>1. PICK k \in Keys : sub \in ToSet(lists[k])
      BY DEF Subs
    <3>2. DOMAIN lists[k] = 1 .. Len(lists[k])
      BY <2>1 DEF AllLists
    <3>3. PICK i \in 1 .. Len(lists[k]) : sub = lists[k][i]
      BY <3>1, <3>2 DEF ToSet
    <3>4. sub.conn \in open /\ ~AtMax(sub) /\ sub \in Sub
      BY <1>3, <2>1, <3>3, ItemIsSub DEF Safe, Registry, ItemsOK
    <3> DEFINE n == sub.delivered
               m == sub.max
    <3>5. n \in Nat /\ (m = NoMax \/ m \in Nat) /\ (m = NoMax \/ ~(n >= m))
      BY <3>4, BoundsAssumption DEF AtMax, Sub
    <3> HIDE DEF n, m
    <3>6. m = NoMax \/ n < m
      BY <3>5
    <3> QED BY <3>4, <3>6 DEF n, m
  <2> QED BY <2>2, <2>3 DEF RegistryExact
<1> QED BY <1>1, <1>2, <1>3, PTL DEF Spec

\* The scratch arrays of a publish have room for every connection with a subscription and for
\* every subscription, so that the stores that are not checked stay within them.
THEOREM ScratchAlwaysFits == Spec => []ScratchFits
<1>1. Init => Safe
  BY SafeInit
<1>2. Safe /\ [Next]_vars => Safe'
  BY SafeNext
<1>3. ASSUME Safe PROVE ScratchFits
  <2> DEFINE S == Slots(lists, Conns)
             D == {sub.conn : sub \in Subs}
             at == [p \in S |-> lists[p[1]][p[2]].conn]
  <2>1. lists \in AllLists /\ cap \in Nat /\ count \in Nat
    BY <1>3, Constants DEF Safe, TypeOK, AllLists
  <2>2. IsFiniteSet(S) /\ count = Cardinality(S) /\ count <= cap
    BY <1>3 DEF Safe, Registry
  <2>3. \A k \in Keys : DOMAIN lists[k] = 1 .. Len(lists[k]) /\ Len(lists[k]) \in Nat
    BY <2>1 DEF AllLists
  <2>4. \A k \in Keys : \A i \in 1 .. Len(lists[k]) :
           lists[k][i] \in Subs /\ lists[k][i].conn \in Conns /\ <<k, i>> \in S
    <3>1. SUFFICES ASSUME NEW k \in Keys, NEW i \in 1 .. Len(lists[k])
                   PROVE  lists[k][i] \in Subs /\ lists[k][i].conn \in Conns /\ <<k, i>> \in S
      OBVIOUS
    <3>2. lists[k][i].conn \in Conns
      BY <2>1, ItemIsSub
    <3>3. lists[k][i] \in Subs
      BY <2>3 DEF Subs, ToSet
    <3> QED BY <2>3, <3>2, <3>3 DEF Slots
  <2>5. \A p \in S : p[1] \in Keys /\ p[2] \in 1 .. Len(lists[p[1]])
    BY <2>3 DEF Slots
  <2>6. at \in [S -> D]
    <3> HIDE DEF S
    <3> QED BY <2>4, <2>5
  <2>7. \A c \in D : \E p \in S : at[p] = c
    <3>1. SUFFICES ASSUME NEW sub \in Subs PROVE \E p \in S : at[p] = sub.conn
      OBVIOUS
    <3>2. PICK k \in Keys : sub \in ToSet(lists[k])
      BY DEF Subs
    <3>3. PICK i \in 1 .. Len(lists[k]) : sub = lists[k][i]
      BY <2>3, <3>2 DEF ToSet
    <3>4. <<k, i>> \in S
      BY <2>4
    <3> HIDE DEF S
    <3>5. at[<<k, i>>] = sub.conn
      BY <3>3, <3>4
    <3> QED BY <3>4, <3>5
  <2> HIDE DEF S, D, at
  <2>8. at \in Surjection(S, D)
    BY <2>6, <2>7 DEF Surjection
  <2>9. IsFiniteSet(D) /\ Cardinality(D) <= Cardinality(S)
    BY <2>2, <2>8, FS_Surjection
  <2>10. Cardinality(D) \in Nat
    BY <2>9, FS_CardinalityType
  <2>11. Cardinality(D) <= cap
    BY <2>1, <2>2, <2>9, <2>10
  <2> QED BY <2>2, <2>11 DEF ScratchFits, D
<1> QED BY <1>1, <1>2, <1>3, PTL DEF Spec

-----------------------------------------------------------------------------
(* Convergence of the $LVC subscriptions.                                  *)

\* In a view, an ordinary $LVC subscription has been shown the entries it wants.
UpToDate(sub, view, entries) ==
    sub.lvc /\ sub.queue = NoQueue =>
        \A j \in 1 .. Len(entries) : Wanted(sub, entries[j]) =>
            view[sub.conn][sub.sid][entries[j].subject] = entries[j].msg

\* All but the limit and the number of messages delivered.
Alike(a, b) ==
    a.conn = b.conn /\ a.filter = b.filter /\ a.lvc = b.lvc /\ a.queue = b.queue /\ a.sid = b.sid

\* Every item of new is like an item of ls of a connection of alive.
From(new, ls, alive) ==
    \A k \in Keys : \A i \in 1 .. Len(new[k]) :
        new[k][i].conn \in alive /\ \E x \in 1 .. Len(ls[k]) : Alike(new[k][i], ls[k][x])

\* Every ordinary $LVC subscription is up to date, and only subjects that are cached are.
Converged ==
    /\ \A j \in 1 .. Len(cache) : Cached(cache[j].subject)
    /\ \A k \in Keys : \A i \in 1 .. Len(lists[k]) : UpToDate(lists[k][i], seen, cache)

\* A step that changes the cache is a publish that does not fail.
CachedIsDelivered == UNCHANGED cache \/ last'.ok

\* A step that shows nothing new to the subscriptions that remain.
LEMMA ConvergedKept ==
  ASSUME Converged, NEW alive, From(lists', lists, alive), \A c \in alive : seen'[c] = seen[c], UNCHANGED cache
  PROVE  Converged'
<1>1. SUFFICES ASSUME NEW k \in Keys, NEW i \in 1 .. Len(lists'[k]) PROVE UpToDate(lists'[k][i], seen', cache')
  BY DEF Converged
<1>2. PICK x \in 1 .. Len(lists[k]) : Alike(lists'[k][i], lists[k][x]) /\ lists'[k][i].conn \in alive
  BY DEF From
<1>3. UpToDate(lists[k][x], seen, cache)
  BY DEF Converged
<1> QED BY <1>2, <1>3 DEF UpToDate, Alike, Wanted

\* The lists come from themselves.
LEMMA FromSelf ==
  ASSUME Registry
  PROVE  From(lists, lists, open)
BY DEF From, Alike, Registry, ItemsOK

\* What lvc_store writes.
LEMMA StoreProps ==
  ASSUME CacheTypes, NEW subject \in Subjects, NEW msg, NEW size, LvcStore(subject, msg, size)
  PROVE  /\ \A j \in 1 .. Len(cache') : cache'[j].subject # subject => j \in 1 .. Len(cache) /\ cache'[j] = cache[j]
         /\ Cached(subject) => \A j \in 1 .. Len(cache') : cache'[j].subject = subject => cache'[j].msg = msg
         /\ Cached(subject) => \E j \in 1 .. Len(cache') : cache'[j].msg = msg
         /\ ~Cached(subject) => cache' = cache
<1> DEFINE entry == [subject |-> subject, msg |-> msg, size |-> size]
<1>1. cache \in Seq(Entry) /\ DOMAIN cache = 1 .. Len(cache) /\ Len(cache) \in Nat
  BY DEF CacheTypes
<1>2. entry.subject = subject /\ entry.msg = msg
  OBVIOUS
<1> HIDE DEF entry
<1>3. CASE ~Cached(subject)
  BY <1>3 DEF LvcStore
<1>4. CASE Cached(subject) /\ Entries(subject) = {}
  <2>1. cache' = Append(cache, entry)
    BY <1>4 DEF LvcStore, entry
  <2>2. /\ Len(cache') = Len(cache) + 1 /\ cache'[Len(cache) + 1] = entry
        /\ \A j \in 1 .. Len(cache) : cache'[j] = cache[j]
    <3> DEFINE E == Entry \cup {entry}
    <3>1. cache \in Seq(E) /\ entry \in E
      BY <1>1
    <3> HIDE DEF E
    <3> QED BY <2>1, <3>1
  <2>3. Len(cache) + 1 \in 1 .. Len(cache') /\ \A j \in 1 .. Len(cache') : j \in 1 .. Len(cache) \/ j = Len(cache) + 1
    BY <1>1, <2>2
  <2>4. \A j \in 1 .. Len(cache) : cache[j].subject # subject
    BY <1>1, <1>4 DEF Entries
  <2> QED BY <1>2, <1>4, <2>2, <2>3, <2>4
<1>5. CASE Cached(subject) /\ Entries(subject) # {}
  <2>1. cache' = [j \in 1 .. Len(cache) |-> IF j \in Entries(subject) THEN entry ELSE cache[j]]
    BY <1>1, <1>5 DEF LvcStore, entry
  <2>2. Len(cache') = Len(cache) /\ \A j \in 1 .. Len(cache) : cache'[j] = IF j \in Entries(subject) THEN entry ELSE cache[j]
    BY <1>1, <2>1
  <2>3. \A j \in 1 .. Len(cache) : j \in Entries(subject) <=> cache[j].subject = subject
    BY <1>1 DEF Entries
  <2>4. PICK i \in 1 .. Len(cache) : i \in Entries(subject)
    BY <1>1, <1>5 DEF Entries
  <2> QED BY <1>2, <1>5, <2>2, <2>3, <2>4
<1> QED BY <1>3, <1>4, <1>5

\* A replay shows the values that are cached.
LEMMA SubscribeConverges ==
  ASSUME Safe, Converged,
         NEW c \in Conns, NEW filter \in Filters, NEW lvc \in Kinds, NEW queue \in Queues, NEW sid \in Sids,
         Subscribe(c, filter, lvc, queue, sid)
  PROVE  Converged'
<1> DEFINE sub == [conn |-> c, filter |-> filter, lvc |-> lvc, queue |-> queue, sid |-> sid,
                   delivered |-> 0, max |-> NoMax]
           room == MaxPending - Len(out[c])
           added == AddedTo(sub)
           back == UnsubscribeIn(added, c, sid, NoMax)
           replay == IF lvc THEN EmitCached(sub, room) ELSE [ok |-> TRUE, frames |-> <<>>]
<1>1. sub \in Sub /\ sub.conn = c /\ sub.filter = filter /\ sub.lvc = lvc /\ sub.sid = sid
  BY DEF Sub
<1>2. /\ lists' = IF replay.ok THEN added ELSE back
      /\ seen' = [seen EXCEPT ![c] = Latest(@, replay.frames)]
      /\ cache' = cache
  BY DEF Subscribe, AddedTo
<1>3. /\ RegistryTypes /\ CacheTypes /\ OutTypes /\ SeenTypes /\ Registry
      /\ \A i, j \in 1 .. Len(cache) : cache[i].subject = cache[j].subject => i = j
  <2>1. RegistryTypes /\ CacheTypes /\ OutTypes /\ SeenTypes /\ Registry /\ CacheAccounted
    BY TypeParts DEF Safe
  <2>2. DOMAIN cache = 1 .. Len(cache)
    BY <2>1 DEF CacheTypes
  <2> QED BY <2>1, <2>2 DEF CacheAccounted
<1>4. room \in Nat
  BY <1>3, Constants DEF OutTypes
<1>5. cache \in Seq(Entry) /\ seen \in [Conns -> Views] /\ lists \in AllLists
  BY <1>3 DEF CacheTypes, SeenTypes, RegistryTypes
<1> HIDE DEF sub, room
<1>6. /\ replay.frames \in Seq(Frames)
      /\ \A i \in 1 .. Len(replay.frames) : \E j \in 1 .. Len(cache) :
              replay.frames[i] = Frame(sub, cache[j].subject, cache[j].msg)
      /\ lvc /\ replay.ok => \A j \in 1 .. Len(cache) : Wanted(sub, cache[j]) =>
              \E i \in 1 .. Len(replay.frames) : replay.frames[i] = Frame(sub, cache[j].subject, cache[j].msg)
  <2>1. CASE lvc
    <3>1. EmitCached(sub, room) \in Replayed(sub, room, Len(cache))
      BY <1>1, <1>4, <1>5, EmitCachedProps
    <3> QED BY <2>1, <3>1 DEF Replayed
  <2>2. CASE ~lvc
    BY <2>2
  <2> QED BY <2>1, <2>2
<1> DEFINE fs == replay.frames
<1> HIDE DEF replay
<1>7. Latest(seen[c], fs) \in Shows(seen[c], fs, Len(fs)) /\ seen'[c] = Latest(seen[c], fs)
      /\ \A e \in Conns \ {c} : seen'[e] = seen[e]
  BY <1>2, <1>5, <1>6, LatestProps
<1>8. ASSUME NEW s \in Sids, NEW j \in 1 .. Len(cache)
      PROVE  \/ seen'[c][s][cache[j].subject] = cache[j].msg
             \/ /\ seen'[c][s][cache[j].subject] = seen[c][s][cache[j].subject]
                /\ Hits(fs, Len(fs), s, cache[j].subject) = {}
  <2>1. cache[j].subject \in Subjects
    BY <1>5, EntryProps
  <2>2. IF Hits(fs, Len(fs), s, cache[j].subject) = {}
        THEN seen'[c][s][cache[j].subject] = seen[c][s][cache[j].subject]
        ELSE \E i \in Hits(fs, Len(fs), s, cache[j].subject) : seen'[c][s][cache[j].subject] = fs[i].msg
    BY <1>7, <2>1 DEF Shows
  <2>3. ASSUME NEW i \in Hits(fs, Len(fs), s, cache[j].subject) PROVE fs[i].msg = cache[j].msg
    <3>1. i \in 1 .. Len(fs) /\ fs[i].subject = cache[j].subject
      BY DEF Hits
    <3>2. PICK l \in 1 .. Len(cache) : fs[i] = Frame(sub, cache[l].subject, cache[l].msg)
      BY <1>6, <3>1
    <3>3. fs[i].subject = cache[l].subject /\ fs[i].msg = cache[l].msg
      BY <3>2 DEF Frame
    <3> QED BY <1>3, <3>1, <3>3
  <2> QED BY <2>2, <2>3
<1>9. ASSUME NEW k \in Keys, NEW x \in 1 .. Len(lists[k]) PROVE UpToDate(lists[k][x], seen', cache')
  <2>1. UpToDate(lists[k][x], seen, cache) /\ lists[k][x] \in Sub
    BY <1>5, ItemIsSub DEF Converged
  <2>2. lists[k][x].conn \in Conns /\ lists[k][x].sid \in Sids
    BY <2>1 DEF Sub
  <2> QED BY <1>2, <1>7, <1>8, <2>1, <2>2, SMTT(30) DEF UpToDate
<1>10. replay.ok => UpToDate(sub, seen', cache')
  <2>1. SUFFICES ASSUME replay.ok, lvc, NEW j \in 1 .. Len(cache), Wanted(sub, cache[j])
                 PROVE  seen'[c][sid][cache[j].subject] = cache[j].msg
    BY <1>1, <1>2 DEF UpToDate
  <2>2. PICK i \in 1 .. Len(fs) : fs[i] = Frame(sub, cache[j].subject, cache[j].msg)
    BY <1>6, <2>1
  <2>3. fs[i].lvc /\ fs[i].sid = sid /\ fs[i].subject = cache[j].subject
    BY <1>1, <2>1, <2>2 DEF Frame
  <2>4. i \in Hits(fs, Len(fs), sid, cache[j].subject)
    BY <2>3 DEF Hits
  <2> QED BY <1>8, <2>4
<1>11. added \in AllLists /\ \A k \in Keys : \A i \in 1 .. Len(added[k]) :
               \/ i \in 1 .. Len(lists[k]) /\ added[k][i] = lists[k][i]
               \/ added[k][i] = sub /\ k = ListOf(filter)
  BY <1>1, <1>5, AddedProps
<1>12. \A j \in 1 .. Len(cache') : Cached(cache'[j].subject)
  BY <1>2 DEF Converged
<1>13. CASE replay.ok
  BY <1>2, <1>9, <1>10, <1>11, <1>12, <1>13 DEF Converged
<1>14. CASE ~replay.ok
  <2>1. back \in AllLists /\ Within(back, added, {}) /\ LimitedBy(back, added, c, sid, NoMax)
    BY <1>11, UnsubscribeProps
  <2>2. lists' = back
    BY <1>2, <1>14
  <2> HIDE DEF added, back
  <2>3. ASSUME NEW k \in Keys, NEW i \in 1 .. Len(back[k]) PROVE UpToDate(back[k][i], seen', cache')
    <3>1. PICK x \in 1 .. Len(added[k]) : back[k][i] = added[k][x] /\ (added[k][x].conn # c \/ added[k][x].sid # sid)
      BY <2>1 DEF LimitedBy
    <3>2. added[k][x] # sub
      BY <1>1, <3>1
    <3>3. x \in 1 .. Len(lists[k]) /\ added[k][x] = lists[k][x]
      BY <1>11, <3>2
    <3> QED BY <1>9, <3>1, <3>3
  <2> QED BY <1>12, <2>2, <2>3 DEF Converged
<1> QED BY <1>13, <1>14

\* A publish shows its message to every ordinary $LVC subscription that wants it.
LEMMA PublishConverges ==
  ASSUME Safe, Converged, CachedIsDelivered, NEW subject \in Subjects, NEW size \in Sizes, NEW pick,
         NEW budget \in Budgets, Publish(subject, size, pick, budget)
  PROVE  Converged'
<1> DEFINE d == Deliver(subject, published', pick, budget)
           V == {ListsFor(subject)[n] : n \in 1 .. 3}
           new == RemoveAllFor(d.ls, d.closed)
           msg == published'
<1>1. RegistryTypes /\ CacheTypes /\ OutTypes /\ SeenTypes /\ Registry
  BY TypeParts DEF Safe
<1>2. published \in Nat /\ published' = published + 1 /\ msg \in Nat \ {0}
  BY <1>1, BoundsAssumption DEF CacheTypes, Publish
<1>3. LoopTypes /\ budget \in Nat
  BY <1>1, BudgetsAssumption DEF LoopTypes, RegistryTypes, OutTypes
<1>4. \A k \in Keys : \A i \in 1 .. Len(lists[k]) : ~AtMax(lists[k][i])
  BY <1>1 DEF Registry, ItemsOK
<1>5. d \in Delivering(V, subject, msg)
  <2> HIDE DEF V
  <2> QED BY <1>1, <1>2, <1>3, <1>4, DeliverProps DEF OutTypes, V
<1>6. /\ lists' = new /\ last'.ok = d.ok
      /\ seen' = [c \in Conns |-> IF c \in d.closed THEN NothingSeen ELSE Latest(seen[c], d.frames[c])]
      /\ LvcStore(subject, msg, size)
  BY DEF Publish
<1> HIDE DEF d, V, msg
<1>7. /\ d.ls \in AllLists /\ d.frames \in [Conns -> Seq(Frames)] /\ WritesOK(d, subject, msg)
      /\ \A k \in Keys : \A j \in 1 .. Len(d.ls[k]) : \E x \in 1 .. Len(lists[k]) : Same(d.ls[k][j], lists[k][x])
      /\ d.ok => \A k \in Keys \cap V : \A i \in 1 .. Len(lists[k]) : Served(d, lists[k][i], subject, msg)
  BY <1>5 DEF Delivering, Progress
<1>8. new \in AllLists /\ Within(new, d.ls, {}) /\ LeftBy(new, d.ls, d.closed)
  <2>1. {} \cap d.closed = {}
    OBVIOUS
  <2> QED BY <1>7, <2>1, RemoveAllForProps
<1> HIDE DEF new
<1>9. cache \in Seq(Entry) /\ seen \in [Conns -> Views] /\ lists \in AllLists
  BY <1>1 DEF CacheTypes, SeenTypes, RegistryTypes
<1>10. /\ \A j \in 1 .. Len(cache') : cache'[j].subject # subject => j \in 1 .. Len(cache) /\ cache'[j] = cache[j]
       /\ Cached(subject) => \A j \in 1 .. Len(cache') : cache'[j].subject = subject => cache'[j].msg = msg
       /\ Cached(subject) => \E j \in 1 .. Len(cache') : cache'[j].msg = msg
       /\ ~Cached(subject) => cache' = cache
  BY <1>1, <1>6, StoreProps
<1>11. \A j \in 1 .. Len(cache') : Cached(cache'[j].subject)
  <2>1. \A j \in 1 .. Len(cache) : Cached(cache[j].subject)
    BY DEF Converged
  <2> QED BY <1>10, <2>1
<1>12. Cached(subject) => d.ok
  <2>1. SUFFICES ASSUME Cached(subject) PROVE cache' # cache
    BY <1>6 DEF CachedIsDelivered
  <2>2. PICK j \in 1 .. Len(cache') : cache'[j].msg = msg
    BY <1>10, <2>1
  <2>3. SUFFICES ASSUME cache' = cache PROVE FALSE
    OBVIOUS
  <2> DEFINE m == cache[j].msg
  <2>4. m \in Nat /\ m <= published /\ m = msg
    BY <1>1, <1>9, <2>2, <2>3, EntryProps DEF CacheTypes
  <2> HIDE DEF m
  <2> QED BY <1>2, <2>4 DEF msg
<1>13. ASSUME NEW c \in Conns \ d.closed, NEW s \in Sids, NEW x \in Subjects
       PROVE  /\ x # subject => seen'[c][s][x] = seen[c][s][x]
              /\ (\E i \in 1 .. Len(d.frames[c]) : d.frames[c][i].lvc /\ d.frames[c][i].sid = s) =>
                    seen'[c][s][subject] = msg
  <2> DEFINE fs == d.frames[c]
  <2>1. fs \in Seq(Frames) /\ \A i \in 1 .. Len(fs) : fs[i].subject = subject /\ fs[i].msg = msg
    BY <1>7 DEF WritesOK
  <2>2. seen'[c] = Latest(seen[c], fs) /\ seen[c] \in Views
    BY <1>6, <1>9
  <2> HIDE DEF fs
  <2>3. seen'[c] \in Shows(seen[c], fs, Len(fs))
    BY <2>1, <2>2, LatestProps
  <2>4. x # subject => Hits(fs, Len(fs), s, x) = {}
    BY <2>1 DEF Hits
  <2>5. x # subject => seen'[c][s][x] = seen[c][s][x]
    BY <2>3, <2>4 DEF Shows
  <2>6. ASSUME NEW i \in 1 .. Len(fs), fs[i].lvc, fs[i].sid = s PROVE seen'[c][s][subject] = msg
    <3>1. i \in Hits(fs, Len(fs), s, subject)
      BY <2>1, <2>6 DEF Hits
    <3>2. PICK l \in Hits(fs, Len(fs), s, subject) : seen'[c][s][subject] = fs[l].msg
      BY <2>3, <3>1 DEF Shows
    <3> QED BY <2>1, <3>2 DEF Hits
  <2> QED BY <2>5, <2>6 DEF fs
<1>14. ASSUME NEW k \in Keys, NEW i \in 1 .. Len(new[k]) PROVE UpToDate(new[k][i], seen', cache')
  <2>1. PICK x \in 1 .. Len(d.ls[k]) : new[k][i] = d.ls[k][x] /\ new[k][i].conn \notin d.closed
    BY <1>8 DEF LeftBy
  <2>2. PICK y \in 1 .. Len(lists[k]) : Same(d.ls[k][x], lists[k][y])
    BY <1>7
  <2> DEFINE sub == lists[k][y]
  <2>3. /\ new[k][i].conn = sub.conn /\ new[k][i].filter = sub.filter /\ new[k][i].lvc = sub.lvc
        /\ new[k][i].queue = sub.queue /\ new[k][i].sid = sub.sid
    BY <2>1, <2>2 DEF Same
  <2>4. /\ sub \in Sub /\ sub.conn \in open /\ ListOf(sub.filter) = k /\ UpToDate(sub, seen, cache)
    BY <1>1, <1>9, ItemIsSub DEF Registry, ItemsOK, Converged
  <2>5. sub.conn \in Conns \ d.closed /\ sub.sid \in Sids /\ sub.filter \in Filters
    BY <2>1, <2>3, <2>4 DEF Sub
  <2>6. d.ok /\ k \in V => Served(d, sub, subject, msg)
    BY <1>7
  <2> HIDE DEF sub
  <2>7. SUFFICES ASSUME sub.lvc, sub.queue = NoQueue, NEW j \in 1 .. Len(cache'), Wanted(sub, cache'[j])
                 PROVE  seen'[sub.conn][sub.sid][cache'[j].subject] = cache'[j].msg
    BY <2>3 DEF UpToDate, Wanted
  <2>8. CASE cache'[j].subject # subject
    <3>1. j \in 1 .. Len(cache) /\ cache'[j] = cache[j]
      BY <1>10, <2>8
    <3>2. cache[j].subject \in Subjects
      BY <1>9, <3>1, EntryProps
    <3>3. seen[sub.conn][sub.sid][cache[j].subject] = cache[j].msg
      BY <2>4, <2>7, <3>1 DEF UpToDate
    <3> QED BY <1>13, <2>5, <2>8, <3>1, <3>2, <3>3
  <2>9. CASE cache'[j].subject = subject
    <3>1. Cached(subject)
      BY <1>11, <2>9
    <3>2. cache'[j].msg = msg /\ d.ok
      BY <1>10, <1>12, <2>9, <3>1
    <3>3. LvcEnabled(subject) /\ SubjectMatches(sub.filter, subject)
      BY <2>7, <2>9 DEF Wanted
    <3>4. k \in V
      <4>1. sub.filter \in ValidFilters /\ subject \in ValidSubjects
        BY <2>5, SubjectsAssumption
      <4>2. Selected(sub.filter, subject)
        BY <3>3, <4>1, MatchesFits, SelectedFits
      <4> QED BY <2>4, <4>2 DEF Selected, V
    <3>5. Deliverable(d, sub, subject)
      BY <2>4, <2>5, <3>3 DEF Deliverable
    <3>6. PICK l \in 1 .. Len(d.frames[sub.conn]) : d.frames[sub.conn][l] = Frame(sub, subject, msg)
      BY <2>6, <2>7, <3>2, <3>4, <3>5 DEF Served
    <3>7. d.frames[sub.conn][l].lvc /\ d.frames[sub.conn][l].sid = sub.sid
      BY <2>7, <3>6 DEF Frame
    <3> QED BY <1>13, <2>5, <2>9, <3>2, <3>7
  <2> QED BY <2>8, <2>9
<1> QED BY <1>6, <1>11, <1>14 DEF Converged

\* Every step keeps what clients show converged, if what it cached it also delivered.
LEMMA ConvergedNext ==
  ASSUME Safe, Converged, [Next]_vars, [CachedIsDelivered]_vars
  PROVE  Converged'
<1>1. RegistryTypes /\ CacheTypes /\ OutTypes /\ SeenTypes /\ Registry
  BY TypeParts DEF Safe
<1>2. lists \in AllLists /\ seen \in [Conns -> Views] /\ open \subseteq Conns /\ From(lists, lists, open)
  BY <1>1, FromSelf DEF RegistryTypes, SeenTypes
<1>3. ASSUME NEW c \in Conns, Accept(c) PROVE Converged'
  <2>1. lists' = lists /\ cache' = cache /\ c \notin open /\ seen' = [seen EXCEPT ![c] = NothingSeen]
    BY <1>3 DEF Accept
  <2>2. \A e \in open : seen'[e] = seen[e]
    BY <1>2, <2>1
  <2> QED BY <1>2, <2>1, <2>2, ConvergedKept
<1>4. ASSUME NEW c \in Conns, NEW s \in Sids, NEW m \in {NoMax} \cup 1 .. MaxMsgs, Unsubscribe(c, s, m)
      PROVE  Converged'
  <2> DEFINE new == UnsubscribeIn(lists, c, s, m)
  <2>1. lists' = new /\ cache' = cache /\ seen' = seen
    BY <1>4 DEF Unsubscribe
  <2>2. new \in AllLists /\ Within(new, lists, {}) /\ LimitedBy(new, lists, c, s, m)
    BY <1>2, UnsubscribeProps
  <2> HIDE DEF new
  <2>3. ASSUME NEW k \in Keys, NEW i \in 1 .. Len(new[k])
        PROVE  new[k][i].conn \in open /\ \E x \in 1 .. Len(lists[k]) : Alike(new[k][i], lists[k][x])
    <3>1. PICK x \in 1 .. Len(lists[k]) : new[k][i] = lists[k][x] \/ new[k][i] = [lists[k][x] EXCEPT !.max = m]
      BY <2>2 DEF LimitedBy
    <3>2. lists[k][x] \in Sub /\ lists[k][x].conn \in open
      BY <1>1, <1>2, ItemIsSub DEF Registry, ItemsOK
    <3>3. Alike(new[k][i], lists[k][x])
      BY <3>1, <3>2 DEF Alike, Sub
    <3> QED BY <3>2, <3>3 DEF Alike
  <2>4. From(lists', lists, open)
    BY <2>1, <2>3 DEF From
  <2> QED BY <2>1, <2>4, ConvergedKept
<1>5. ASSUME NEW c \in Conns, Drain(c) PROVE Converged'
  <2>1. lists' = lists /\ cache' = cache /\ seen' = seen
    BY <1>5 DEF Drain
  <2> QED BY <1>2, <2>1, ConvergedKept
<1>6. ASSUME NEW c \in Conns, BeginClose(c) PROVE Converged'
  <2> DEFINE new == RemoveAllFor(lists, {c})
  <2>1. lists' = new /\ cache' = cache /\ seen' = [seen EXCEPT ![c] = NothingSeen]
    BY <1>6 DEF BeginClose
  <2>2. new \in AllLists /\ Within(new, lists, {}) /\ LeftBy(new, lists, {c})
    BY <1>2, RemoveAllForProps
  <2> HIDE DEF new
  <2>3. From(new, lists, open \ {c})
    <3>1. \A k \in Keys : \A x \in 1 .. Len(lists[k]) : lists[k][x].conn \in open
      BY <1>1 DEF Registry, ItemsOK
    <3>2. ASSUME NEW k \in Keys, NEW i \in 1 .. Len(new[k])
          PROVE  new[k][i].conn \in open \ {c} /\ \E x \in 1 .. Len(lists[k]) : Alike(new[k][i], lists[k][x])
      <4>1. PICK x \in 1 .. Len(lists[k]) : new[k][i] = lists[k][x] /\ new[k][i].conn \notin {c}
        BY <2>2 DEF LeftBy
      <4> QED BY <3>1, <4>1 DEF Alike
    <3> QED BY <3>2 DEF From
  <2>4. \A e \in open \ {c} : seen'[e] = seen[e]
    BY <1>2, <2>1
  <2> QED BY <2>1, <2>3, <2>4, ConvergedKept
<1>7. ASSUME NEW x \in Subjects, NEW n \in Sizes, PublishRefused(x, n) PROVE Converged'
  <2>1. lists' = lists /\ seen' = seen
    BY <1>7 DEF PublishRefused
  <2>2. cache' = cache
    BY <1>1, <1>7 DEF PublishRefused, Registry, RegistryTypes
  <2> QED BY <1>2, <2>1, <2>2, ConvergedKept
<1>8. CASE UNCHANGED vars
  <2>1. lists' = lists /\ seen' = seen /\ cache' = cache
    BY <1>8 DEF vars
  <2> QED BY <1>2, <2>1, ConvergedKept
<1>9. ASSUME NEW x \in Subjects, NEW n \in Sizes, NEW b \in Budgets, NEW p \in Picks, Publish(x, n, p, b)
      PROVE  Converged'
  <2>1. CachedIsDelivered
    <3>1. published \in Nat /\ published' = published + 1
      BY <1>1, <1>9, BoundsAssumption DEF CacheTypes, Publish
    <3>2. vars' # vars
      BY <3>1 DEF vars
    <3> QED BY <3>2
  <2> QED BY <1>9, <2>1, PublishConverges
<1>10. ASSUME NEW c \in Conns, NEW f \in Filters, NEW l \in Kinds, NEW q \in Queues, NEW s \in Sids,
              Subscribe(c, f, l, q, s)
       PROVE  Converged'
  BY <1>10, SubscribeConverges
<1> QED
  BY <1>3, <1>4, <1>5, <1>6, <1>7, <1>8, <1>9, <1>10
  DEF Next, AcceptSome, SubscribeSome, UnsubscribeSome, DrainSome, CloseSome, PublishSome, RefuseSome

\* Replay and live delivery agree, however SUB, UNSUB, disconnects and publishes are
\* interleaved: as long as no publish fails whose value has been cached, the last frame an
\* ordinary $LVC subscription was written for a cached subject is the cached value.  (A publish
\* that fails halfway leaves the value in the cache and some subscriptions without it, which is
\* why the hypothesis is needed.)
THEOREM LvcViewsConverge == Spec /\ [][CachedIsDelivered]_vars => []LvcConverges
<1>1. Init => Safe /\ Converged
  <2>1. ASSUME Init PROVE Converged
    <3>1. Len(cache) = 0 /\ \A k \in Keys : Len(lists[k]) = 0
      BY <2>1 DEF Init
    <3> QED BY <3>1 DEF Converged
  <2> QED BY <2>1, SafeInit
<1>2. Safe /\ Converged /\ [Next]_vars /\ [CachedIsDelivered]_vars => Safe' /\ Converged'
  BY SafeNext, ConvergedNext
<1>3. ASSUME Safe, Converged PROVE LvcConverges
  <2>1. lists \in AllLists /\ DOMAIN cache = 1 .. Len(cache)
    BY <1>3 DEF Safe, TypeOK, AllLists
  <2>2. SUFFICES ASSUME NEW sub \in Subs, sub.lvc, sub.queue = NoQueue, NEW i \in DOMAIN cache,
                        LvcEnabled(cache[i].subject), SubjectMatches(sub.filter, cache[i].subject)
                 PROVE  seen[sub.conn][sub.sid][cache[i].subject] = cache[i].msg
    BY DEF LvcConverges
  <2>3. PICK k \in Keys : sub \in ToSet(lists[k])
    BY DEF Subs
  <2>4. DOMAIN lists[k] = 1 .. Len(lists[k])
    BY <2>1 DEF AllLists
  <2>5. PICK x \in 1 .. Len(lists[k]) : sub = lists[k][x]
    BY <2>3, <2>4 DEF ToSet
  <2>6. UpToDate(sub, seen, cache)
    BY <1>3, <2>5 DEF Converged
  <2> QED BY <2>1, <2>2, <2>6 DEF UpToDate, Wanted
<1> QED BY <1>1, <1>2, <1>3, PTL DEF Spec

-----------------------------------------------------------------------------
(* What a publish writes, counted.                                         *)

\* The subscription at a place of the lists.
At(m) == lists[m[1]][m[2]]

\* sub_deliverable but for the connection.
Due(sub, subject) ==
    /\ ListOf(sub.filter)[1] # "literal" => SubjectMatches(sub.filter, subject)
    /\ sub.lvc => LvcEnabled(subject)

\* The frames written in the progress fs are those of the subscriptions at D, one each: g says
\* which of its connection's it is.
Tally(fs, D, g, subject, msg) ==
    /\ D \subseteq Slots(lists, Conns)
    /\ g \in [D -> Nat]
    /\ \A m \in D : g[m] \in 1 .. Len(fs[At(m).conn]) /\ fs[At(m).conn][g[m]] = Frame(At(m), subject, msg)
    /\ \A m, n \in D : At(m).conn = At(n).conn /\ g[m] = g[n] => m = n
    /\ \A c \in Conns : \A i \in 1 .. Len(fs[c]) : \E m \in D : At(m).conn = c /\ g[m] = i

\* One more frame, for one more subscription.
LEMMA TallyMore ==
  ASSUME lists \in AllLists, NEW fs \in [Conns -> Seq(Frames)], NEW D, NEW g, NEW subject \in Subjects,
         NEW msg \in Nat \ {0}, Tally(fs, D, g, subject, msg), NEW m \in Slots(lists, Conns), m \notin D, NEW fs2,
         fs2 = [fs EXCEPT ![At(m).conn] = Append(@, Frame(At(m), subject, msg))]
  PROVE  \E h : Tally(fs2, D \cup {m}, h, subject, msg)
<1> DEFINE c == At(m).conn
           fr == Frame(At(m), subject, msg)
           D2 == D \cup {m}
           h == [x \in D2 |-> IF x = m THEN Len(fs[c]) + 1 ELSE g[x]]
<1>1. m[1] \in Keys /\ m[2] \in 1 .. Len(lists[m[1]])
  BY DEF Slots, AllLists
<1>2. At(m) \in Sub /\ c \in Conns
  BY <1>1, ItemIsSub DEF At
<1>3. fr \in Frames
  BY <1>2 DEF Frame, Frames, Sub
<1>4. /\ D \subseteq Slots(lists, Conns) /\ g \in [D -> Nat]
      /\ \A x \in D : g[x] \in 1 .. Len(fs[At(x).conn]) /\ fs[At(x).conn][g[x]] = Frame(At(x), subject, msg)
      /\ \A x, y \in D : At(x).conn = At(y).conn /\ g[x] = g[y] => x = y
      /\ \A b \in Conns : \A i \in 1 .. Len(fs[b]) : \E x \in D : At(x).conn = b /\ g[x] = i
  BY DEF Tally
<1>5. \A x \in D : At(x).conn \in Conns
  <2>1. SUFFICES ASSUME NEW x \in D PROVE At(x).conn \in Conns
    OBVIOUS
  <2>2. x[1] \in Keys /\ x[2] \in 1 .. Len(lists[x[1]])
    BY <1>4 DEF Slots, AllLists
  <2> QED BY <2>2, ItemIsSub DEF At
<1> DEFINE old == fs[c]
<1>6. old \in Seq(Frames) /\ Len(old) \in Nat
  BY <1>2
<1>7. /\ fs2[c] = Append(old, fr)
      /\ \A b \in Conns : b # c => fs2[b] = fs[b]
  <2> HIDE DEF fr
  <2> QED BY <1>2 DEF fr
<1>8. /\ Len(Append(old, fr)) = Len(old) + 1 /\ Append(old, fr)[Len(old) + 1] = fr
      /\ \A i \in 1 .. Len(old) : Append(old, fr)[i] = old[i]
  <2> HIDE DEF old, fr
  <2> QED BY <1>3, <1>6, AppendProperties
<1>9. h \in [D2 -> Nat] /\ h[m] = Len(old) + 1 /\ \A x \in D : h[x] = g[x]
  BY <1>4, <1>6
<1> HIDE DEF old, c, fr, h
<1>10. ASSUME NEW x \in D2
       PROVE  h[x] \in 1 .. Len(fs2[At(x).conn]) /\ fs2[At(x).conn][h[x]] = Frame(At(x), subject, msg)
  <2>1. CASE x = m
    BY <1>6, <1>7, <1>8, <1>9, <2>1 DEF c, fr
  <2>2. CASE x \in D /\ At(x).conn = c
    <3>1. g[x] \in 1 .. Len(old) /\ old[g[x]] = Frame(At(x), subject, msg)
      BY <1>4, <2>2 DEF old
    <3>2. g[x] \in 1 .. Len(Append(old, fr)) /\ Append(old, fr)[g[x]] = old[g[x]]
      BY <1>6, <1>8, <3>1
    <3> QED BY <1>7, <1>9, <2>2, <3>1, <3>2
  <2>3. CASE x \in D /\ At(x).conn # c
    BY <1>4, <1>5, <1>7, <1>9, <2>3
  <2> QED BY <2>1, <2>2, <2>3
<1>11. \A x \in D : At(x).conn = c => g[x] # Len(old) + 1
  BY <1>4, <1>6 DEF old
<1>12. ASSUME NEW x \in D2, NEW y \in D2, At(x).conn = At(y).conn, h[x] = h[y] PROVE x = y
  BY <1>4, <1>9, <1>11, <1>12 DEF c
<1>13. ASSUME NEW b \in Conns, NEW i \in 1 .. Len(fs2[b]) PROVE \E x \in D2 : At(x).conn = b /\ h[x] = i
  <2>1. CASE b # c
    BY <1>4, <1>7, <1>9, <1>13, <2>1
  <2>2. CASE b = c
    <3>1. i \in 1 .. Len(old) \/ i = Len(old) + 1
      BY <1>6, <1>7, <1>8, <1>13, <2>2
    <3>2. CASE i \in 1 .. Len(old)
      BY <1>2, <1>4, <1>9, <2>2, <3>2 DEF old, c
    <3>3. CASE i = Len(old) + 1
      BY <1>9, <2>2, <3>3 DEF c
    <3> QED BY <3>1, <3>2, <3>3
  <2> QED BY <2>1, <2>2
<1>14. Tally(fs2, D2, h, subject, msg)
  BY <1>4, <1>9, <1>10, <1>12, <1>13 DEF Tally
<1> QED BY <1>14

\* What deliver_to_sub does for the item sub: a frame, or the connection is to be closed, or
\* the publish fails.
Wrote(e, d, sub, subject, msg) ==
    \/ sub.conn \in e.closed /\ e.frames = d.frames
    \/ ~e.ok /\ e.frames = d.frames
    \/ e.frames = [d.frames EXCEPT ![sub.conn] = Append(@, Frame(sub, subject, msg))]

LEMMA DeliverToWrites ==
  ASSUME NEW d \in Progress, NEW k, NEW i, NEW subject, NEW msg, NEW e, e = DeliverTo(d, k, i, subject, msg)
  PROVE  Wrote(e, d, d.ls[k][i], subject, msg)
<1> DEFINE sub == d.ls[k][i]
           full == Len(out[sub.conn]) + Len(d.frames[sub.conn]) >= MaxPending
<1>1. CASE full
  <2>1. e = [d EXCEPT !.closed = @ \cup {sub.conn}]
    BY <1>1 DEF DeliverTo
  <2> HIDE DEF sub
  <2>2. e.closed = d.closed \cup {sub.conn} /\ e.frames = d.frames
    BY <2>1 DEF Progress
  <2> QED BY <2>2 DEF sub, Wrote
<1>2. CASE ~full /\ d.left = 0
  <2>1. e = [d EXCEPT !.ok = FALSE]
    BY <1>2 DEF DeliverTo
  <2>2. e.ok = FALSE /\ e.frames = d.frames
    BY <2>1 DEF Progress
  <2> QED BY <2>2 DEF Wrote
<1>3. CASE ~full /\ d.left # 0
  <2> DEFINE ls2 == [d.ls EXCEPT ![k] = [d.ls[k] EXCEPT ![i] = [sub EXCEPT !.delivered = @ + 1]]]
             frames2 == [d.frames EXCEPT ![sub.conn] = Append(@, Frame(sub, subject, msg))]
  <2>1. e = [d EXCEPT !.ls = ls2, !.frames = frames2, !.left = d.left - 1]
    BY <1>3 DEF DeliverTo
  <2> HIDE DEF ls2, frames2
  <2>2. e.frames = frames2
    BY <2>1 DEF Progress
  <2> QED BY <2>2 DEF frames2, Wrote
<1> QED BY <1>1, <1>2, <1>3

\* The places of list k looked at so far and reached are in D, and so is all of D0; those due
\* in it, by themselves or chosen for their group, were reached unless the publish failed or
\* their connection is closed.
Told(e, D, D0, k, sel, subject, n) ==
    /\ D0 \subseteq D
    /\ \A m \in D : m \in D0 \/ /\ m[1] = k /\ m[2] \in 1 .. n /\ Due(At(m), subject)
                                /\ At(m).queue = NoQueue \/ m[2] \in sel
    /\ e.ok => \A i \in 1 .. n : /\ Deliverable(e, lists[k][i], subject)
                                 /\ lists[k][i].queue = NoQueue \/ i \in sel
                                 => <<k, i>> \in D

\* Counted, after n items of list k from the progress d.
AfterTold(d, D0, k, sel, subject, msg, n) ==
    {e \in After(d, k, subject, msg, n) :
        \E D, g : Tally(e.frames, D, g, subject, msg) /\ Told(e, D, D0, k, sel, subject, n)}

\* Whether an item is due does not depend on the number of messages it has had.
LEMMA DueSame ==
  ASSUME NEW d, NEW a, NEW b, Same(a, b), NEW subject, NEW msg
  PROVE  /\ Deliverable(d, a, subject) <=> Deliverable(d, b, subject)
         /\ Due(a, subject) <=> Due(b, subject)
         /\ Frame(a, subject, msg) = Frame(b, subject, msg)
BY DEF Same, Deliverable, Due, Frame

\* The loop of deliver_matching_list, one item, counted.
LEMMA ItemTold ==
  ASSUME LoopTypes, NEW d \in Progress, NEW k \in Keys, d.ls[k] = lists[k], NEW subject \in Subjects, NEW msg \in Nat \ {0},
         NEW selected, NEW n \in 1 .. Len(d.ls[k]), NEW D0, \A m \in D0 : m[1] # k,
         NEW e \in AfterTold(d, D0, k, selected, subject, msg, n - 1)
  PROVE  DeliverItem(e, k, n, subject, msg, selected) \in AfterTold(d, D0, k, selected, subject, msg, n)
<1> DEFINE r == DeliverItem(e, k, n, subject, msg, selected)
           due == /\ e.ok
                  /\ Deliverable(e, e.ls[k][n], subject)
                  /\ e.ls[k][n].queue = NoQueue \/ n \in selected
           sub == lists[k][n]
           m == <<k, n>>
<1>1. e \in After(d, k, subject, msg, n - 1)
  BY DEF AfterTold
<1>2. r \in After(d, k, subject, msg, n)
  BY <1>1, ItemKeeps
<1>3. e \in Progress /\ r \in Progress /\ Same(e.ls[k][n], sub)
  BY <1>1, <1>2 DEF After
<1>4. /\ Deliverable(e, e.ls[k][n], subject) <=> Deliverable(e, sub, subject)
      /\ Frame(e.ls[k][n], subject, msg) = Frame(sub, subject, msg)
      /\ e.ls[k][n].queue = sub.queue /\ e.ls[k][n].conn = sub.conn
  <2> DEFINE a == e.ls[k][n]
  <2>1. Same(a, sub)
    BY <1>3
  <2> HIDE DEF a, sub
  <2>2. /\ Deliverable(e, a, subject) <=> Deliverable(e, sub, subject)
        /\ Frame(a, subject, msg) = Frame(sub, subject, msg)
    BY <2>1, DueSame
  <2>3. a.queue = sub.queue /\ a.conn = sub.conn
    BY <2>1 DEF Same
  <2> QED BY <2>2, <2>3 DEF a
<1>5. PICK D, g : Tally(e.frames, D, g, subject, msg) /\ Told(e, D, D0, k, selected, subject, n - 1)
  BY DEF AfterTold
<1>6. n \in Nat \ {0} /\ n <= Len(lists[k]) /\ \A i \in 1 .. n : i \in 1 .. n - 1 \/ i = n
  BY DEF LoopTypes, AllLists
<1>7. At(m) = sub /\ sub.conn \in Conns /\ m \in Slots(lists, Conns)
  <2>1. sub.conn \in Conns
    BY ItemIsSub DEF LoopTypes
  <2> QED BY <1>6, <2>1 DEF At, Slots
<1>8. m \notin D
  BY <1>5, <1>6 DEF Told
<1>9. /\ D0 \subseteq D
      /\ \A x \in D : x \in D0 \/ /\ x[1] = k /\ x[2] \in 1 .. n - 1 /\ Due(At(x), subject)
                                  /\ At(x).queue = NoQueue \/ x[2] \in selected
      /\ e.ok => \A i \in 1 .. n - 1 : /\ Deliverable(e, lists[k][i], subject)
                                       /\ lists[k][i].queue = NoQueue \/ i \in selected
                                       => <<k, i>> \in D
  BY <1>5 DEF Told
<1>10. \A x : x \in 1 .. n - 1 => x \in 1 .. n
  BY <1>6
<1>11. CASE due
  <2>1. r = DeliverTo(e, k, n, subject, msg)
    BY <1>11 DEF DeliverItem
  <2>2. Later(r, e)
    <3>1. n \in 1 .. Len(e.ls[k]) /\ e.closed \subseteq open /\ WritesOK(e, subject, msg)
      BY <1>1 DEF After
    <3>2. Sends(r, e, k, n, subject, msg)
      <4> HIDE DEF r
      <4> QED BY <1>3, <1>11, <2>1, <3>1, DeliverToProps
    <3> QED BY <3>2 DEF Sends
  <2>3. \/ sub.conn \in r.closed /\ r.frames = e.frames
        \/ ~r.ok /\ r.frames = e.frames
        \/ r.frames = [e.frames EXCEPT ![sub.conn] = Append(@, Frame(sub, subject, msg))]
    <3> DEFINE a == e.ls[k][n]
    <3> HIDE DEF r, sub
    <3>1. Wrote(r, e, a, subject, msg)
      BY <1>3, <2>1, DeliverToWrites
    <3>2. a.conn = sub.conn /\ Frame(a, subject, msg) = Frame(sub, subject, msg)
      BY <1>4
    <3> HIDE DEF a
    <3> QED BY <3>1, <3>2 DEF Wrote
  <2> HIDE DEF r, sub, m
  <2>4. Due(sub, subject) /\ (sub.queue = NoQueue \/ n \in selected)
    BY <1>4, <1>11 DEF Deliverable, Due
  <2>5. r.ok => \A i \in 1 .. n - 1 : /\ Deliverable(r, lists[k][i], subject)
                                      /\ lists[k][i].queue = NoQueue \/ i \in selected
                                      => <<k, i>> \in D
    BY <1>9, <2>2 DEF Later, Deliverable
  <2>6. CASE (sub.conn \in r.closed \/ ~r.ok) /\ r.frames = e.frames
    <3>1. r.ok => ~Deliverable(r, sub, subject)
      BY <2>6 DEF Deliverable
    <3>2. Told(r, D, D0, k, selected, subject, n)
      BY <1>6, <1>9, <1>10, <2>5, <3>1 DEF Told, sub
    <3>3. Tally(r.frames, D, g, subject, msg)
      BY <1>5, <2>6
    <3> QED BY <1>2, <3>2, <3>3 DEF AfterTold, r
  <2>7. CASE r.frames = [e.frames EXCEPT ![sub.conn] = Append(@, Frame(sub, subject, msg))]
    <3>1. e.frames \in [Conns -> Seq(Frames)] /\ lists \in AllLists
      BY <1>3 DEF Progress, LoopTypes
    <3>2. \E h : Tally(r.frames, D \cup {m}, h, subject, msg)
      BY <1>5, <1>7, <1>8, <2>7, <3>1, TallyMore
    <3>3. Told(r, D \cup {m}, D0, k, selected, subject, n)
      <4>1. ASSUME NEW x \in D \cup {m}
            PROVE  x \in D0 \/ /\ x[1] = k /\ x[2] \in 1 .. n /\ Due(At(x), subject)
                               /\ At(x).queue = NoQueue \/ x[2] \in selected
        <5>1. CASE x = m
          <6>1. m[1] = k /\ m[2] = n /\ n \in 1 .. n
            BY <1>6 DEF m
          <6> QED BY <1>7, <2>4, <5>1, <6>1
        <5>2. CASE x \in D
          BY <1>9, <1>10, <5>2
        <5> QED BY <5>1, <5>2
      <4>2. ASSUME r.ok, NEW i \in 1 .. n, Deliverable(r, lists[k][i], subject),
                   lists[k][i].queue = NoQueue \/ i \in selected
            PROVE  <<k, i>> \in D \cup {m}
        BY <1>6, <2>5, <4>2 DEF m
      <4> QED BY <1>9, <4>1, <4>2 DEF Told
    <3> QED BY <1>2, <3>2, <3>3 DEF AfterTold, r
  <2> QED BY <2>3, <2>6, <2>7
<1>12. CASE ~due
  <2>1. r = e
    BY <1>12 DEF DeliverItem
  <2>2. e.ok => ~(Deliverable(e, sub, subject) /\ (sub.queue = NoQueue \/ n \in selected))
    BY <1>4, <1>12
  <2> HIDE DEF r
  <2>3. Told(e, D, D0, k, selected, subject, n)
    BY <1>6, <1>9, <1>10, <2>2 DEF Told
  <2> QED BY <1>2, <1>5, <2>1, <2>3 DEF AfterTold, r
<1> QED BY <1>11, <1>12

\* The loop, counted.
LEMMA ItemsTold ==
  ASSUME LoopTypes, NEW d \in Progress, NEW k \in Keys, d.ls[k] = lists[k], NEW subject \in Subjects, NEW msg \in Nat \ {0},
         NEW selected, d.closed \subseteq open, WritesOK(d, subject, msg),
         NEW D0, NEW g0, Tally(d.frames, D0, g0, subject, msg), \A m \in D0 : m[1] # k
  PROVE  DeliverItems(d, k, subject, msg, selected) \in AfterTold(d, D0, k, selected, subject, msg, Len(d.ls[k]))
<1> DEFINE N == Len(d.ls[k])
           T == [n \in 0 .. N |-> AfterTold(d, D0, k, selected, subject, msg, n)]
<1>1. PICK h : /\ h[0] = d /\ d \in After(d, k, subject, msg, 0)
               /\ \A n \in 1 .. N : h[n] = DeliverItem(h[n - 1], k, n, subject, msg, selected)
               /\ DeliverItems(d, k, subject, msg, selected) = h[N]
  BY ItemsRun, SMTT(30)
<1>2. N \in Nat
  BY DEF Progress, AllLists
<1>3. h[0] \in T[0]
  <2>1. Told(d, D0, D0, k, selected, subject, 0)
    BY DEF Told
  <2>2. d \in AfterTold(d, D0, k, selected, subject, msg, 0)
    BY <1>1, <2>1 DEF AfterTold
  <2> QED BY <1>1, <1>2, <2>2
<1>4. ASSUME NEW n \in 1 .. N, h[n - 1] \in T[n - 1] PROVE h[n] \in T[n]
  <2>1. h[n - 1] \in AfterTold(d, D0, k, selected, subject, msg, n - 1)
    BY <1>2, <1>4
  <2>2. h[n] \in AfterTold(d, D0, k, selected, subject, msg, n)
    BY <1>1, <2>1, ItemTold
  <2> QED BY <1>2, <2>2
<1> HIDE DEF T
<1>5. h[N] \in T[N]
  <2> HIDE DEF N
  <2>1. \A n \in 0 .. N : h[n] \in T[n]
    BY <1>2, <1>3, <1>4, Stays
  <2> QED BY <1>2, <2>1
<1> QED BY <1>1, <1>2, <1>5 DEF T

\* What collect_queue_delivery chooses in a list: items that are due, one for each group that
\* has such an item.
LEMMA SelectedProps ==
  ASSUME NEW d, NEW list \in Seq(Sub), NEW subject, NEW pick, NEW sel, sel = QueueSelected(d, list, subject, pick)
  PROVE  /\ \A i \in sel : i \in 1 .. Len(list) /\ list[i].queue # NoQueue /\ Deliverable(d, list[i], subject)
         /\ \A i \in 1 .. Len(list) : list[i].queue # NoQueue /\ Deliverable(d, list[i], subject) =>
                                         \E j \in sel : GroupOf(list[j]) = GroupOf(list[i])
         /\ \A i, j \in sel : GroupOf(list[i]) = GroupOf(list[j]) => i = j
<1> DEFINE Q(i) == list[i].queue # NoQueue /\ Deliverable(d, list[i], subject)
           members(g) == {i \in DOMAIN list : list[i].queue # NoQueue /\ Deliverable(d, list[i], subject) /\ GroupOf(list[i]) = g}
           groups == {GroupOf(list[i]) : i \in {j \in DOMAIN list : list[j].queue # NoQueue /\ Deliverable(d, list[j], subject)}}
           one(g) == IF pick[g] \in members(g) THEN pick[g] ELSE Min(members(g))
<1>1. sel = {one(g) : g \in groups}
  BY DEF QueueSelected
<1>2. DOMAIN list = 1 .. Len(list) /\ Len(list) \in Nat
  OBVIOUS
<1>3. \A g, i : i \in members(g) <=> i \in 1 .. Len(list) /\ Q(i) /\ GroupOf(list[i]) = g
  BY <1>2
<1>4. \A g : g \in groups <=> \E i \in 1 .. Len(list) : Q(i) /\ GroupOf(list[i]) = g
  BY <1>2
<1> HIDE DEF Q, groups
<1>5. ASSUME NEW g \in groups PROVE one(g) \in members(g)
  <2>1. members(g) # {}
    <3> HIDE DEF members
    <3> QED BY <1>3, <1>4
  <2>2. members(g) \subseteq Nat
    <3> HIDE DEF members
    <3> QED BY <1>2, <1>3
  <2> HIDE DEF members
  <2> QED BY <2>1, <2>2, MinIs
<1> HIDE DEF members, one
<1>6. \A i \in sel : \E g \in groups : i = one(g) /\ i \in members(g)
  BY <1>1, <1>5
<1>7. ASSUME NEW i \in sel PROVE i \in 1 .. Len(list) /\ Q(i)
  BY <1>3, <1>6
<1>8. ASSUME NEW i \in 1 .. Len(list), Q(i) PROVE \E j \in sel : GroupOf(list[j]) = GroupOf(list[i])
  <2>1. GroupOf(list[i]) \in groups
    BY <1>4, <1>8
  <2>2. one(GroupOf(list[i])) \in members(GroupOf(list[i])) /\ one(GroupOf(list[i])) \in sel
    BY <1>1, <1>5, <2>1
  <2> QED BY <1>3, <2>2
<1>9. ASSUME NEW i \in sel, NEW j \in sel, GroupOf(list[i]) = GroupOf(list[j]) PROVE i = j
  BY <1>3, <1>6, <1>9
<1> QED BY <1>7, <1>8, <1>9 DEF Q

\* Of the lists of V, the subscriptions at D were written to: the ordinary ones, all of them
\* unless the publish failed or their connection is closed, and those of X, one for every
\* group.
Chosen(d, V, D, X, subject) ==
    /\ \A m \in D : m[1] \in V /\ Due(At(m), subject) /\ (At(m).queue = NoQueue \/ m \in X)
    /\ d.ok => \A m \in Slots(lists, Conns) :
          m[1] \in V /\ Deliverable(d, At(m), subject) /\ (At(m).queue = NoQueue \/ m \in X) => m \in D
    /\ X \subseteq Slots(lists, Conns)
    /\ \A m \in X : m[1] \in V /\ At(m).queue # NoQueue /\ Due(At(m), subject)
    /\ \A m, n \in X : m[1] = n[1] /\ GroupOf(At(m)) = GroupOf(At(n)) => m = n
    /\ d.ok /\ d.closed = {} => \A m \in Slots(lists, Conns) :
          m[1] \in V /\ At(m).queue # NoQueue /\ Due(At(m), subject) =>
             \E x \in X : x[1] = m[1] /\ GroupOf(At(x)) = GroupOf(At(m))

\* What holds of a publish once it has been through the lists of V, counted.
Reached(V, subject, msg) ==
    {d \in Delivering(V, subject, msg) :
        \E D, X, g : Tally(d.frames, D, g, subject, msg) /\ Chosen(d, V, D, X, subject)}

\* deliver_matching_list, counted.
LEMMA ListTold ==
  ASSUME LoopTypes, ItemsOK(lists, open), NEW V, NEW k, k \notin V, NEW subject \in Subjects,
         NEW msg \in Nat \ {0}, NEW pick, NEW d \in Reached(V, subject, msg)
  PROVE  DeliverList(d, k, subject, msg, pick) \in Reached(V \cup {k}, subject, msg)
<1> DEFINE W == V \cup {k}
           r == DeliverList(d, k, subject, msg, pick)
           S == Slots(lists, Conns)
<1>1. d \in Delivering(V, subject, msg)
  BY DEF Reached
<1>2. r \in Delivering(W, subject, msg)
  BY <1>1, ListProps
<1>3. PICK D, X, g : Tally(d.frames, D, g, subject, msg) /\ Chosen(d, V, D, X, subject)
  BY DEF Reached
<1>4. /\ \A m \in D : m[1] \in V /\ Due(At(m), subject) /\ (At(m).queue = NoQueue \/ m \in X)
      /\ d.ok => \A m \in S : m[1] \in V /\ Deliverable(d, At(m), subject) /\ (At(m).queue = NoQueue \/ m \in X) => m \in D
      /\ X \subseteq S
      /\ \A m \in X : m[1] \in V /\ At(m).queue # NoQueue /\ Due(At(m), subject)
      /\ \A m, n \in X : m[1] = n[1] /\ GroupOf(At(m)) = GroupOf(At(n)) => m = n
      /\ d.ok /\ d.closed = {} => \A m \in S : m[1] \in V /\ At(m).queue # NoQueue /\ Due(At(m), subject) =>
            \E x \in X : x[1] = m[1] /\ GroupOf(At(x)) = GroupOf(At(m))
  BY <1>3 DEF Chosen
<1>5. \A m \in S : m[1] \in Keys /\ m[2] \in 1 .. Len(lists[m[1]]) /\ m = <<m[1], m[2]>> /\ At(m) = lists[m[1]][m[2]]
  BY DEF Slots, LoopTypes, AllLists, At
<1>6. CASE ~d.ok \/ k \notin Keys
  <2>1. r = d
    BY <1>6 DEF DeliverList
  <2>2. d.ok => \A m \in S : m[1] \in W => m[1] \in V
    BY <1>5, <1>6
  <2> HIDE DEF S
  <2>3. Chosen(d, W, D, X, subject)
    BY <1>4, <2>2 DEF Chosen, S
  <2> HIDE DEF r, W
  <2> QED BY <1>2, <1>3, <2>1, <2>3 DEF Reached, r, W
<1>7. CASE d.ok /\ k \in Keys
  <2> DEFINE sel == QueueSelected(d, d.ls[k], subject, pick)
             e == DeliverItems(d, k, subject, msg, sel)
             N == Len(lists[k])
             X2 == X \cup {<<k, j>> : j \in sel}
  <2>1. /\ d \in Progress /\ d.ls[k] = lists[k] /\ d.closed \subseteq open /\ WritesOK(d, subject, msg)
        /\ lists[k] \in Seq(Sub) /\ N \in Nat
    BY <1>1, <1>7 DEF Delivering, LoopTypes, AllLists
  <2>2. /\ \A i \in sel : i \in 1 .. N /\ lists[k][i].queue # NoQueue /\ Deliverable(d, lists[k][i], subject)
        /\ \A i \in 1 .. N : lists[k][i].queue # NoQueue /\ Deliverable(d, lists[k][i], subject) =>
                                \E j \in sel : GroupOf(lists[k][j]) = GroupOf(lists[k][i])
        /\ \A i, j \in sel : GroupOf(lists[k][i]) = GroupOf(lists[k][j]) => i = j
    <3> DEFINE list == lists[k]
    <3>1. list \in Seq(Sub) /\ sel = QueueSelected(d, list, subject, pick)
      BY <2>1
    <3> HIDE DEF list, sel
    <3> QED BY <3>1, SelectedProps DEF list
  <2> HIDE DEF sel
  <2>3. e \in AfterTold(d, D, k, sel, subject, msg, N)
    <3>1. \A m \in D : m[1] # k
      BY <1>4
    <3> QED BY <1>3, <1>7, <2>1, <3>1, ItemsTold
  <2>4. r = RemoveDeliveredMax(e, k)
    BY <1>7 DEF DeliverList, sel
  <2> HIDE DEF e, r, N
  <2>5. e \in Progress /\ Later(e, d)
    BY <2>3 DEF AfterTold, After
  <2>6. r.frames = e.frames /\ r.closed = e.closed /\ r.ok = e.ok
    BY <2>4, <2>5 DEF RemoveDeliveredMax, Progress
  <2>7. PICK D2, g2 : Tally(e.frames, D2, g2, subject, msg) /\ Told(e, D2, D, k, sel, subject, N)
    BY <2>3 DEF AfterTold
  <2>8. /\ D \subseteq D2
        /\ \A m \in D2 : m \in D \/ /\ m[1] = k /\ m[2] \in 1 .. N /\ Due(At(m), subject)
                                    /\ At(m).queue = NoQueue \/ m[2] \in sel
        /\ e.ok => \A i \in 1 .. N : /\ Deliverable(e, lists[k][i], subject)
                                     /\ lists[k][i].queue = NoQueue \/ i \in sel
                                     => <<k, i>> \in D2
        /\ D2 \subseteq S
    BY <2>7 DEF Told, Tally
  <2>9. \A m \in S : m[1] = k => m[2] \in 1 .. N /\ m = <<k, m[2]>> /\ At(m) = lists[k][m[2]]
    BY <1>5 DEF N
  <2>10. \A j \in sel : <<k, j>> \in S /\ At(<<k, j>>) = lists[k][j]
    <3>1. ASSUME NEW j \in sel PROVE <<k, j>> \in S
      <4>1. j \in 1 .. N /\ lists[k][j].conn \in Conns
        BY <1>7, <2>2, ItemIsSub DEF LoopTypes, N
      <4> QED BY <1>7, <2>1, <4>1 DEF Slots, N
    <3> QED BY <3>1 DEF At
  <2>11. \A m : m \in X2 <=> m \in X \/ \E j \in sel : m = <<k, j>>
    OBVIOUS
  <2>12. \A j : <<k, j>>[1] = k /\ <<k, j>>[2] = j
    OBVIOUS
  <2> HIDE DEF S, X2
  <2>13. \A m \in D2 : m[1] \in W /\ Due(At(m), subject) /\ (At(m).queue = NoQueue \/ m \in X2)
    BY <1>4, <2>8, <2>9, <2>11
  <2>14. ASSUME e.ok, NEW m \in S, m[1] \in W, Deliverable(e, At(m), subject), At(m).queue = NoQueue \/ m \in X2
         PROVE  m \in D2
    <3>1. CASE m[1] = k
      <4>1. At(m).queue = NoQueue \/ m[2] \in sel
        BY <1>4, <2>11, <2>12, <2>14, <3>1
      <4> QED BY <2>8, <2>9, <2>14, <3>1, <4>1
    <3>2. CASE m[1] # k
      <4>1. m[1] \in V /\ (At(m).queue = NoQueue \/ m \in X)
        BY <2>11, <2>12, <2>14, <3>2
      <4>2. Deliverable(d, At(m), subject)
        BY <2>5, <2>14 DEF Deliverable, Later
      <4> QED BY <1>4, <1>7, <2>8, <4>1, <4>2
    <3> QED BY <3>1, <3>2
  <2>15. X2 \subseteq S
    BY <1>4, <2>10, <2>11
  <2>16. ASSUME NEW m \in X2 PROVE m[1] \in W /\ At(m).queue # NoQueue /\ Due(At(m), subject)
    <3>1. CASE m \in X
      BY <1>4, <3>1
    <3>2. ASSUME NEW j \in sel, m = <<k, j>> PROVE m[1] = k /\ At(m).queue # NoQueue /\ Due(At(m), subject)
      <4>1. At(m) = lists[k][j] /\ m[1] = k
        BY <2>10, <2>12, <3>2
      <4>2. lists[k][j].queue # NoQueue /\ Deliverable(d, lists[k][j], subject)
        BY <2>2
      <4> QED BY <4>1, <4>2 DEF Deliverable, Due
    <3> QED BY <2>11, <3>1, <3>2
  <2>17. ASSUME NEW m \in X2, NEW n \in X2, m[1] = n[1], GroupOf(At(m)) = GroupOf(At(n)) PROVE m = n
    <3>1. CASE m[1] = k
      <4>1. PICK i \in sel : m = <<k, i>>
        BY <1>4, <2>11, <3>1
      <4>2. PICK j \in sel : n = <<k, j>>
        BY <1>4, <2>11, <2>17, <3>1
      <4>3. At(m) = lists[k][i] /\ At(n) = lists[k][j]
        BY <2>10, <4>1, <4>2
      <4> QED BY <2>2, <2>17, <4>1, <4>2, <4>3
    <3>2. CASE m[1] # k
      BY <1>4, <2>11, <2>12, <2>17, <3>2
    <3> QED BY <3>1, <3>2
  <2>18. ASSUME e.ok, e.closed = {}, NEW m \in S, m[1] \in W, At(m).queue # NoQueue, Due(At(m), subject)
         PROVE  \E x \in X2 : x[1] = m[1] /\ GroupOf(At(x)) = GroupOf(At(m))
    <3>1. d.closed = {}
      BY <2>5, <2>18 DEF Later
    <3>2. CASE m[1] = k
      <4>1. m[2] \in 1 .. N /\ At(m) = lists[k][m[2]]
        BY <2>9, <3>2
      <4>2. lists[k][m[2]].conn \in open
        BY <1>7, <4>1 DEF ItemsOK, N
      <4>3. Deliverable(d, lists[k][m[2]], subject)
        BY <2>18, <3>1, <4>1, <4>2 DEF Deliverable, Due
      <4>4. PICK j \in sel : GroupOf(lists[k][j]) = GroupOf(lists[k][m[2]])
        BY <2>2, <2>18, <4>1, <4>3
      <4>5. <<k, j>> \in X2 /\ At(<<k, j>>) = lists[k][j] /\ <<k, j>>[1] = m[1]
        BY <2>10, <2>11, <3>2
      <4> QED BY <4>1, <4>4, <4>5
    <3>3. CASE m[1] # k
      <4>1. m[1] \in V
        BY <2>18, <3>3
      <4> QED BY <1>4, <1>7, <2>11, <2>18, <3>1, <4>1
    <3> QED BY <3>2, <3>3
  <2> HIDE DEF W
  <2>19. Chosen(e, W, D2, X2, subject)
    BY <2>13, <2>14, <2>15, <2>16, <2>17, <2>18 DEF Chosen, S
  <2>20. Chosen(r, W, D2, X2, subject)
    BY <2>6, <2>19 DEF Chosen, Deliverable
  <2>21. Tally(r.frames, D2, g2, subject, msg)
    BY <2>6, <2>7
  <2> QED BY <1>2, <2>20, <2>21 DEF Reached, r, W
<1> QED BY <1>6, <1>7

\* deliver_publish over the three lists of a subject, counted.
LEMMA DeliverTold ==
  ASSUME LoopTypes, ItemsOK(lists, open), NEW subject \in Subjects, NEW msg \in Nat \ {0}, NEW pick,
         NEW budget \in Nat, \A c \in Conns : Len(out[c]) <= MaxPending
  PROVE  Deliver(subject, msg, pick, budget) \in
            Reached({ListsFor(subject)[n] : n \in 1 .. 3}, subject, msg)
<1> DEFINE start == [ls |-> lists, closed |-> {}, frames |-> [c \in Conns |-> <<>>],
                     left |-> budget, ok |-> TRUE]
           next(d, n) == DeliverList(d, ListsFor(subject)[n], subject, msg, pick)
           key(n) == ListsFor(subject)[n]
<1>1. start \in Reached({}, subject, msg)
  <2>1. start \in Delivering({}, subject, msg)
    BY StartDelivers DEF ItemsOK
  <2>2. \A c \in Conns : start.frames[c] = <<>>
    OBVIOUS
  <2> HIDE DEF start
  <2>3. Tally(start.frames, {}, [x \in {} |-> 0], subject, msg)
    BY <2>2 DEF Tally
  <2>4. Chosen(start, {}, {}, {}, subject)
    BY DEF Chosen
  <2> QED BY <2>1, <2>3, <2>4 DEF Reached
<1>2. key(1) # key(2) /\ key(1) # key(3) /\ key(2) # key(3)
  <2>1. key(1)[1] = "literal" /\ key(2)[1] = "wildcard" /\ key(3)[1] = "global"
    BY DEF ListsFor
  <2> QED BY <2>1
<1>3. Deliver(subject, msg, pick, budget) = next(next(next(start, 1), 2), 3)
  BY DEF Deliver
<1> HIDE DEF start
<1>4. next(start, 1) \in Reached({key(1)}, subject, msg)
  <2>1. next(start, 1) \in Reached({} \cup {key(1)}, subject, msg)
    <3> HIDE DEF key
    <3> QED BY <1>1, ListTold DEF key
  <2> QED BY <2>1
<1>5. next(next(start, 1), 2) \in Reached({key(1)} \cup {key(2)}, subject, msg)
  <2> DEFINE d == next(start, 1)
  <2>1. d \in Reached({key(1)}, subject, msg)
    BY <1>4
  <2> HIDE DEF d
  <2>2. DeliverList(d, key(2), subject, msg, pick) \in Reached({key(1)} \cup {key(2)}, subject, msg)
    <3> HIDE DEF key
    <3> QED BY <1>2, <2>1, ListTold
  <2> QED BY <2>2 DEF d
<1>6. next(next(next(start, 1), 2), 3) \in Reached(({key(1)} \cup {key(2)}) \cup {key(3)}, subject, msg)
  <2> DEFINE d == next(next(start, 1), 2)
  <2>1. d \in Reached({key(1)} \cup {key(2)}, subject, msg)
    BY <1>5
  <2> HIDE DEF d
  <2>2. DeliverList(d, key(3), subject, msg, pick) \in Reached(({key(1)} \cup {key(2)}) \cup {key(3)}, subject, msg)
    <3> HIDE DEF key
    <3> QED BY <1>2, <2>1, ListTold
  <2> QED BY <2>2 DEF d
<1>7. ({key(1)} \cup {key(2)}) \cup {key(3)} = {ListsFor(subject)[n] : n \in 1 .. 3}
  OBVIOUS
<1> QED BY <1>3, <1>6, <1>7

-----------------------------------------------------------------------------
(* The counts of ExactDelivery.                                            *)

\* The places of the subscriptions that match a subject; the ordinary ones; the groups of the
\* others.
Matching(subject) == {m \in Slots(lists, Conns) : /\ SubjectMatches(At(m).filter, subject)
                                                  /\ At(m).lvc => LvcEnabled(subject)}
Ordinary(subject) == {m \in Matching(subject) : At(m).queue = NoQueue}

\* In a list the publish walks, what is due is what matches; and what matches is in one.
LEMMA DueMatches ==
  ASSUME LoopTypes, ItemsOK(lists, open), NEW subject \in Subjects, NEW m \in Slots(lists, Conns)
  PROVE  m \in Matching(subject) <=> Due(At(m), subject) /\ m[1] \in {ListsFor(subject)[n] : n \in 1 .. 3}
<1>1. m[1] \in Keys /\ m[2] \in 1 .. Len(lists[m[1]]) /\ At(m) = lists[m[1]][m[2]]
  BY DEF Slots, LoopTypes, AllLists, At
<1> DEFINE f == At(m).filter
<1>2. ListOf(f) = m[1] /\ f \in Filters
  BY <1>1, ItemIsSub DEF ItemsOK, LoopTypes, Sub
<1>3. f \in ValidFilters /\ subject \in ValidSubjects
  BY <1>2, SubjectsAssumption
<1> HIDE DEF f
<1>4. SubjectMatches(f, subject) <=> Selected(f, subject)
  BY <1>3, MatchesFits, SelectedFits
<1>5. Selected(f, subject) <=> /\ m[1] \in {ListsFor(subject)[n] : n \in 1 .. 3}
                               /\ ListOf(f)[1] # "literal" => SubjectMatches(f, subject)
  BY <1>2 DEF Selected
<1> QED BY <1>4, <1>5 DEF Matching, Due, f

\* What a publish has done when it returns.
Sent(d, D, X, g, subject, msg) ==
    /\ d.ok /\ d.closed \subseteq open
    /\ Tally(d.frames, D, g, subject, msg)
    /\ Chosen(d, {ListsFor(subject)[n] : n \in 1 .. 3}, D, X, subject)

\* Every frame is for a subscription that matches, and no ordinary one of a connection left
\* open goes without.
LEMMA SentWithin ==
  ASSUME LoopTypes, ItemsOK(lists, open), NEW subject \in Subjects, NEW msg, NEW d, NEW D, NEW X, NEW g,
         Sent(d, D, X, g, subject, msg)
  PROVE  /\ D \subseteq Matching(subject) /\ X \subseteq Matching(subject)
         /\ \A m \in Ordinary(subject) \cup X : At(m).conn \notin d.closed => m \in D
         /\ \A m \in D : m \in Ordinary(subject) \cup X
         /\ \A m \in X : At(m).queue # NoQueue
<1> DEFINE V == {ListsFor(subject)[n] : n \in 1 .. 3}
           S == Slots(lists, Conns)
<1>1. /\ \A m \in D : m[1] \in V /\ Due(At(m), subject) /\ (At(m).queue = NoQueue \/ m \in X)
      /\ \A m \in S : m[1] \in V /\ Deliverable(d, At(m), subject) /\ (At(m).queue = NoQueue \/ m \in X) => m \in D
      /\ X \subseteq S /\ D \subseteq S
      /\ \A m \in X : m[1] \in V /\ At(m).queue # NoQueue /\ Due(At(m), subject)
  BY DEF Sent, Chosen, Tally
<1>2. \A m \in S : m \in Matching(subject) <=> Due(At(m), subject) /\ m[1] \in V
  BY DueMatches
<1>3. \A m \in S : At(m).conn \in open
  BY DEF Slots, ItemsOK, At, LoopTypes, AllLists
<1>4. Matching(subject) \subseteq S
  BY DEF Matching
<1> HIDE DEF V, S
<1>5. D \subseteq Matching(subject) /\ X \subseteq Matching(subject)
  BY <1>1, <1>2
<1>6. ASSUME NEW m \in Ordinary(subject) \cup X, At(m).conn \notin d.closed PROVE m \in D
  <2>1. m \in Matching(subject) /\ (At(m).queue = NoQueue \/ m \in X)
    BY <1>5 DEF Ordinary
  <2>2. m \in S /\ Due(At(m), subject) /\ m[1] \in V
    BY <1>2, <1>4, <2>1
  <2>3. Deliverable(d, At(m), subject)
    BY <1>3, <1>6, <2>2 DEF Deliverable, Due
  <2> QED BY <1>1, <2>1, <2>2, <2>3
<1>7. \A m \in D : m \in Ordinary(subject) \cup X
  BY <1>1, <1>5 DEF Ordinary
<1> QED BY <1>1, <1>5, <1>6, <1>7

\* Two finite sets of the same size, by a function that is one to one and onto.
LEMMA SameSize ==
  ASSUME NEW A, NEW B, IsFiniteSet(A), NEW F, F \in [A -> B],
         \A x, y \in A : F[x] = F[y] => x = y, \A z \in B : \E x \in A : F[x] = z
  PROVE  IsFiniteSet(B) /\ Cardinality(B) = Cardinality(A)
<1>1. F \in Bijection(A, B)
  BY DEF Bijection, Injection, IsInjective, Surjection
<1>2. ExistsBijection(A, B)
  BY <1>1 DEF ExistsBijection
<1> QED BY <1>2, FS_Bijection

\* The fields of a frame that say whose it is.
LEMMA FrameOf ==
  ASSUME NEW sub, NEW subject, NEW msg
  PROVE  Frame(sub, subject, msg).sid = sub.sid /\ Frame(sub, subject, msg).lvc = sub.lvc
BY DEF Frame

\* What of the output after is new in connection c for sid s is within bounds; what of it is
\* new in all of them is one frame per ordinary subscription and per group.
ConnCounts(after, c, s, l, subject) ==
    Cardinality({i \in Len(out[c]) + 1 .. Len(after) : after[i].sid = s /\ after[i].lvc = l}) \in
        Cardinality({m \in Ordinary(subject) : At(m).conn = c /\ At(m).sid = s /\ At(m).lvc = l}) ..
        Cardinality({m \in Matching(subject) : At(m).conn = c /\ At(m).sid = s /\ At(m).lvc = l})

TotalCounts(after, subject) ==
    Cardinality(UNION {{<<c, i>> : i \in Len(out[c]) + 1 .. Len(after[c])} : c \in Conns}) =
        Cardinality(Ordinary(subject)) +
        Cardinality({<<At(m).lvc, At(m).filter, At(m).queue>> : m \in Matching(subject) \ Ordinary(subject)})

\* The frames a connection left open was sent for a sid: at least one for each of its ordinary
\* subscriptions that match, at most one for each that matches.
LEMMA ConnExact ==
  ASSUME LoopTypes, OutTypes, ItemsOK(lists, open), IsFiniteSet(Slots(lists, Conns)),
         NEW subject \in Subjects, NEW msg, NEW d \in Progress, NEW D, NEW X, NEW g, Sent(d, D, X, g, subject, msg),
         NEW c \in Conns \ d.closed, NEW s, NEW l, NEW after, after = out[c] \o d.frames[c]
  PROVE  ConnCounts(after, c, s, l, subject)
<1> DEFINE R(m) == At(m).conn = c /\ At(m).sid = s /\ At(m).lvc = l
           A == {m \in D : R(m)}
           P == {m \in Ordinary(subject) : R(m)}
           M == {m \in Matching(subject) : R(m)}
           B == {i \in Len(out[c]) + 1 .. Len(after) : after[i].sid = s /\ after[i].lvc = l}
           a == Len(out[c])
           fs == d.frames[c]
           F == [m \in A |-> a + g[m]]
<1>1. P \subseteq A /\ A \subseteq M
  BY SentWithin
<1>2. IsFiniteSet(P) /\ IsFiniteSet(A) /\ IsFiniteSet(M)
  <2>1. IsFiniteSet(M)
    BY FS_Subset DEF Matching
  <2> HIDE DEF P, A, M
  <2> QED BY <1>1, <2>1, FS_Subset
<1>3. Cardinality(P) <= Cardinality(A) /\ Cardinality(A) <= Cardinality(M)
  <2> HIDE DEF P, A, M
  <2> QED BY <1>1, <1>2, FS_Subset
<1>4. a \in Nat /\ Len(fs) \in Nat /\ Len(after) = a + Len(fs) /\ \A i \in 1 .. Len(fs) : after[a + i] = fs[i]
  <2> DEFINE old == out[c]
  <2>1. old \in Seq(Frames) /\ fs \in Seq(Frames) /\ after = old \o fs /\ a = Len(old)
    BY DEF OutTypes, Progress
  <2> HIDE DEF old, fs, a
  <2>2. Len(old) \in Nat /\ Len(fs) \in Nat
    BY <2>1
  <2>3. Len(after) = Len(old) + Len(fs) /\ \A i \in 1 .. Len(fs) : after[Len(old) + i] = fs[i]
    BY <2>1
  <2> QED BY <2>1, <2>2, <2>3
<1>5. /\ g \in [D -> Nat]
      /\ \A m \in D : g[m] \in 1 .. Len(d.frames[At(m).conn]) /\ d.frames[At(m).conn][g[m]] = Frame(At(m), subject, msg)
      /\ \A m, n \in D : At(m).conn = At(n).conn /\ g[m] = g[n] => m = n
      /\ \A i \in 1 .. Len(fs) : \E m \in D : At(m).conn = c /\ g[m] = i
  BY DEF Sent, Tally
<1>6. \A i : i \in B <=> i \in a + 1 .. a + Len(fs) /\ after[i].sid = s /\ after[i].lvc = l
  BY <1>4
<1>7. \A m \in A : /\ m \in D /\ R(m) /\ g[m] \in Nat /\ g[m] \in 1 .. Len(fs) /\ fs[g[m]] = Frame(At(m), subject, msg)
  BY <1>5
<1>8. \A m : m \in A <=> m \in D /\ R(m)
  OBVIOUS
<1> HIDE DEF A, B, a, fs
<1>9. F \in [A -> B] /\ \A m \in A : F[m] = a + g[m]
  <2>1. ASSUME NEW m \in A PROVE a + g[m] \in B
    <3>1. g[m] \in 1 .. Len(fs) /\ after[a + g[m]] = fs[g[m]]
      BY <1>4, <1>7
    <3>2. a + g[m] \in a + 1 .. a + Len(fs)
      BY <1>4, <3>1
    <3>3. fs[g[m]] = Frame(At(m), subject, msg) /\ At(m).sid = s /\ At(m).lvc = l
      BY <1>7
    <3>4. fs[g[m]].sid = s /\ fs[g[m]].lvc = l
      BY <3>3, FrameOf
    <3> QED BY <1>6, <3>1, <3>2, <3>4
  <2> QED BY <2>1
<1> HIDE DEF F
<1>10. ASSUME NEW m \in A, NEW n \in A, F[m] = F[n] PROVE m = n
  <2>1. g[m] = g[n]
    BY <1>4, <1>7, <1>9, <1>10
  <2> QED BY <1>5, <1>7, <2>1
<1>11. ASSUME NEW i \in B PROVE \E m \in A : F[m] = i
  <2> DEFINE j == i - a
  <2>1. j \in 1 .. Len(fs) /\ i = a + j
    <3>1. i \in a + 1 .. a + Len(fs)
      BY <1>6
    <3>2. \A p, q \in Nat : \A x \in p + 1 .. p + q : x - p \in 1 .. q /\ x = p + (x - p)
      OBVIOUS
    <3> QED BY <1>4, <3>1, <3>2
  <2> HIDE DEF j
  <2>2. PICK m \in D : At(m).conn = c /\ g[m] = j
    BY <1>5, <2>1
  <2>3. after[i] = fs[j] /\ fs[j] = Frame(At(m), subject, msg)
    BY <1>4, <1>5, <2>1, <2>2 DEF fs
  <2>4. At(m).sid = s /\ At(m).lvc = l
    <3>1. after[i].sid = s /\ after[i].lvc = l
      BY <1>6
    <3>2. after[i] = Frame(At(m), subject, msg)
      BY <2>3
    <3> QED BY <3>1, <3>2, FrameOf
  <2>5. m \in A
    BY <1>8, <2>2, <2>4
  <2> QED BY <1>9, <2>1, <2>2, <2>5
<1>12. Cardinality(B) = Cardinality(A)
  BY <1>2, <1>9, <1>10, <1>11, SameSize
<1> HIDE DEF P, M
<1>13. Cardinality(P) \in Nat /\ Cardinality(A) \in Nat /\ Cardinality(M) \in Nat
  BY <1>2, FS_CardinalityType
<1>14. Cardinality(B) \in Cardinality(P) .. Cardinality(M)
  BY <1>3, <1>12, <1>13
<1> QED BY <1>14 DEF B, P, M, ConnCounts

\* When no connection is closed: one frame for every ordinary subscription that matches and one
\* for every group.
LEMMA TotalExact ==
  ASSUME LoopTypes, OutTypes, ItemsOK(lists, open), IsFiniteSet(Slots(lists, Conns)),
         NEW subject \in Subjects, NEW msg, NEW d \in Progress, NEW D, NEW X, NEW g, Sent(d, D, X, g, subject, msg),
         d.closed = {}, NEW after, \A c \in Conns : after[c] = out[c] \o d.frames[c]
  PROVE  TotalCounts(after, subject)
<1> DEFINE B == UNION {{<<c, i>> : i \in Len(out[c]) + 1 .. Len(after[c])} : c \in Conns}
           G == {<<At(m).lvc, At(m).filter, At(m).queue>> : m \in Matching(subject) \ Ordinary(subject)}
           F == [m \in D |-> <<At(m).conn, Len(out[At(m).conn]) + g[m]>>]
           O == Ordinary(subject)
           M == Matching(subject)
           V == {ListsFor(subject)[n] : n \in 1 .. 3}
           S == Slots(lists, Conns)
<1>1. D = O \cup X /\ O \cap X = {} /\ X \subseteq M /\ D \subseteq M
  BY SentWithin DEF Ordinary
<1>2. M \subseteq S
  BY DEF Matching
<1>3. IsFiniteSet(D) /\ IsFiniteSet(O) /\ IsFiniteSet(X)
  <2> HIDE DEF O, M
  <2> QED BY <1>1, <1>2, FS_Subset
<1>4. Cardinality(D) = Cardinality(O) + Cardinality(X)
  <2> HIDE DEF O
  <2>1. Cardinality(O \cup X) = Cardinality(O) + Cardinality(X) - Cardinality(O \cap X)
    BY <1>3, FS_Union
  <2>2. Cardinality(O \cap X) = 0 /\ Cardinality(O) \in Nat /\ Cardinality(X) \in Nat
    BY <1>1, <1>3, FS_EmptySet, FS_CardinalityType
  <2> QED BY <1>1, <2>1, <2>2
<1>5. \A c \in Conns : /\ Len(out[c]) \in Nat /\ Len(d.frames[c]) \in Nat
                       /\ Len(after[c]) = Len(out[c]) + Len(d.frames[c])
  <2>1. SUFFICES ASSUME NEW c \in Conns
                 PROVE  /\ Len(out[c]) \in Nat /\ Len(d.frames[c]) \in Nat
                        /\ Len(after[c]) = Len(out[c]) + Len(d.frames[c])
    OBVIOUS
  <2> DEFINE old == out[c]
             fs == d.frames[c]
             new == after[c]
  <2>2. old \in Seq(Frames) /\ fs \in Seq(Frames) /\ new = old \o fs
    BY DEF OutTypes, Progress
  <2> HIDE DEF old, fs, new
  <2>3. Len(old) \in Nat /\ Len(fs) \in Nat /\ Len(new) = Len(old) + Len(fs)
    BY <2>2
  <2> QED BY <2>3 DEF old, fs, new
<1>6. /\ g \in [D -> Nat]
      /\ \A m \in D : g[m] \in 1 .. Len(d.frames[At(m).conn])
      /\ \A m, n \in D : At(m).conn = At(n).conn /\ g[m] = g[n] => m = n
      /\ \A c \in Conns : \A i \in 1 .. Len(d.frames[c]) : \E m \in D : At(m).conn = c /\ g[m] = i
  BY DEF Sent, Tally
<1>7. \A m \in D : At(m).conn \in Conns
  BY <1>1, <1>2 DEF Slots, At
<1>8. \A b : b \in B <=> \E c \in Conns : \E i \in Len(out[c]) + 1 .. Len(out[c]) + Len(d.frames[c]) : b = <<c, i>>
  <2> DEFINE W(c) == Len(out[c]) + 1 .. Len(after[c])
  <2>1. \A c \in Conns : W(c) = Len(out[c]) + 1 .. Len(out[c]) + Len(d.frames[c])
    BY <1>5
  <2>2. B = UNION {{<<c, i>> : i \in W(c)} : c \in Conns}
    OBVIOUS
  <2> HIDE DEF W, B
  <2>3. \A b : b \in B <=> \E c \in Conns : \E i \in W(c) : b = <<c, i>>
    BY <2>2
  <2> QED BY <2>1, <2>3
<1> HIDE DEF B, G, O, M, V, S
<1>9. F \in [D -> B] /\ \A m \in D : F[m] = <<At(m).conn, Len(out[At(m).conn]) + g[m]>>
  <2>1. ASSUME NEW m \in D PROVE <<At(m).conn, Len(out[At(m).conn]) + g[m]>> \in B
    <3> DEFINE c == At(m).conn
               a == Len(out[c])
               n == Len(d.frames[c])
    <3>1. c \in Conns /\ a \in Nat /\ n \in Nat /\ g[m] \in 1 .. n
      BY <1>5, <1>6, <1>7
    <3> HIDE DEF c, a, n
    <3>2. a + g[m] \in a + 1 .. a + n
      BY <3>1
    <3>3. <<c, a + g[m]>> \in B
      BY <1>8, <3>1, <3>2 DEF a, n
    <3> QED BY <3>3 DEF c, a
  <2> QED BY <2>1
<1> HIDE DEF F
<1>10. ASSUME NEW m \in D, NEW n \in D, F[m] = F[n] PROVE m = n
  <2>1. At(m).conn = At(n).conn /\ Len(out[At(m).conn]) + g[m] = Len(out[At(m).conn]) + g[n]
    BY <1>9, <1>10
  <2>2. Len(out[At(m).conn]) \in Nat /\ g[m] \in Nat /\ g[n] \in Nat
    BY <1>5, <1>6, <1>7
  <2>3. g[m] = g[n]
    BY <2>1, <2>2
  <2> QED BY <1>6, <2>1, <2>3
<1>11. ASSUME NEW b \in B PROVE \E m \in D : F[m] = b
  <2>1. PICK c \in Conns : \E i \in Len(out[c]) + 1 .. Len(out[c]) + Len(d.frames[c]) : b = <<c, i>>
    BY <1>8
  <2>2. PICK i \in Len(out[c]) + 1 .. Len(out[c]) + Len(d.frames[c]) : b = <<c, i>>
    BY <2>1
  <2> DEFINE j == i - Len(out[c])
  <2>3. j \in 1 .. Len(d.frames[c]) /\ i = Len(out[c]) + j
    <3>1. \A p, q \in Nat : \A x \in p + 1 .. p + q : x - p \in 1 .. q /\ x = p + (x - p)
      OBVIOUS
    <3> QED BY <1>5, <2>2, <3>1
  <2> HIDE DEF j
  <2>4. PICK m \in D : At(m).conn = c /\ g[m] = j
    BY <1>6, <2>3
  <2> QED BY <1>9, <2>2, <2>3, <2>4
<1>12. Cardinality(B) = Cardinality(D)
  BY <1>3, <1>9, <1>10, <1>11, SameSize
<1>13. Cardinality(G) = Cardinality(X)
  <2> DEFINE H == [x \in X |-> GroupOf(At(x))]
  <2>1. /\ \A m \in X : At(m).queue # NoQueue
        /\ \A m, n \in X : m[1] = n[1] /\ GroupOf(At(m)) = GroupOf(At(n)) => m = n
        /\ \A m \in S : m[1] \in V /\ At(m).queue # NoQueue /\ Due(At(m), subject) =>
              \E x \in X : x[1] = m[1] /\ GroupOf(At(x)) = GroupOf(At(m))
    BY DEF Sent, Chosen, S, V
  <2>2. G = {GroupOf(At(m)) : m \in M \ O}
    BY DEF G, GroupOf, M, O
  <2>3. \A m \in S : ListOf(At(m).filter) = m[1]
    BY DEF S, Slots, ItemsOK, At, LoopTypes, AllLists
  <2>4. H \in [X -> G]
    BY <1>1, <2>2
  <2>5. ASSUME NEW m \in X, NEW n \in X, H[m] = H[n] PROVE m = n
    <3>1. GroupOf(At(m)) = GroupOf(At(n))
      BY <2>5
    <3>2. At(m).filter = At(n).filter
      BY <3>1 DEF GroupOf
    <3>3. m[1] = n[1]
      BY <1>1, <1>2, <2>3, <3>2
    <3> QED BY <2>1, <3>1, <3>3
  <2>6. ASSUME NEW z \in G PROVE \E x \in X : H[x] = z
    <3>1. PICK m \in M \ O : z = GroupOf(At(m))
      BY <2>2
    <3>2. m \in S /\ At(m).queue # NoQueue
      BY <1>2, <3>1 DEF O, M, Ordinary
    <3>3. m[1] \in V /\ Due(At(m), subject)
      BY <3>1, <3>2, DueMatches DEF S, M, V
    <3> QED BY <2>1, <3>1, <3>2, <3>3
  <2> HIDE DEF H
  <2>7. (\A m, n \in X : H[m] = H[n] => m = n) /\ \A z \in G : \E x \in X : H[x] = z
    BY <2>5, <2>6
  <2>8. H \in Bijection(X, G)
    BY <2>4, <2>7 DEF Bijection, Injection, IsInjective, Surjection
  <2>9. ExistsBijection(X, G)
    BY <2>8 DEF ExistsBijection
  <2> QED BY <1>3, <2>9, FS_Bijection
<1> QED BY <1>4, <1>12, <1>13 DEF B, G, O, M, TotalCounts

\* A publish that reports success.
LEMMA PublishExact ==
  ASSUME Safe, NEW subject \in Subjects, NEW size, NEW pick, NEW budget \in Budgets,
         Publish(subject, size, pick, budget), last'.ok
  PROVE  DeliversExactly
<1> DEFINE d == Deliver(subject, published', pick, budget)
           V == {ListsFor(subject)[n] : n \in 1 .. 3}
           msg == published'
<1>1. RegistryTypes /\ CacheTypes /\ OutTypes /\ Registry
  BY TypeParts DEF Safe
<1>2. msg \in Nat \ {0}
  BY <1>1, BoundsAssumption DEF CacheTypes, Publish
<1>3. LoopTypes /\ budget \in Nat /\ ItemsOK(lists, open) /\ IsFiniteSet(Slots(lists, Conns))
  BY <1>1, BudgetsAssumption DEF LoopTypes, RegistryTypes, OutTypes, Registry
<1>4. d \in Reached(V, subject, msg)
  <2> HIDE DEF V
  <2> QED BY <1>1, <1>2, <1>3, DeliverTold DEF OutTypes, V
<1>5. /\ last'.subject = subject /\ last'.ok = d.ok /\ open' = open \ d.closed
      /\ out' = [c \in Conns |-> IF c \in d.closed THEN <<>> ELSE out[c] \o d.frames[c]]
  BY DEF Publish
<1> HIDE DEF d, V, msg
<1>6. PICK D, X, g : Tally(d.frames, D, g, subject, msg) /\ Chosen(d, V, D, X, subject)
  BY <1>4 DEF Reached
<1>7. d \in Progress /\ d.closed \subseteq open /\ open \subseteq Conns
  BY <1>3, <1>4 DEF Reached, Delivering, LoopTypes
<1>8. Sent(d, D, X, g, subject, msg)
  BY <1>5, <1>6, <1>7 DEF Sent, V
<1>9. UNION {{<<k, i>> : i \in DOMAIN lists[k]} : k \in Keys} = Slots(lists, Conns)
  <2>1. \A k \in Keys : DOMAIN lists[k] = 1 .. Len(lists[k]) /\ Len(lists[k]) \in Nat
    BY <1>3 DEF LoopTypes, AllLists
  <2>2. \A k \in Keys : \A i \in DOMAIN lists[k] : lists[k][i].conn \in Conns
    BY <1>3, <2>1, ItemIsSub DEF LoopTypes
  <2> QED BY <2>1, <2>2 DEF Slots
<1> DEFINE at(m) == lists[m[1]][m[2]]
           match == {m \in UNION {{<<k, i>> : i \in DOMAIN lists[k]} : k \in Keys} :
                        /\ SubjectMatches(at(m).filter, last'.subject)
                        /\ at(m).lvc => LvcEnabled(last'.subject)}
           plain == {m \in match : at(m).queue = NoQueue}
           groups == {<<at(m).lvc, at(m).filter, at(m).queue>> : m \in match \ plain}
           of(S, c, s, l) == Cardinality({m \in S : at(m).conn = c /\ at(m).sid = s /\ at(m).lvc = l})
           new(c) == Len(out[c]) + 1 .. Len(out'[c])
           got(c, s, l) == Cardinality({i \in new(c) : out'[c][i].sid = s /\ out'[c][i].lvc = l})
           total == Cardinality(UNION {{<<c, i>> : i \in new(c)} : c \in Conns})
<1>10. match = Matching(subject)
  BY <1>5, <1>9 DEF Matching, At
<1>11. plain = Ordinary(subject)
  <2> HIDE DEF match
  <2> QED BY <1>10 DEF Ordinary, At
<1>12. groups = {<<At(m).lvc, At(m).filter, At(m).queue>> : m \in Matching(subject) \ Ordinary(subject)}
  <2> HIDE DEF match, plain
  <2> QED BY <1>10, <1>11 DEF At
<1>13. ASSUME NEW c \in open', NEW s \in Sids, NEW l \in Kinds
       PROVE  got(c, s, l) \in of(plain, c, s, l) .. of(match, c, s, l)
  <2>1. c \in Conns \ d.closed /\ out'[c] = out[c] \o d.frames[c]
    BY <1>5, <1>7
  <2> DEFINE after == out'[c]
  <2>2. after = out[c] \o d.frames[c]
    BY <2>1
  <2> HIDE DEF after
  <2>3. ConnCounts(after, c, s, l, subject)
    BY <1>1, <1>3, <1>7, <1>8, <2>1, <2>2, ConnExact
  <2>4. of(plain, c, s, l) = Cardinality({m \in Ordinary(subject) : At(m).conn = c /\ At(m).sid = s /\ At(m).lvc = l})
    <3> HIDE DEF plain
    <3> QED BY <1>11 DEF At
  <2>5. of(match, c, s, l) = Cardinality({m \in Matching(subject) : At(m).conn = c /\ At(m).sid = s /\ At(m).lvc = l})
    <3> HIDE DEF match
    <3> QED BY <1>10 DEF At
  <2>6. got(c, s, l) = Cardinality({i \in Len(out[c]) + 1 .. Len(after) : after[i].sid = s /\ after[i].lvc = l})
    BY DEF after
  <2> HIDE DEF of, got, match, plain
  <2> QED BY <2>3, <2>4, <2>5, <2>6 DEF ConnCounts
<1>14. ASSUME open' = open PROVE total = Cardinality(plain) + Cardinality(groups)
  <2>1. d.closed = {}
    BY <1>5, <1>7, <1>14
  <2> DEFINE after == out'
  <2>2. \A c \in Conns : after[c] = out[c] \o d.frames[c]
    BY <1>5, <2>1
  <2> HIDE DEF after
  <2>3. TotalCounts(after, subject)
    BY <1>1, <1>3, <1>7, <1>8, <2>1, <2>2, TotalExact
  <2>4. total = Cardinality(UNION {{<<c, i>> : i \in Len(out[c]) + 1 .. Len(after[c])} : c \in Conns})
    BY DEF after
  <2> HIDE DEF total, match, plain, groups
  <2> QED BY <1>11, <1>12, <2>3, <2>4 DEF TotalCounts
<1> HIDE DEF of, got, total, match, plain, groups
<1>15. /\ \A c \in open', s \in Sids, l \in Kinds : got(c, s, l) \in of(plain, c, s, l) .. of(match, c, s, l)
       /\ open' = open => total = Cardinality(plain) + Cardinality(groups)
  BY <1>13, <1>14
<1> QED BY <1>15 DEF DeliversExactly, of, got, total, match, plain, groups

\* Router!ExactDelivery, for any number of connections, subscriptions and lists, any limit on
\* pending output, any random choice among the members of a queue group, and any write that
\* fails: a publish that reports success (mb_router_publish_with_reply_and_options) has written
\* one frame per ordinary matching subscription of the connections it leaves open, and, if it
\* closed none, one per matching queue group, and no other.
THEOREM DeliveryIsExact == Spec => ExactDelivery
<1>1. ASSUME Safe, Next PROVE DeliversExactly
  <2>1. CASE PublishSome
    <3>1. PICK x \in Subjects, n \in Sizes, b \in Budgets, p \in Picks : Publish(x, n, p, b)
      BY <2>1 DEF PublishSome
    <3>2. last'.ok => DeliversExactly
      BY <1>1, <3>1, PublishExact
    <3> QED BY <3>2 DEF DeliversExactly
  <2>2. CASE RefuseSome
    <3>1. ~last'.ok
      BY <2>2 DEF RefuseSome, PublishRefused
    <3> QED BY <3>1 DEF DeliversExactly
  <2>3. CASE AcceptSome \/ SubscribeSome \/ UnsubscribeSome \/ DrainSome \/ CloseSome
    <3>1. AcceptSome => published' = published
      BY DEF AcceptSome, Accept
    <3>2. SubscribeSome => published' = published
      BY DEF SubscribeSome, Subscribe
    <3>3. UnsubscribeSome => published' = published
      BY DEF UnsubscribeSome, Unsubscribe
    <3>4. DrainSome => published' = published
      BY DEF DrainSome, Drain
    <3>5. CloseSome => published' = published
      BY DEF CloseSome, BeginClose
    <3>6. published' = published
      BY <2>3, <3>1, <3>2, <3>3, <3>4, <3>5
    <3> QED BY <3>6 DEF DeliversExactly
  <2> QED BY <1>1, <2>1, <2>2, <2>3 DEF Next
<1>2. Safe /\ [Next]_vars => [DeliversExactly]_vars
  BY <1>1
<1> QED BY <1>2, SafeInit, SafeNext, PTL DEF Spec, ExactDelivery

-----------------------------------------------------------------------------
(* The index.                                                              *)

\* The slot j steps after the one of hash h, of size slots.
Pos(size, h, j) == LET at == (h % size) + j IN IF at < size THEN at ELSE at - size

\* s is an index of size slots for items with these hashes: an entry names an item and its
\* hash, no two the same, and every item is on its probe sequence before a free slot.
Valid(s, size, hs) ==
    /\ s \in [0 .. size - 1 -> [hash : Nat, index : 0 .. Len(hs)]]
    /\ \A p \in 0 .. size - 1 : s[p].index # 0 => s[p].hash = hs[s[p].index]
    /\ \A p, q \in 0 .. size - 1 : s[p].index = s[q].index /\ s[p].index # 0 => p = q
    /\ \A i \in 1 .. Len(hs) : \E j \in 0 .. size - 1 :
          /\ s[Pos(size, hs[i], j)].index = i
          /\ \A m \in 0 .. j - 1 : s[Pos(size, hs[i], m)].index # 0

\* The number of slots, and so the slots of a probe sequence.
LEMMA CapIs ==
  ASSUME NEW size \in Nat, NEW X, NEW s \in [0 .. size - 1 -> X]
  PROVE  Cap(s) = size
<1>1. DOMAIN s = 0 .. size - 1 /\ 0 \in Int /\ size - 1 \in Int
  OBVIOUS
<1>2. Cardinality(0 .. size - 1) = IF 0 > size - 1 THEN 0 ELSE (size - 1) - 0 + 1
  BY <1>1, FS_Interval
<1> QED BY <1>1, <1>2 DEF Cap

\* The same, of an index.
LEMMA SlotIs ==
  ASSUME NEW s, NEW size, Cap(s) = size, NEW h, NEW j
  PROVE  Slot(s, h, j) = Pos(size, h, j) /\ Probe(s, h, j) = s[Pos(size, h, j)]
BY DEF Slot, Probe, Pos

\* A probe sequence passes every slot once.
LEMMA PosProps ==
  ASSUME NEW size \in Nat \ {0}, NEW h \in Nat
  PROVE  /\ \A j \in 0 .. size - 1 : Pos(size, h, j) \in 0 .. size - 1
         /\ \A j, m \in 0 .. size - 1 : Pos(size, h, j) = Pos(size, h, m) => j = m
         /\ \A p \in 0 .. size - 1 : \E j \in 0 .. size - 1 : Pos(size, h, j) = p
<1> DEFINE r == h % size
<1>1. r \in 0 .. size - 1
  OBVIOUS
<1>2. \A j : Pos(size, h, j) = IF r + j < size THEN r + j ELSE (r + j) - size
  BY DEF Pos
<1> HIDE DEF r
<1>3. \A j \in 0 .. size - 1 : Pos(size, h, j) \in 0 .. size - 1
  BY <1>1, <1>2
<1>4. \A j, m \in 0 .. size - 1 : Pos(size, h, j) = Pos(size, h, m) => j = m
  BY <1>1, <1>2
<1>5. ASSUME NEW p \in 0 .. size - 1 PROVE \E j \in 0 .. size - 1 : Pos(size, h, j) = p
  <2>1. CASE p >= r
    <3>1. p - r \in 0 .. size - 1 /\ Pos(size, h, p - r) = p
      BY <1>1, <1>2, <2>1
    <3> QED BY <3>1
  <2>2. CASE p < r
    <3>1. (p - r) + size \in 0 .. size - 1 /\ Pos(size, h, (p - r) + size) = p
      BY <1>1, <1>2, <2>2
    <3> QED BY <3>1
  <2> QED BY <1>1, <2>1, <2>2
<1> QED BY <1>3, <1>4, <1>5

\* An index with fewer items than slots has a free slot.
LEMMA HasFree ==
  ASSUME NEW size \in Nat, NEW hs, Len(hs) \in Nat, NEW s, Valid(s, size, hs), Len(hs) < size
  PROVE  \E p \in 0 .. size - 1 : s[p].index = 0
<1>1. SUFFICES ASSUME \A p \in 0 .. size - 1 : s[p].index # 0 PROVE FALSE
  OBVIOUS
<1> DEFINE N == Len(hs)
           A == 0 .. size - 1
           B == 1 .. N
           f == [p \in A |-> s[p].index]
<1>2. N \in Nat /\ N < size
  OBVIOUS
<1>3. \A p \in A : s[p].index \in 0 .. N
  BY DEF Valid
<1>4. f \in Injection(A, B)
  <2>1. f \in [A -> B]
    <3>1. \A p \in A : s[p].index \in B
      BY <1>1, <1>2, <1>3
    <3> QED BY <3>1
  <2>2. \A p, q \in A : f[p] = f[q] => p = q
    BY <1>1 DEF Valid
  <2> QED BY <2>1, <2>2 DEF Injection, IsInjective
<1>5. IsFiniteSet(B) /\ Cardinality(B) = N
  <2>1. 1 \in Int /\ N \in Int
    BY <1>2
  <2>2. IsFiniteSet(B) /\ Cardinality(B) = IF 1 > N THEN 0 ELSE N - 1 + 1
    BY <2>1, FS_Interval
  <2> HIDE DEF B, N
  <2> QED BY <1>2, <2>2
<1>6. Cardinality(A) = size
  <2>1. 0 \in Int /\ size - 1 \in Int
    OBVIOUS
  <2>2. Cardinality(A) = IF 0 > size - 1 THEN 0 ELSE (size - 1) - 0 + 1
    BY <2>1, FS_Interval
  <2> QED BY <2>2
<1> HIDE DEF A, B, f, N
<1>7. Cardinality(A) <= Cardinality(B)
  BY <1>4, <1>5, FS_Injection
<1> QED BY <1>2, <1>5, <1>6, <1>7

\* No items, no entries.
LEMMA EmptyIndex ==
  ASSUME NEW size \in Nat
  PROVE  Valid([j \in 0 .. size - 1 |-> Unoccupied], size, <<>>)
<1> DEFINE s == [j \in 0 .. size - 1 |-> Unoccupied]
<1>1. Len(<<>>) = 0
  OBVIOUS
<1>2. s \in [0 .. size - 1 -> [hash : Nat, index : 0 .. 0]] /\ \A p \in 0 .. size - 1 : s[p].index = 0
  BY DEF Unoccupied
<1> HIDE DEF s
<1>3. Valid(s, size, <<>>)
  BY <1>1, <1>2 DEF Valid
<1> QED BY <1>3 DEF s

\* index_insert ends, and adds an item.
LEMMA InsertValid ==
  ASSUME NEW size \in Nat, NEW hs \in Seq(Nat), NEW s, Valid(s, size, hs), Len(hs) < size, NEW h \in Nat
  PROVE  Valid(IndexInsert(s, h, Len(hs) + 1), size, Append(hs, h))
<1> DEFINE N == Len(hs)
           free == {j \in 0 .. size - 1 : s[Pos(size, h, j)].index = 0}
           at == Pos(size, h, Min(free))
           t == [s EXCEPT ![at] = [hash |-> h, index |-> N + 1]]
           gs == Append(hs, h)
<1>1. N \in Nat /\ size \in Nat \ {0}
  OBVIOUS
<1>2. s \in [0 .. size - 1 -> [hash : Nat, index : 0 .. N]]
  BY DEF Valid
<1>3. Cap(s) = size
  BY <1>2, CapIs
<1>4. IndexInsert(s, h, N + 1) = IF free = {} THEN s ELSE t
  <2>1. \A j : Slot(s, h, j) = Pos(size, h, j) /\ Probe(s, h, j) = s[Pos(size, h, j)]
    BY <1>3, SlotIs
  <2>2. {j \in 0 .. Cap(s) - 1 : Probe(s, h, j).index = 0} = free
    BY <1>3, <2>1
  <2>3. Slot(s, h, Min(free)) = at
    BY <2>1
  <2> HIDE DEF free, at
  <2> QED BY <2>2, <2>3, Zenon DEF IndexInsert
<1>5. free # {}
  <2>1. PICK p \in 0 .. size - 1 : s[p].index = 0
    BY <1>1, HasFree
  <2>2. PICK j \in 0 .. size - 1 : Pos(size, h, j) = p
    BY <1>1, PosProps
  <2> QED BY <2>1, <2>2
<1> DEFINE first == Min(free)
<1>6. first \in free /\ \A x \in free : first <= x
  <2>1. free \subseteq Nat
    OBVIOUS
  <2> HIDE DEF free
  <2> QED BY <1>5, <2>1, MinIs
<1> HIDE DEF first
<1>7. /\ first \in 0 .. size - 1 /\ s[at].index = 0 /\ at = Pos(size, h, first) /\ at \in 0 .. size - 1
      /\ \A m \in 0 .. first - 1 : s[Pos(size, h, m)].index # 0
  <2>1. first \in 0 .. size - 1 /\ s[Pos(size, h, first)].index = 0
    BY <1>6
  <2>2. at = Pos(size, h, first)
    BY DEF first
  <2>3. at \in 0 .. size - 1
    BY <1>1, <2>1, <2>2, PosProps
  <2>4. ASSUME NEW m \in 0 .. first - 1 PROVE s[Pos(size, h, m)].index # 0
    <3>1. m \in 0 .. size - 1 /\ ~(first <= m)
      BY <1>1, <2>1
    <3> QED BY <1>6, <3>1
  <2> QED BY <2>1, <2>2, <2>3, <2>4
<1> HIDE DEF free
<1>8. /\ gs \in Seq(Nat) /\ Len(gs) = N + 1 /\ gs[N + 1] = h /\ \A i \in 1 .. N : gs[i] = hs[i]
  OBVIOUS
<1> HIDE DEF at, gs, N
<1>9. /\ t[at] = [hash |-> h, index |-> N + 1] /\ t[at].hash = h /\ t[at].index = N + 1
      /\ \A p \in 0 .. size - 1 : p # at => t[p] = s[p]
      /\ \A p \in 0 .. size - 1 : s[p].hash \in Nat /\ s[p].index \in 0 .. N
      /\ DOMAIN t = 0 .. size - 1 /\ t = [p \in 0 .. size - 1 |-> t[p]]
  BY <1>2, <1>7
<1>10. t \in [0 .. size - 1 -> [hash : Nat, index : 0 .. N + 1]]
  <2>1. [hash |-> h, index |-> N + 1] \in [hash : Nat, index : 0 .. N + 1]
    BY <1>1
  <2>2. \A p \in 0 .. size - 1 : s[p] \in [hash : Nat, index : 0 .. N + 1]
    <3>1. \A e \in [hash : Nat, index : 0 .. N] : e \in [hash : Nat, index : 0 .. N + 1]
      BY <1>1
    <3> QED BY <1>2, <3>1
  <2> QED BY <1>2, <2>1, <2>2
<1> HIDE DEF t
<1>11. ASSUME NEW p \in 0 .. size - 1, t[p].index # 0 PROVE t[p].hash = gs[t[p].index]
  <2>1. CASE p = at
    BY <1>8, <1>9, <2>1
  <2>2. CASE p # at
    <3>1. t[p] = s[p] /\ s[p].index \in 1 .. N
      BY <1>1, <1>9, <1>11, <2>2
    <3>2. s[p].hash = hs[s[p].index]
      BY <1>11, <3>1 DEF Valid
    <3> QED BY <1>8, <3>1, <3>2
  <2> QED BY <2>1, <2>2
<1>12. ASSUME NEW p \in 0 .. size - 1, NEW q \in 0 .. size - 1, t[p].index = t[q].index, t[p].index # 0 PROVE p = q
  <2>1. \A o \in 0 .. size - 1 : o # at => t[o].index # N + 1
    BY <1>1, <1>9
  <2>2. CASE p = at \/ q = at
    BY <1>9, <1>12, <2>1, <2>2
  <2>3. CASE p # at /\ q # at
    <3>1. s[p].index = s[q].index /\ s[p].index # 0
      BY <1>9, <1>12, <2>3
    <3> QED BY <3>1 DEF Valid
  <2> QED BY <2>2, <2>3
<1>13. \A p \in 0 .. size - 1 : s[p].index # 0 => t[p].index = s[p].index
  BY <1>7, <1>9
<1>14. ASSUME NEW i \in 1 .. N + 1
       PROVE  \E j \in 0 .. size - 1 : /\ t[Pos(size, gs[i], j)].index = i
                                      /\ \A m \in 0 .. j - 1 : t[Pos(size, gs[i], m)].index # 0
  <2>1. CASE i = N + 1
    <3>1. \A m \in 0 .. first - 1 : Pos(size, h, m) \in 0 .. size - 1
      <4>1. \A m \in 0 .. first - 1 : m \in 0 .. size - 1
        BY <1>1, <1>7
      <4> QED BY <1>1, <4>1, PosProps
    <3>2. \A m \in 0 .. first - 1 : t[Pos(size, h, m)].index # 0
      BY <1>7, <1>13, <3>1
    <3>3. t[Pos(size, h, first)].index = i
      BY <1>7, <1>9, <2>1
    <3>4. gs[i] = h
      BY <1>8, <2>1
    <3> QED BY <1>7, <3>2, <3>3, <3>4
  <2>2. CASE i # N + 1
    <3>1. i \in 1 .. N
      BY <1>1, <2>2
    <3> DEFINE g == hs[i]
    <3>2. gs[i] = g /\ g \in Nat
      BY <1>8, <3>1, ElementOfSeq DEF N
    <3>3. PICK j \in 0 .. size - 1 : s[Pos(size, g, j)].index = i /\ \A m \in 0 .. j - 1 : s[Pos(size, g, m)].index # 0
      BY <3>1 DEF Valid, N
    <3> HIDE DEF g
    <3>4. Pos(size, g, j) \in 0 .. size - 1 /\ \A m \in 0 .. j - 1 : Pos(size, g, m) \in 0 .. size - 1
      <4>1. \A m \in 0 .. j - 1 : m \in 0 .. size - 1
        BY <1>1
      <4> QED BY <1>1, <3>2, <4>1, PosProps
    <3>5. i # 0
      BY <3>1
    <3> QED BY <1>13, <3>2, <3>3, <3>4, <3>5
  <2> QED BY <2>1, <2>2
<1>15. Valid(t, size, gs)
  BY <1>8, <1>10, <1>11, <1>12, <1>14 DEF Valid
<1> QED BY <1>4, <1>5, <1>15 DEF gs, N

\* The items with a key: at most one, and with its hash.
Sought(hs, h, same) ==
    same \subseteq 1 .. Len(hs) /\ (\A i, j \in same : i = j) /\ (\A i \in same : hs[i] = h)

\* A lookup ends, and finds the item of its key.
LEMMA FindExact ==
  ASSUME NEW size \in Nat \ {0}, NEW hs \in Seq(Nat), NEW s, Valid(s, size, hs), Len(hs) < size, NEW h \in Nat,
         NEW same, Sought(hs, h, same)
  PROVE  /\ IndexFind(s, h, same) \in 0 .. Len(hs)
         /\ same = IF IndexFind(s, h, same) = 0 THEN {} ELSE {IndexFind(s, h, same)}
<1> DEFINE N == Len(hs)
           e(j) == s[Pos(size, h, j)]
           stops == {j \in 0 .. size - 1 : e(j).index = 0 \/ (e(j).hash = h /\ e(j).index \in same)}
           stop == Min(stops)
           found == e(stop).index
<1>0. same \subseteq 1 .. N /\ (\A i, j \in same : i = j) /\ (\A i \in same : hs[i] = h)
  BY DEF Sought
<1>1. N \in Nat
  OBVIOUS
<1>2. s \in [0 .. size - 1 -> [hash : Nat, index : 0 .. N]]
  BY DEF Valid
<1>3. Cap(s) = size /\ s # <<>>
  <2>1. Cap(s) = size
    BY <1>2, CapIs
  <2>2. DOMAIN s = 0 .. size - 1 /\ 0 \in 0 .. size - 1 /\ DOMAIN <<>> = {}
    BY <1>2
  <2> QED BY <2>1, <2>2
<1>4. IndexFind(s, h, same) = IF stops = {} THEN -1 ELSE found
  <2>1. \A j : Probe(s, h, j) = e(j)
    BY <1>3, SlotIs
  <2> DEFINE raw == {j \in 0 .. Cap(s) - 1 : \/ Probe(s, h, j).index = 0
                                             \/ Probe(s, h, j).hash = h /\ Probe(s, h, j).index \in same}
  <2>2. raw = stops
    BY <1>3, <2>1
  <2>3. Probe(s, h, stop).index = found
    BY <2>1
  <2>4. IndexFind(s, h, same)
          = IF s = <<>> THEN 0 ELSE IF raw = {} THEN -1 ELSE Probe(s, h, Min(raw)).index
    BY Zenon DEF IndexFind
  <2> HIDE DEF stops, found, raw
  <2> QED BY <1>3, <2>2, <2>3, <2>4 DEF stop
<1>5. \A j \in 0 .. size - 1 : Pos(size, h, j) \in 0 .. size - 1 /\ e(j).index \in 0 .. N
  <2>1. \A j \in 0 .. size - 1 : Pos(size, h, j) \in 0 .. size - 1
    BY PosProps
  <2> QED BY <1>2, <2>1
<1>6. stops # {}
  <2>1. PICK p \in 0 .. size - 1 : s[p].index = 0
    BY <1>1, HasFree
  <2>2. PICK j \in 0 .. size - 1 : Pos(size, h, j) = p
    BY PosProps
  <2>3. e(j).index = 0
    BY <2>1, <2>2
  <2>4. j \in stops
    BY <2>3, Zenon
  <2> QED BY <2>4
<1>7. stop \in stops /\ \A j \in stops : stop <= j
  <2>1. stops \subseteq Nat
    OBVIOUS
  <2> HIDE DEF stops
  <2> QED BY <1>6, <2>1, MinIs
<1> HIDE DEF stop
<1>8. stop \in 0 .. size - 1 /\ found \in 0 .. N /\ (found = 0 \/ found \in same)
  BY <1>5, <1>7
<1>9. ASSUME NEW i \in same PROVE found = i
  <2>1. i \in 1 .. N /\ hs[i] = h
    BY <1>0
  <2>2. PICK j \in 0 .. size - 1 : e(j).index = i /\ \A m \in 0 .. j - 1 : e(m).index # 0
    <3>1. \E j \in 0 .. size - 1 : /\ s[Pos(size, hs[i], j)].index = i
                                  /\ \A m \in 0 .. j - 1 : s[Pos(size, hs[i], m)].index # 0
      BY <2>1 DEF Valid
    <3> QED BY <2>1, <3>1
  <2>3. e(j).hash = h
    <3>1. i # 0
      BY <2>1
    <3>2. e(j).hash = hs[e(j).index]
      BY <1>5, <2>2, <3>1 DEF Valid
    <3> QED BY <2>1, <2>2, <3>2
  <2>4. j \in stops
    BY <2>2, <2>3
  <2>5. stop <= j
    BY <1>7, <2>4
  <2>6. CASE stop = j
    BY <2>2, <2>6
  <2>7. CASE stop # j
    <3>1. stop \in 0 .. j - 1
      BY <1>8, <2>5, <2>7
    <3>2. found # 0
      BY <2>2, <3>1
    <3> QED BY <1>0, <1>8, <3>2
  <2> QED BY <2>6, <2>7
<1>10. same = IF found = 0 THEN {} ELSE {found}
  <2>1. CASE found = 0
    <3>1. \A i \in same : i # 0
      BY <1>0, <1>1
    <3>2. same = {}
      BY <1>9, <2>1, <3>1
    <3> QED BY <2>1, <3>2
  <2>2. CASE found # 0
    <3>1. found \in same
      BY <1>8, <2>2
    <3>2. same = {found}
      BY <1>9, <3>1
    <3> QED BY <2>2, <3>2
  <2> QED BY <2>1, <2>2
<1> HIDE DEF found, stops
<1> QED BY <1>4, <1>6, <1>8, <1>10

\* The indexes of size slots for items with these hashes.
ValidFor(size, hs) == {s \in [0 .. size - 1 -> [hash : Nat, index : 0 .. Len(hs)]] : Valid(s, size, hs)}

\* The loops that rebuild an index make one.
LEMMA NewIndexValid ==
  ASSUME NEW size \in Nat, NEW hs \in Seq(Nat), Len(hs) <= size
  PROVE  Valid(NewIndex(hs, size), size, hs)
<1> DEFINE N == Len(hs)
           s0 == [j \in 0 .. size - 1 |-> Unoccupied]
           part(n) == SubSeq(hs, 1, n)
           T == [n \in 0 .. N |-> ValidFor(size, part(n))]
           U == UNION {T[n] : n \in 0 .. N}
           F == [p \in (1 .. N) \X U |-> IndexInsert(p[2], hs[p[1]], p[1])]
<1>1. N \in Nat
  OBVIOUS
<1>2. ASSUME NEW n \in 0 .. N, NEW s
      PROVE  s \in T[n] <=> Valid(s, size, part(n))
  BY DEF ValidFor, Valid
<1>3. ASSUME NEW n \in 1 .. N, NEW s \in T[n - 1]
      PROVE  /\ IndexInsert(s, hs[n], n) \in T[n] /\ F[<<n, s>>] = IndexInsert(s, hs[n], n)
             /\ s \in U
  <2>1. n - 1 \in 0 .. N /\ n \in 0 .. N
    BY <1>1
  <2>2. Valid(s, size, part(n - 1))
    BY <1>2, <2>1
  <2> DEFINE p == part(n - 1)
             h == hs[n]
  <2>3. p \in Seq(Nat) /\ Len(p) = n - 1 /\ h \in Nat /\ part(n) = Append(p, h)
    BY <1>1
  <2>4. Len(p) < size /\ Len(p) + 1 = n
    BY <1>1, <2>3
  <2> HIDE DEF p, h
  <2>5. Valid(IndexInsert(s, h, Len(p) + 1), size, Append(p, h))
    BY <2>2, <2>3, <2>4, InsertValid DEF p
  <2>6. Valid(IndexInsert(s, hs[n], n), size, part(n))
    BY <2>3, <2>4, <2>5 DEF h
  <2>7. s \in U
    BY <2>1
  <2> HIDE DEF T
  <2>8. IndexInsert(s, hs[n], n) \in T[n]
    BY <1>2, <2>1, <2>6
  <2>9. F[<<n, s>>] = IndexInsert(s, hs[n], n)
    <3> HIDE DEF U
    <3> QED BY <2>7
  <2> QED BY <2>7, <2>8, <2>9
<1>4. s0 \in T[0]
  <2>1. part(0) = <<>> /\ 0 \in 0 .. N
    BY <1>1
  <2>2. Valid(s0, size, <<>>)
    BY EmptyIndex
  <2> HIDE DEF T, s0
  <2> QED BY <1>2, <2>1, <2>2
<1> HIDE DEF T, F, U, s0, N
<1>5. PICK g : IsRun(g, N, s0, F) /\ \A n \in 0 .. N : g[n] \in T[n]
  <2>1. \A n \in 1 .. N : \A s \in T[n - 1] : F[<<n, s>>] \in T[n]
    BY <1>3
  <2> QED BY <1>1, <1>4, <2>1, Recursion
<1>6. g = [n \in 0 .. N |-> IF n = 0 THEN s0 ELSE IndexInsert(g[n - 1], hs[n], n)]
  <2>1. \A n \in 0 .. N : n # 0 => n \in 1 .. N /\ n - 1 \in 0 .. N
    BY <1>1
  <2>2. \A n \in 0 .. N : n # 0 => F[<<n, g[n - 1]>>] = IndexInsert(g[n - 1], hs[n], n)
    BY <1>3, <1>5, <2>1
  <2> QED BY <1>5, <2>2 DEF IsRun
<1>7. PICK h : /\ h = [n \in 0 .. N |-> IF n = 0 THEN s0 ELSE IndexInsert(h[n - 1], hs[n], n)]
               /\ NewIndex(hs, size) = h[N]
  BY <1>6, Zenon DEF NewIndex, N, s0
<1>8. h[0] = s0 /\ \A n \in 1 .. N : h[n] = IndexInsert(h[n - 1], hs[n], n)
  <2>1. 0 \in 0 .. N /\ \A n \in 1 .. N : n \in 0 .. N /\ n # 0
    BY <1>1
  <2> QED BY <1>7, <2>1, Zenon
<1>9. \A n \in 0 .. N : h[n] \in T[n]
  <2>1. h[0] \in T[0]
    BY <1>4, <1>8
  <2>2. ASSUME NEW n \in 1 .. N, h[n - 1] \in T[n - 1] PROVE h[n] \in T[n]
    BY <1>3, <1>8, <2>2
  <2> QED BY <1>1, <2>1, <2>2, Stays
<1>10. Valid(h[N], size, part(N))
  <2>1. N \in 0 .. N
    BY <1>1
  <2> QED BY <1>2, <1>9, <2>1
<1>11. part(N) = hs
  BY DEF N
<1> QED BY <1>7, <1>10, <1>11

\* next_index_cap ends with what was asked for.
LEMMA NextCap ==
  ASSUME NEW needed \in Nat
  PROVE  NextIndexCap(needed) \in Nat \ {0} /\ NextIndexCap(needed) >= needed
<1> DEFINE Step(c) == IF c < needed THEN 2 * c ELSE c
           V == Nat \ {0}
           T == [n \in 0 .. needed |-> {c \in V : c >= n \/ c >= needed}]
           F == [p \in (1 .. needed) \X V |-> Step(p[2])]
<1>1. MinCap \in T[0]
  BY MinCapAssumption
<1>2. ASSUME NEW n \in 1 .. needed, NEW c \in T[n - 1]
      PROVE  Step(c) \in T[n] /\ c \in V /\ F[<<n, c>>] = Step(c)
  <2>1. c \in V /\ (c >= n - 1 \/ c >= needed) /\ n \in 0 .. needed /\ n - 1 \in 0 .. needed
    OBVIOUS
  <2>2. Step(c) \in V /\ (Step(c) >= n \/ Step(c) >= needed)
    BY <2>1
  <2> HIDE DEF Step
  <2> QED BY <2>1, <2>2
<1>3. ASSUME NEW c \in T[needed] PROVE c \in V /\ c >= needed
  OBVIOUS
<1> HIDE DEF T, F, Step
<1>4. PICK g : IsRun(g, needed, MinCap, F) /\ \A n \in 0 .. needed : g[n] \in T[n]
  <2>1. \A n \in 1 .. needed : \A c \in T[n - 1] : F[<<n, c>>] \in T[n]
    BY <1>2
  <2> QED BY <1>1, <2>1, Recursion
<1>5. g = [n \in 0 .. needed |-> IF n = 0 THEN MinCap ELSE Step(g[n - 1])]
  <2>1. \A n \in 0 .. needed : n # 0 => n \in 1 .. needed /\ n - 1 \in 0 .. needed
    OBVIOUS
  <2>2. \A n \in 0 .. needed : n # 0 => F[<<n, g[n - 1]>>] = Step(g[n - 1])
    BY <1>2, <1>4, <2>1
  <2> QED BY <1>4, <2>2 DEF IsRun
<1>6. PICK h : /\ h = [n \in 0 .. needed |-> IF n = 0 THEN MinCap ELSE Step(h[n - 1])]
               /\ NextIndexCap(needed) = h[needed]
  BY <1>5, Zenon DEF NextIndexCap, Step
<1>7. h[0] = MinCap /\ \A n \in 1 .. needed : h[n] = Step(h[n - 1])
  <2>1. 0 \in 0 .. needed /\ \A n \in 1 .. needed : n \in 0 .. needed /\ n # 0
    OBVIOUS
  <2> QED BY <1>6, <2>1, Zenon
<1>8. \A n \in 0 .. needed : h[n] \in T[n]
  <2>1. h[0] \in T[0]
    BY <1>1, <1>7
  <2>2. ASSUME NEW n \in 1 .. needed, h[n - 1] \in T[n - 1] PROVE h[n] \in T[n]
    BY <1>2, <1>7, <2>2
  <2> QED BY <2>1, <2>2, Stays
<1> QED BY <1>3, <1>6, <1>8

-----------------------------------------------------------------------------
(* The buckets.                                                            *)

\* A bucket's key and the number of its subscriptions; keys and hashes of an array of them.
Bucket == [key : Key, n : Nat]
DistinctKeys(b) == \A i, j \in 1 .. Len(b) : b[i].key = b[j].key => i = j
HashesOf(b) == [i \in 1 .. Len(b) |-> hashOf[b[i].key]]

\* A round of the sweep that removes a bucket.
LEMMA BucketRemoved ==
  ASSUME NEW b \in Seq(Bucket), DistinctKeys(b), NEW i \in 1 .. Len(b)
  PROVE  LET c == Front([b EXCEPT ![i] = b[Len(b)]])
         IN  c \in Seq(Bucket) /\ Len(c) = Len(b) - 1 /\ DistinctKeys(c)
<1> DEFINE N == Len(b)
           d == [b EXCEPT ![i] = b[N]]
           c == Front(d)
           B == Bucket
<1>1. N \in Nat /\ N # 0 /\ b[N] \in B
  BY ElementOfSeq
<1>2. d \in Seq(B) /\ Len(d) = N /\ \A j \in 1 .. N : d[j] = IF j = i THEN b[N] ELSE b[j]
  <2> HIDE DEF B
  <2> QED BY <1>1 DEF B
<1> HIDE DEF d
<1>3. c = SubSeq(d, 1, N - 1)
  BY <1>2 DEF Front
<1>4. c \in Seq(B) /\ Len(c) = N - 1 /\ \A j \in 1 .. N - 1 : c[j] = d[j]
  <2> HIDE DEF B, N
  <2> QED BY <1>1, <1>2, <1>3
<1> HIDE DEF c
<1>5. DistinctKeys(c)
  <2> SUFFICES ASSUME NEW j \in 1 .. N - 1, NEW k \in 1 .. N - 1, c[j].key = c[k].key PROVE j = k
    BY <1>4 DEF DistinctKeys
  <2> DEFINE from(x) == IF x = i THEN N ELSE x
  <2>1. from(j) \in 1 .. N /\ from(k) \in 1 .. N /\ (from(j) = from(k) => j = k)
    BY <1>1
  <2>2. c[j] = b[from(j)] /\ c[k] = b[from(k)]
    BY <1>1, <1>2, <1>4
  <2> HIDE DEF from
  <2>3. from(j) = from(k)
    BY <2>1, <2>2 DEF DistinctKeys
  <2> QED BY <2>1, <2>3
<1> QED BY <1>4, <1>5 DEF c, d

\* A sweep removes buckets and leaves the rest as they are.
LEMMA SweptProps ==
  ASSUME NEW b \in Seq(Bucket), DistinctKeys(b)
  PROVE  Swept(b) \in Seq(Bucket) /\ Len(Swept(b)) <= Len(b) /\ DistinctKeys(Swept(b))
<1> DEFINE N == Len(b)
           B == Bucket
           R == [items : Seq(B), i : Nat]
           OK(n, s) == /\ DistinctKeys(s.items) /\ s.i >= 1 /\ Len(s.items) <= N
                       /\ (s.i - 1) + (N - Len(s.items)) = n
           Turn(s) == IF s.items[s.i].n > 0 THEN [s EXCEPT !.i = @ + 1]
                       ELSE [s EXCEPT !.items = Front([s.items EXCEPT ![s.i] = s.items[Len(s.items)]])]
           s0 == [items |-> b, i |-> 1]
           T == [n \in 0 .. N |-> {s \in R : OK(n, s)}]
           F == [p \in (1 .. N) \X R |-> Turn(p[2])]
<1>1. N \in Nat
  OBVIOUS
<1>2. ASSUME NEW n \in 0 .. N, NEW s PROVE s \in T[n] <=> s \in R /\ OK(n, s)
  OBVIOUS
<1>3. ASSUME NEW n \in 1 .. N, NEW s \in T[n - 1]
      PROVE  Turn(s) \in T[n] /\ F[<<n, s>>] = Turn(s)
  <2>1. n \in 0 .. N /\ n - 1 \in 0 .. N
    BY <1>1
  <2>2. s \in R /\ OK(n - 1, s)
    BY <1>2, <2>1
  <2> DEFINE it == s.items
             L == Len(it)
             c == Front([it EXCEPT ![s.i] = it[L]])
  <2>3. it \in Seq(B) /\ L \in Nat /\ s.i \in Nat /\ DistinctKeys(it) /\ s.i >= 1 /\ L <= N /\ (s.i - 1) + (N - L) = n - 1
    BY <2>2
  <2> HIDE DEF it, L, B
  <2>4. s.i \in 1 .. L
    BY <1>1, <2>3
  <2>5. Turn(s) \in R /\ OK(n, Turn(s))
    <3>1. CASE it[s.i].n > 0
      <4> DEFINE t == [s EXCEPT !.i = @ + 1]
      <4>1. Turn(s) = t
        BY <3>1 DEF it
      <4>2. t \in R /\ t.items = it /\ t.i = s.i + 1
        <5>1. s \in R
          BY <2>2
        <5>2. t = [items |-> it, i |-> s.i + 1]
          BY <5>1 DEF it
        <5> HIDE DEF t
        <5>3. s.i + 1 \in Nat
          BY <2>3
        <5> QED BY <2>3, <5>2, <5>3
      <4> HIDE DEF t, Turn
      <4> DEFINE x == s.i
      <4>3. OK(n, t)
        <5>1. DistinctKeys(t.items) /\ Len(t.items) = L /\ t.i = x + 1
          BY <2>3, <4>2 DEF L
        <5>2. x \in Nat /\ x >= 1 /\ L <= N /\ (x - 1) + (N - L) = n - 1
          BY <2>3
        <5> HIDE DEF x, N
        <5> QED BY <1>1, <2>3, <5>1, <5>2
      <4> QED BY <4>1, <4>2, <4>3
    <3>2. CASE ~(it[s.i].n > 0)
      <4> DEFINE t == [s EXCEPT !.items = c]
      <4>1. Turn(s) = t
        BY <3>2 DEF it, L
      <4>2. c \in Seq(B) /\ Len(c) = L - 1 /\ DistinctKeys(c)
        BY <2>3, <2>4, BucketRemoved DEF B, L
      <4> HIDE DEF c
      <4>3. t \in R /\ t.items = c /\ t.i = s.i
        BY <2>2, <2>3, <4>2
      <4> HIDE DEF t, Turn
      <4>4. OK(n, t)
        BY <1>1, <2>3, <2>4, <4>2, <4>3
      <4> QED BY <4>1, <4>3, <4>4
    <3> QED BY <3>1, <3>2
  <2> HIDE DEF Turn, T, R, OK
  <2>6. F[<<n, s>>] = Turn(s)
    BY <2>2
  <2> QED BY <1>2, <2>1, <2>5, <2>6
<1>4. s0 \in T[0]
  <2>1. s0 \in R /\ s0.items = b /\ s0.i = 1
    BY DEF B
  <2> HIDE DEF s0, T, R
  <2>2. OK(0, s0)
    BY <1>1, <2>1
  <2> HIDE DEF OK
  <2>3. 0 \in 0 .. N
    BY <1>1
  <2> QED BY <1>2, <2>1, <2>2, <2>3
<1>5. ASSUME NEW n \in 0 .. N, NEW s \in T[n] PROVE s \in R /\ DistinctKeys(s.items) /\ Len(s.items) <= N
  BY <1>2
<1> HIDE DEF T, F, s0, N, R, OK, Turn
<1>6. PICK g : IsRun(g, N, s0, F) /\ \A n \in 0 .. N : g[n] \in T[n]
  <2>1. \A n \in 1 .. N : \A s \in T[n - 1] : F[<<n, s>>] \in T[n]
    BY <1>3
  <2> QED BY <1>1, <1>4, <2>1, Recursion
<1>7. g = [n \in 0 .. N |-> IF n = 0 THEN s0 ELSE Turn(g[n - 1])]
  <2>1. \A n \in 0 .. N : n # 0 => n \in 1 .. N /\ n - 1 \in 0 .. N
    BY <1>1
  <2>2. \A n \in 0 .. N : n # 0 => F[<<n, g[n - 1]>>] = Turn(g[n - 1])
    BY <1>3, <1>6, <2>1
  <2> QED BY <1>6, <2>2 DEF IsRun
<1>8. PICK h : /\ h = [n \in 0 .. N |-> IF n = 0 THEN s0 ELSE Turn(h[n - 1])]
               /\ Swept(b) = h[N].items
  BY <1>7, Zenon DEF Swept, Turn, N, s0
<1>9. h[0] = s0 /\ \A n \in 1 .. N : h[n] = Turn(h[n - 1])
  <2>1. 0 \in 0 .. N /\ \A n \in 1 .. N : n \in 0 .. N /\ n # 0
    BY <1>1
  <2> QED BY <1>8, <2>1, Zenon
<1>10. \A n \in 0 .. N : h[n] \in T[n]
  <2>1. h[0] \in T[0]
    BY <1>4, <1>9
  <2>2. ASSUME NEW n \in 1 .. N, h[n - 1] \in T[n - 1] PROVE h[n] \in T[n]
    BY <1>3, <1>9, <2>2
  <2> QED BY <1>1, <2>1, <2>2, Stays
<1>11. h[N] \in R /\ DistinctKeys(h[N].items) /\ Len(h[N].items) <= N
  <2>1. N \in 0 .. N
    BY <1>1
  <2> QED BY <1>5, <1>10, <2>1
<1>12. h[N].items \in Seq(B)
  BY <1>11 DEF R
<1> QED BY <1>8, <1>11, <1>12 DEF N

-----------------------------------------------------------------------------
(* The router's use of them.                                               *)

\* An index for the buckets b, not more than half full.
Serves(s, b) == \E size \in Nat \ {0} : 2 * Len(b) <= size /\ Valid(s, size, HashesOf(b))

\* The inductive invariant: one bucket per key, and an index that has them all unless there is neither.
IndexInv ==
    /\ hashOf \in [Key -> Hashes]
    /\ buckets \in Seq(Bucket) /\ DistinctKeys(buckets)
    /\ (slots = <<>> /\ buckets = <<>>) \/ Serves(slots, buckets)

\* The hashes of the buckets depend on their keys only.
LEMMA HashesProps ==
  ASSUME NEW b \in Seq(Bucket), hashOf \in [Key -> Hashes]
  PROVE  /\ HashesOf(b) \in Seq(Nat) /\ Len(HashesOf(b)) = Len(b)
         /\ \A i \in 1 .. Len(b) : b[i].key \in Key /\ HashesOf(b)[i] = hashOf[b[i].key] /\ hashOf[b[i].key] \in Nat
         /\ HashesOf(b) = [i \in DOMAIN b |-> hashOf[b[i].key]]
<1> DEFINE B == Bucket
           N == Len(b)
<1>1. DOMAIN b = 1 .. N /\ N \in Nat
  OBVIOUS
<1>2. \A i \in 1 .. N : b[i].key \in Key
  <2>1. \A i \in 1 .. N : b[i] \in B
    BY ElementOfSeq
  <2> QED BY <2>1 DEF Bucket
<1>3. \A i \in 1 .. N : hashOf[b[i].key] \in Nat
  BY <1>2, IndexAssumption
<1>4. HashesOf(b) = [i \in 1 .. N |-> hashOf[b[i].key]]
  BY DEF HashesOf
<1> HIDE DEF N
<1>5. HashesOf(b) \in Seq(Nat) /\ Len(HashesOf(b)) = N /\ \A i \in 1 .. N : HashesOf(b)[i] = hashOf[b[i].key]
  BY <1>1, <1>3, <1>4
<1> QED BY <1>1, <1>2, <1>3, <1>4, <1>5 DEF N

\* A rebuilt index serves.
LEMMA IndexedServes ==
  ASSUME NEW b \in Seq(Bucket), hashOf \in [Key -> Hashes], NEW size \in Nat \ {0}, 2 * Len(b) <= size
  PROVE  Serves(Indexed(b, size), b)
<1>1. HashesOf(b) \in Seq(Nat) /\ Len(HashesOf(b)) = Len(b) /\ HashesOf(b) = [i \in DOMAIN b |-> hashOf[b[i].key]]
  BY HashesProps
<1>2. Len(HashesOf(b)) <= size
  <2>1. Len(b) \in Nat
    OBVIOUS
  <2> QED BY <1>1, <2>1
<1>3. Valid(NewIndex(HashesOf(b), size), size, HashesOf(b))
  BY <1>1, <1>2, NewIndexValid
<1>4. Indexed(b, size) = NewIndex(HashesOf(b), size)
  BY <1>1 DEF Indexed
<1> QED BY <1>3, <1>4 DEF Serves

\* An index that serves is one.
LEMMA ServesProps ==
  ASSUME NEW b \in Seq(Bucket), hashOf \in [Key -> Hashes], NEW s, Serves(s, b)
  PROVE  /\ s # <<>> /\ Cap(s) \in Nat \ {0} /\ 2 * Len(b) <= Cap(s) /\ Valid(s, Cap(s), HashesOf(b))
<1>1. PICK size \in Nat \ {0} : 2 * Len(b) <= size /\ Valid(s, size, HashesOf(b))
  BY DEF Serves
<1>2. s \in [0 .. size - 1 -> [hash : Nat, index : 0 .. Len(HashesOf(b))]]
  BY <1>1 DEF Valid
<1>3. Cap(s) = size
  BY <1>2, CapIs
<1>4. s # <<>>
  <2>1. DOMAIN s = 0 .. size - 1 /\ 0 \in 0 .. size - 1 /\ DOMAIN <<>> = {}
    BY <1>2
  <2> QED BY <2>1
<1> QED BY <1>1, <1>3, <1>4

\* What the invariant says of a lookup.
LEMMA FindProps ==
  ASSUME IndexInv, NEW k \in Key
  PROVE  LET at == {i \in DOMAIN buckets : buckets[i].key = k}
         IN  Find(k) \in 0 .. Len(buckets) /\ at = IF Find(k) = 0 THEN {} ELSE {Find(k)}
<1> DEFINE N == Len(buckets)
           at == {i \in DOMAIN buckets : buckets[i].key = k}
           h == hashOf[k]
           hs == HashesOf(buckets)
<1>1. /\ buckets \in Seq(Bucket) /\ DistinctKeys(buckets) /\ hashOf \in [Key -> Hashes]
      /\ DOMAIN buckets = 1 .. N /\ N \in Nat /\ h \in Nat
  <2>1. buckets \in Seq(Bucket) /\ DistinctKeys(buckets) /\ hashOf \in [Key -> Hashes]
    BY DEF IndexInv
  <2>2. DOMAIN buckets = 1 .. N /\ N \in Nat
    BY <2>1
  <2>3. h \in Nat
    BY <2>1, IndexAssumption
  <2> QED BY <2>1, <2>2, <2>3
<1>2. Find(k) = IndexFind(slots, h, at)
  BY DEF Find
<1>3. CASE slots = <<>> /\ buckets = <<>>
  <2>1. IndexFind(slots, h, at) = 0
    BY <1>3 DEF IndexFind
  <2>2. at = {}
    BY <1>3
  <2> QED BY <1>1, <1>2, <2>1, <2>2
<1>4. CASE Serves(slots, buckets)
  <2> DEFINE size == Cap(slots)
  <2>1. size \in Nat \ {0} /\ 2 * N <= size /\ Valid(slots, size, hs)
    BY <1>1, <1>4, ServesProps
  <2>2. hs \in Seq(Nat) /\ Len(hs) = N /\ \A i \in 1 .. N : hs[i] = hashOf[buckets[i].key]
    BY <1>1, HashesProps
  <2>3. Sought(hs, h, at)
    <3>1. \A i \in at : i \in 1 .. N /\ buckets[i].key = k
      BY <1>1
    <3>2. \A i, j \in at : i = j
      BY <1>1, <3>1 DEF DistinctKeys
    <3>3. \A i \in at : i \in 1 .. Len(hs) /\ hs[i] = h
      BY <2>2, <3>1
    <3> HIDE DEF at, hs, h
    <3> QED BY <3>2, <3>3 DEF Sought
  <2>4. Len(hs) < size
    <3> HIDE DEF N, size
    <3> QED BY <1>1, <2>1, <2>2
  <2> HIDE DEF at, size, hs, h
  <2>5. IndexFind(slots, h, at) \in 0 .. Len(hs)
        /\ at = IF IndexFind(slots, h, at) = 0 THEN {} ELSE {IndexFind(slots, h, at)}
    <3>1. h \in Nat /\ hs \in Seq(Nat) /\ size \in Nat \ {0} /\ Valid(slots, size, hs)
      BY <1>1, <2>1, <2>2
    <3> QED BY <2>3, <2>4, <3>1, FindExact
  <2> QED BY <1>2, <2>2, <2>5 DEF at
<1> QED BY <1>3, <1>4 DEF IndexInv

\* literal_index_ensure leaves an index with room for one bucket more.
LEMMA EnsureServes ==
  ASSUME IndexInv, NEW needed, needed = Len(buckets) + 1
  PROVE  /\ Serves(IndexEnsure(needed), buckets)
         /\ \E size \in Nat \ {0} : 2 * needed <= size /\ Valid(IndexEnsure(needed), size, HashesOf(buckets))
<1> DEFINE N == Len(buckets)
           s == IndexEnsure(needed)
<1>1. buckets \in Seq(Bucket) /\ hashOf \in [Key -> Hashes] /\ N \in Nat
  <2>1. buckets \in Seq(Bucket) /\ hashOf \in [Key -> Hashes]
    BY DEF IndexInv
  <2> QED BY <2>1
<1>2. \E size \in Nat \ {0} : 2 * needed <= size /\ Valid(s, size, HashesOf(buckets))
  <2>1. CASE Cap(slots) # 0 /\ needed < Cap(slots) \div 2
    <3>1. s = slots
      BY <2>1 DEF IndexEnsure
    <3>2. Serves(slots, buckets)
      <4>1. Cap(<<>>) = 0
        <5>1. DOMAIN <<>> = {}
          OBVIOUS
        <5> QED BY <5>1, FS_EmptySet DEF Cap
      <4> QED BY <2>1, <4>1 DEF IndexInv
    <3>3. Cap(slots) \in Nat \ {0} /\ Valid(slots, Cap(slots), HashesOf(buckets))
      BY <1>1, <3>2, ServesProps
    <3> DEFINE c == Cap(slots)
    <3>4. c \in Nat /\ needed < c \div 2
      BY <2>1, <3>3
    <3> HIDE DEF c, N
    <3>5. needed \in Nat
      BY <1>1 DEF N
    <3>6. 2 * needed <= c
      BY <3>4, <3>5
    <3> QED BY <3>1, <3>3, <3>6 DEF c
  <2>2. CASE ~(Cap(slots) # 0 /\ needed < Cap(slots) \div 2)
    <3> DEFINE c == NextIndexCap(4 * needed)
               hs == HashesOf(buckets)
    <3>1. s = Indexed(buckets, c)
      BY <2>2 DEF IndexEnsure
    <3>2. needed \in Nat /\ 4 * needed \in Nat
      BY <1>1
    <3>3. c \in Nat \ {0} /\ c >= 4 * needed
      BY <3>2, NextCap
    <3> HIDE DEF c
    <3>4. 2 * needed <= c
      BY <3>2, <3>3
    <3>5. hs \in Seq(Nat) /\ Len(hs) = N /\ hs = [i \in DOMAIN buckets |-> hashOf[buckets[i].key]]
      BY <1>1, HashesProps
    <3>6. s = NewIndex(hs, c)
      BY <3>1, <3>5 DEF Indexed
    <3>7. Len(hs) <= c
      <4> DEFINE L == Len(hs)
      <4>1. L = N /\ needed = N + 1 /\ N \in Nat
        BY <1>1, <3>5
      <4> HIDE DEF N, L
      <4>2. L <= c
        BY <3>3, <3>4, <4>1
      <4> QED BY <4>2 DEF L
    <3>8. Valid(NewIndex(hs, c), c, hs)
      BY <3>3, <3>5, <3>7, NewIndexValid
    <3> QED BY <3>3, <3>4, <3>6, <3>8
  <2> QED BY <2>1, <2>2
<1>3. Serves(s, buckets)
  <2> HIDE DEF s
  <2>1. PICK size \in Nat \ {0} : 2 * needed <= size /\ Valid(s, size, HashesOf(buckets))
    BY <1>2
  <2>2. 2 * N <= size
    <3> HIDE DEF N
    <3> QED BY <1>1, <2>1 DEF N
  <2> QED BY <2>1, <2>2 DEF Serves
<1> QED BY <1>2, <1>3

\* An index serves buckets with the same keys.
LEMMA SameKeys ==
  ASSUME NEW b, NEW c, Len(b) = Len(c), \A i \in 1 .. Len(b) : b[i].key = c[i].key
  PROVE  HashesOf(b) = HashesOf(c) /\ (DistinctKeys(b) <=> DistinctKeys(c))
BY DEF HashesOf, DistinctKeys

\* A bucket with another number of subscriptions.
LEMMA Recount ==
  ASSUME IndexInv, NEW b \in Seq(Bucket), Len(b) = Len(buckets), \A i \in 1 .. Len(b) : b[i].key = buckets[i].key,
         buckets' = b, UNCHANGED <<slots, hashOf>>
  PROVE  IndexInv'
<1>1. HashesOf(b) = HashesOf(buckets) /\ DistinctKeys(b)
  BY SameKeys DEF IndexInv
<1>3. hashOf' \in [Key -> Hashes] /\ buckets' \in Seq(Bucket) /\ DistinctKeys(buckets')
  BY <1>1 DEF IndexInv
<1>4. CASE slots = <<>> /\ buckets = <<>>
  <2>1. Len(buckets) = 0
    BY <1>4
  <2>2. b = <<>>
    BY <2>1
  <2> QED BY <1>3, <1>4, <2>2 DEF IndexInv
<1>5. CASE Serves(slots, buckets)
  <2>1. PICK size \in Nat \ {0} : 2 * Len(buckets) <= size /\ Valid(slots, size, HashesOf(buckets))
    BY <1>5 DEF Serves
  <2>2. HashesOf(buckets)' = HashesOf(buckets)
    BY <1>1 DEF HashesOf
  <2>3. 2 * Len(buckets') <= size /\ Valid(slots', size, HashesOf(buckets)')
    BY <2>1, <2>2
  <2>4. Serves(slots, buckets)'
    BY <2>3 DEF Serves
  <2> QED BY <1>3, <2>4 DEF IndexInv
<1> QED BY <1>4, <1>5 DEF IndexInv

\* The invariant is preserved.
LEMMA IndexStep ==
  ASSUME IndexInv, IndexNext
  PROVE  IndexInv'
<1> DEFINE N == Len(buckets)
<1>1. buckets \in Seq(Bucket) /\ DistinctKeys(buckets) /\ hashOf \in [Key -> Hashes] /\ N \in Nat
  <2>1. buckets \in Seq(Bucket) /\ DistinctKeys(buckets) /\ hashOf \in [Key -> Hashes]
    BY DEF IndexInv
  <2> QED BY <2>1
<1>2. ASSUME NEW i \in 1 .. N, NEW n \in Nat, buckets' = [buckets EXCEPT ![i].n = n], UNCHANGED <<slots, hashOf>>
      PROVE  IndexInv'
  <2> DEFINE b == [buckets EXCEPT ![i].n = n]
             x == [buckets[i] EXCEPT !.n = n]
  <2>1. buckets[i] \in Bucket
    BY <1>1, ElementOfSeq
  <2>2. x \in Bucket /\ x.key = buckets[i].key
    BY <2>1 DEF Bucket
  <2> HIDE DEF x
  <2>3. b = [buckets EXCEPT ![i] = x]
    BY <1>1 DEF x
  <2> DEFINE B == Bucket
  <2>4. b \in Seq(Bucket) /\ Len(b) = N /\ \A j \in 1 .. N : b[j] = IF j = i THEN x ELSE buckets[j]
    <3>1. buckets \in Seq(B) /\ x \in B
      BY <1>1, <2>2
    <3> HIDE DEF B, b
    <3>2. b \in Seq(B) /\ Len(b) = N /\ \A j \in 1 .. N : b[j] = IF j = i THEN x ELSE buckets[j]
      BY <2>3, <3>1
    <3> QED BY <3>2 DEF B
  <2>5. \A j \in 1 .. Len(b) : b[j].key = buckets[j].key
    BY <2>2, <2>4
  <2> HIDE DEF b
  <2> QED BY <1>2, <2>4, <2>5, Recount DEF b
<1>3. ASSUME NEW k \in Key, Join(k) PROVE IndexInv'
  <2>1. Find(k) \in 0 .. N
    BY FindProps
  <2> DEFINE i == Find(k)
  <2>2. i \in 1 .. N /\ buckets' = [buckets EXCEPT ![i].n = @ + 1] /\ UNCHANGED <<slots, hashOf>>
    BY <1>1, <1>3, <2>1 DEF Join
  <2> HIDE DEF i
  <2>3. buckets[i] \in Bucket
    BY <1>1, <2>2, ElementOfSeq
  <2> DEFINE n == buckets[i].n + 1
  <2>4. n \in Nat
    BY <2>3 DEF Bucket
  <2>5. buckets' = [buckets EXCEPT ![i].n = n]
    BY <2>2
  <2> HIDE DEF n
  <2> QED BY <1>2, <2>2, <2>4, <2>5
<1>4. ASSUME NEW k \in Key, DeliverLast(k) PROVE IndexInv'
  <2>1. Find(k) \in 0 .. N
    BY FindProps
  <2> DEFINE i == Find(k)
  <2>2. i \in 1 .. N /\ UNCHANGED <<slots, hashOf>>
    BY <1>1, <1>4, <2>1 DEF DeliverLast
  <2>3. PICK n \in 0 .. buckets[i].n - 1 : buckets' = [buckets EXCEPT ![i].n = n]
    BY <1>4 DEF DeliverLast
  <2> HIDE DEF i
  <2>4. n \in Nat
    OBVIOUS
  <2> QED BY <1>2, <2>2, <2>3, <2>4
<1>5. ASSUME NEW k \in Key, CreateFails(k) PROVE IndexInv'
  <2> DEFINE s == IndexEnsure(Len(buckets) + 1)
  <2>1. slots' = s /\ UNCHANGED <<buckets, hashOf>>
    BY <1>5 DEF CreateFails
  <2>2. Serves(s, buckets)
    BY EnsureServes
  <2> HIDE DEF s
  <2>3. HashesOf(buckets)' = HashesOf(buckets)
    BY <2>1 DEF HashesOf
  <2>4. PICK size \in Nat \ {0} : 2 * Len(buckets) <= size /\ Valid(s, size, HashesOf(buckets))
    BY <2>2 DEF Serves
  <2>5. 2 * Len(buckets') <= size /\ Valid(slots', size, HashesOf(buckets)')
    BY <2>1, <2>3, <2>4
  <2>6. Serves(slots, buckets)'
    BY <2>5 DEF Serves
  <2> QED BY <1>1, <2>1, <2>6 DEF IndexInv
<1>6. ASSUME NEW k \in Key, NEW n \in {0, 1}, Create(k, n) PROVE IndexInv'
  <2> DEFINE m == Len(buckets) + 1
             s == IndexEnsure(m)
             x == [key |-> k, n |-> n]
             b == Append(buckets, x)
             hs == HashesOf(buckets)
             h == hashOf[k]
  <2>1. slots' = IndexInsert(s, h, m) /\ buckets' = b /\ hashOf' = hashOf /\ Find(k) = 0
    BY <1>6 DEF Create
  <2>2. PICK size \in Nat \ {0} : 2 * m <= size /\ Valid(s, size, hs)
    BY EnsureServes
  <2>3. \A i \in 1 .. N : buckets[i].key # k
    <3>1. {i \in DOMAIN buckets : buckets[i].key = k} = {}
      BY <2>1, FindProps
    <3>2. DOMAIN buckets = 1 .. N
      BY <1>1
    <3> QED BY <3>1, <3>2
  <2>4. x \in Bucket /\ x.key = k
    BY DEF Bucket
  <2> HIDE DEF x
  <2>5. b \in Seq(Bucket) /\ Len(b) = N + 1 /\ b[N + 1] = x /\ \A i \in 1 .. N : b[i] = buckets[i]
    <3> DEFINE B == Bucket
    <3>1. buckets \in Seq(B) /\ x \in B
      BY <1>1, <2>4
    <3> HIDE DEF B
    <3>2. b \in Seq(B) /\ Len(b) = N + 1 /\ b[N + 1] = x /\ \A i \in 1 .. N : b[i] = buckets[i]
      BY <3>1
    <3> QED BY <3>2 DEF B
  <2> HIDE DEF b, s
  <2>6. DistinctKeys(b)
    <3> SUFFICES ASSUME NEW i \in 1 .. N + 1, NEW j \in 1 .. N + 1, b[i].key = b[j].key PROVE i = j
      BY <2>5 DEF DistinctKeys
    <3>1. \A o \in 1 .. N + 1 : o = N + 1 \/ o \in 1 .. N
      BY <1>1
    <3>2. CASE i \in 1 .. N /\ j \in 1 .. N
      BY <1>1, <2>5, <3>2 DEF DistinctKeys
    <3>3. CASE ~(i \in 1 .. N /\ j \in 1 .. N)
      BY <2>3, <2>4, <2>5, <3>1, <3>3
    <3> QED BY <3>2, <3>3
  <2>7. /\ hs \in Seq(Nat) /\ Len(hs) = N /\ h \in Nat
        /\ \A i \in 1 .. N : hs[i] = hashOf[buckets[i].key]
    BY <1>1, HashesProps, IndexAssumption
  <2>8. HashesOf(b) = Append(hs, h)
    <3> DEFINE l == HashesOf(b)
               r == Append(hs, h)
    <3>1. l \in Seq(Nat) /\ Len(l) = N + 1 /\ \A i \in 1 .. N + 1 : l[i] = hashOf[b[i].key]
      BY <1>1, <2>5, HashesProps
    <3> HIDE DEF hs, h
    <3>2. r \in Seq(Nat) /\ Len(r) = N + 1 /\ r[N + 1] = h /\ \A i \in 1 .. N : r[i] = hs[i]
      BY <2>7
    <3> HIDE DEF l, r
    <3>3. ASSUME NEW i \in 1 .. N + 1 PROVE l[i] = r[i]
      <4>1. CASE i = N + 1
        BY <2>4, <2>5, <3>1, <3>2, <4>1 DEF h
      <4>2. CASE i # N + 1
        <5>1. i \in 1 .. N
          BY <1>1, <4>2
        <5>2. b[i] = buckets[i]
          BY <2>5, <5>1, Zenon
        <5>3. r[i] = hs[i]
          BY <3>2, <5>1, Zenon
        <5>4. hs[i] = hashOf[buckets[i].key]
          BY <2>7, <5>1, Zenon
        <5>5. l[i] = hashOf[b[i].key]
          BY <3>1, Zenon
        <5> QED BY <5>2, <5>3, <5>4, <5>5, Zenon
      <4> QED BY <4>1, <4>2
    <3>4. l = r
      BY <3>1, <3>2, <3>3, SeqEqual
    <3> QED BY <3>4 DEF l, r
  <2>9. Valid(IndexInsert(s, h, m), size, Append(hs, h))
    <3> HIDE DEF hs, h
    <3> DEFINE L == Len(hs)
    <3>1. L + 1 = m /\ L = N /\ 2 * (N + 1) <= size /\ size \in Nat
      BY <1>1, <2>2, <2>7
    <3> HIDE DEF N, L, m
    <3>2. L < size
      BY <1>1, <3>1
    <3> QED BY <2>2, <2>7, <3>1, <3>2, InsertValid DEF L
  <2>10. HashesOf(buckets)' = HashesOf(b)
    BY <2>1 DEF HashesOf
  <2>11. 2 * Len(buckets') <= size /\ Valid(slots', size, HashesOf(buckets)')
    BY <2>1, <2>2, <2>5, <2>8, <2>9, <2>10
  <2>12. Serves(slots, buckets)'
    BY <2>11 DEF Serves
  <2> QED BY <1>1, <2>1, <2>5, <2>6, <2>12 DEF IndexInv
<1>7. ASSUME RemoveSome PROVE IndexInv'
  <2>1. PICK left \in [DOMAIN buckets -> 0 .. MaxPerBucket] : RemoveSubs(left)
    BY <1>7 DEF RemoveSome
  <2> DEFINE fewer == [i \in DOMAIN buckets |-> [buckets[i] EXCEPT !.n = left[i]]]
             new == Swept(fewer)
  <2>2. buckets' = new /\ slots' = Refresh(fewer, new) /\ hashOf' = hashOf
    BY <2>1 DEF RemoveSubs
  <2>3. /\ fewer \in Seq(Bucket) /\ Len(fewer) = N /\ DOMAIN fewer = 1 .. N
        /\ \A i \in 1 .. N : fewer[i].key = buckets[i].key
    <3>1. DOMAIN buckets = 1 .. N
      BY <1>1
    <3>2. ASSUME NEW i \in 1 .. N
          PROVE  /\ [buckets[i] EXCEPT !.n = left[i]] \in Bucket
                 /\ [buckets[i] EXCEPT !.n = left[i]].key = buckets[i].key
      <4>1. buckets[i] \in Bucket
        BY <1>1, ElementOfSeq
      <4>2. left[i] \in Nat
        BY <3>1, IndexAssumption
      <4> QED BY <4>1, <4>2 DEF Bucket
    <3> DEFINE B == Bucket
               e(i) == [buckets[i] EXCEPT !.n = left[i]]
    <3>3. fewer = [i \in 1 .. N |-> e(i)] /\ \A i \in 1 .. N : e(i) \in B /\ e(i).key = buckets[i].key
      BY <3>1, <3>2
    <3> HIDE DEF fewer, e, B, N
    <3>4. fewer \in Seq(B) /\ Len(fewer) = N /\ DOMAIN fewer = 1 .. N /\ \A i \in 1 .. N : fewer[i] = e(i)
      BY <1>1, <3>3
    <3> QED BY <3>3, <3>4 DEF B
  <2> HIDE DEF fewer
  <2>4. HashesOf(fewer) = HashesOf(buckets) /\ DistinctKeys(fewer)
    BY <1>1, <2>3, SameKeys
  <2>5. new \in Seq(Bucket) /\ Len(new) <= N /\ DistinctKeys(new)
    BY <2>3, <2>4, SweptProps
  <2> HIDE DEF new
  <2>6. CASE fewer = new
    <3>1. slots' = slots /\ \A i \in 1 .. Len(new) : new[i].key = buckets[i].key
      BY <2>2, <2>3, <2>6 DEF Refresh
    <3> QED BY <2>2, <2>3, <2>5, <2>6, <3>1, Recount
  <2>7. CASE fewer # new
    <3> DEFINE c == Cap(slots)
    <3>1. slots' = Indexed(new, c)
      BY <2>2, <2>7 DEF Refresh
    <3>2. N # 0
      <4>1. CASE N = 0
        <5>1. Len(new) = 0
          <6>1. Len(new) \in Nat
            BY <2>5
          <6> DEFINE L == Len(new)
          <6> HIDE DEF L, N
          <6>2. L = 0
            BY <2>5, <4>1, <6>1 DEF L
          <6> QED BY <6>2 DEF L
        <5>2. new = <<>> /\ fewer = <<>>
          BY <2>3, <2>5, <4>1, <5>1
        <5> QED BY <2>7, <5>2
      <4> QED BY <4>1
    <3>3. Serves(slots, buckets)
      <4>1. buckets # <<>>
        BY <3>2
      <4> QED BY <4>1 DEF IndexInv
    <3>4. c \in Nat \ {0} /\ 2 * N <= c
      BY <1>1, <3>3, ServesProps
    <3>5. 2 * Len(new) <= c
      <4>1. Len(new) \in Nat
        BY <2>5
      <4> DEFINE L == Len(new)
      <4> HIDE DEF L, N, c
      <4>2. 2 * L <= c
        BY <1>1, <2>5, <3>4, <4>1 DEF L
      <4> QED BY <4>2 DEF L
    <3> HIDE DEF c
    <3>6. Serves(Indexed(new, c), new)
      BY <1>1, <2>5, <3>4, <3>5, IndexedServes
    <3>7. PICK size \in Nat \ {0} : 2 * Len(new) <= size /\ Valid(Indexed(new, c), size, HashesOf(new))
      BY <3>6 DEF Serves
    <3>8. HashesOf(buckets)' = HashesOf(new)
      BY <2>2 DEF HashesOf
    <3>9. 2 * Len(buckets') <= size /\ Valid(slots', size, HashesOf(buckets)')
      BY <2>2, <3>1, <3>7, <3>8
    <3>10. Serves(slots, buckets)'
      BY <3>9 DEF Serves
    <3> QED BY <1>1, <2>2, <2>5, <3>10 DEF IndexInv
  <2> QED BY <2>6, <2>7
<1> QED BY <1>3, <1>4, <1>5, <1>6, <1>7 DEF IndexNext

\* The index is exact, for any keys, hashes and number of subscriptions, and whatever was
\* subscribed, removed and swapped: a lookup ends, finds the bucket of its key if there is one
\* and nothing otherwise, and at least half of the slots are free.  The same holds for the
\* three copies of the index in router.c.
THEOREM IndexIsExact == IndexSpec => []IndexExact
<1>1. IndexInit => IndexInv
  <2> SUFFICES ASSUME IndexInit PROVE IndexInv
    OBVIOUS
  <2>1. <<>> \in Seq(Bucket) /\ Len(<<>>) = 0
    OBVIOUS
  <2>2. DistinctKeys(<<>>)
    BY <2>1 DEF DistinctKeys
  <2> QED BY <2>1, <2>2 DEF IndexInit, IndexInv
<1>2. IndexInv /\ [IndexNext]_indexVars => IndexInv'
  <2>1. ASSUME IndexInv, UNCHANGED indexVars PROVE IndexInv'
    BY <2>1 DEF IndexInv, indexVars, Serves, HashesOf
  <2> QED BY <2>1, IndexStep
<1>3. IndexInv => IndexExact
  <2> SUFFICES ASSUME IndexInv PROVE IndexExact
    OBVIOUS
  <2>1. \A k \in Key : LET at == {i \in DOMAIN buckets : buckets[i].key = k}
                       IN  IF Find(k) = 0 THEN at = {} ELSE at = {Find(k)}
    BY FindProps
  <2>2. slots # <<>> => 2 * Len(buckets) <= Cap(slots)
    BY ServesProps DEF IndexInv
  <2> QED BY <2>1, <2>2 DEF IndexExact
<1> QED BY <1>1, <1>2, <1>3, PTL DEF IndexSpec
=============================================================================
