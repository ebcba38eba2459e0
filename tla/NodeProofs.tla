----------------------------- MODULE NodeProofs -----------------------------
(***************************************************************************)
(* What holds of the pending pool next to the block tree, for every set of *)
(* transactions and blocks and every limit the constants allow: the two    *)
(* dictionaries of the pool agree, all of the pool can execute in the next *)
(* block, whatever reorganizations it went through, an extension drops     *)
(* only what it confirmed or its refusal rules out, a reorganization gives *)
(* back what its old branch held, and mining confirms what it took.        *)
(***************************************************************************)
EXTENDS Node, BlockTreeProofs, TLAPS

-----------------------------------------------------------------------------
(***************************************************************************)
(* Sorting: in a strict total order on a finite set the ranks, the numbers *)
(* of smaller members, are the numbers below its cardinality, once each.   *)
(***************************************************************************)
Orders(R, S) ==
  /\ \A t \in S : <<t, t>> \notin R
  /\ \A t, u \in S : t = u \/ <<t, u>> \in R \/ <<u, t>> \in R
  /\ \A t, u, v \in S : <<t, u>> \in R /\ <<u, v>> \in R => <<t, v>> \in R

Below(R, S, t) == {u \in S : <<u, t>> \in R}

LEMMA RankGrows ==
  ASSUME NEW S, IsFiniteSet(S), NEW R, Orders(R, S)
  PROVE  /\ \A t \in S : Cardinality(Below(R, S, t)) \in 0..(Cardinality(S) - 1)
         /\ \A t, u \in S : <<t, u>> \in R =>
              Cardinality(Below(R, S, t)) < Cardinality(Below(R, S, u))
<1>1. \A t \in S : /\ Below(R, S, t) \in SUBSET (S \ {t})
                   /\ IsFiniteSet(Below(R, S, t)) /\ Cardinality(Below(R, S, t)) \in Nat
  <2> SUFFICES ASSUME NEW t \in S
               PROVE  /\ Below(R, S, t) \in SUBSET (S \ {t})
                      /\ IsFiniteSet(Below(R, S, t)) /\ Cardinality(Below(R, S, t)) \in Nat
    OBVIOUS
  <2>1. Below(R, S, t) \in SUBSET (S \ {t}) /\ Below(R, S, t) \in SUBSET S
    BY DEF Below, Orders
  <2> QED
    BY <2>1, FS_Subset, FS_CardinalityType
<1>2. ASSUME NEW t \in S PROVE Cardinality(Below(R, S, t)) \in 0..(Cardinality(S) - 1)
  <2>1. IsFiniteSet(S \ {t}) /\ Cardinality(S \ {t}) = Cardinality(S) - 1
    BY FS_RemoveElement
  <2>2. Cardinality(Below(R, S, t)) <= Cardinality(S \ {t})
    BY <1>1, <2>1, FS_Subset
  <2>3. Cardinality(S) \in Nat
    BY FS_CardinalityType
  <2> QED
    BY <1>1, <2>1, <2>2, <2>3
<1>3. ASSUME NEW t \in S, NEW u \in S, <<t, u>> \in R
      PROVE  Cardinality(Below(R, S, t)) < Cardinality(Below(R, S, u))
  <2> DEFINE B == Below(R, S, t)
             C == Below(R, S, u)
  <2>1. B \cup {t} \in SUBSET C /\ t \notin B
    BY <1>1, <1>3 DEF Below, Orders
  <2>2. IsFiniteSet(B) /\ IsFiniteSet(C) /\ Cardinality(B) \in Nat /\ Cardinality(C) \in Nat
    BY <1>1
  <2> HIDE DEF B, C
  <2>3. Cardinality(B \cup {t}) = Cardinality(B) + 1
    BY <2>1, <2>2, FS_AddElement
  <2>4. Cardinality(B \cup {t}) <= Cardinality(C)
    BY <2>1, <2>2, FS_Subset
  <2>5. Cardinality(B) < Cardinality(C)
    BY <2>2, <2>3, <2>4
  <2> QED
    BY <2>5 DEF B, C
<1> QED
  BY <1>2, <1>3

LEMMA RankReached ==
  ASSUME NEW S, IsFiniteSet(S), NEW R, Orders(R, S)
  PROVE  \A i \in 0..(Cardinality(S) - 1) : \E t \in S : Cardinality(Below(R, S, t)) = i
<1> DEFINE I == 0..(Cardinality(S) - 1)
           rank == [t \in S |-> Cardinality(Below(R, S, t))]
<1>1. Cardinality(S) \in Nat
  BY FS_CardinalityType
<1>2. IsFiniteSet(I) /\ Cardinality(I) = Cardinality(S)
  <2>1. IsFiniteSet(I) /\ Cardinality(I) = IF 0 > Cardinality(S) - 1 THEN 0
                                           ELSE (Cardinality(S) - 1) - 0 + 1
    BY <1>1, FS_Interval
  <2> QED
    BY <1>1, <2>1
<1>3. rank \in [S -> I]
  BY RankGrows
<1>4. \A t, u \in S : rank[t] = rank[u] => t = u
  <2> SUFFICES ASSUME NEW t \in S, NEW u \in S, rank[t] = rank[u], t # u PROVE FALSE
    OBVIOUS
  <2>1. rank[t] < rank[u] \/ rank[u] < rank[t]
    BY RankGrows DEF Orders
  <2>2. rank[t] \in Int /\ rank[u] \in Int
    BY <1>3
  <2> HIDE DEF rank
  <2> QED
    BY <2>1, <2>2
<1> HIDE DEF rank, I
<1>5. rank \in Injection(S, I)
  BY <1>3, <1>4 DEF Injection, IsInjective
<1>6. rank \in Surjection(S, I)
  BY <1>2, <1>5, FS_Injection
<1>7. \A i \in I : \E t \in S : rank[t] = i
  BY <1>6 DEF Surjection
<1> QED
  BY <1>7 DEF rank, I

(* order lists the members of S, each behind all that come before it. *)
Lists(order, S, R) ==
  /\ order \in Seq(S) /\ Len(order) = Cardinality(S)
  /\ \A t \in S : \E i \in 1..Len(order) : order[i] = t
  /\ \A i, j \in 1..Len(order) : i < j => <<order[i], order[j]>> \in R

LEMMA ListsByRank ==
  ASSUME NEW S, IsFiniteSet(S), NEW R, Orders(R, S), NEW order,
         order = [i \in 1..Cardinality(S) |-> order[i]],
         \A i \in 1..Cardinality(S) :
           order[i] \in S /\ Cardinality(Below(R, S, order[i])) = i - 1
  PROVE  Lists(order, S, R)
<1>1. Cardinality(S) \in Nat
  BY FS_CardinalityType
<1> DEFINE n == Cardinality(S)
<1>2. order \in Seq(S) /\ Len(order) = n
  BY <1>1
<1>3. \A t \in S : \E i \in 1..n : order[i] = t
  <2> SUFFICES ASSUME NEW t \in S PROVE \E i \in 1..n : order[i] = t
    OBVIOUS
  <2> DEFINE r == Cardinality(Below(R, S, t))
  <2>1. r \in 0..(n - 1)
    BY RankGrows
  <2>2. r + 1 \in 1..n /\ Cardinality(Below(R, S, order[r + 1])) = r /\ order[r + 1] \in S
    <3> HIDE DEF r
    <3>1. r + 1 \in 1..n /\ (r + 1) - 1 = r
      BY <1>1, <2>1
    <3> QED
      BY <3>1
  <2>3. order[r + 1] = t
    <3> SUFFICES ASSUME order[r + 1] # t PROVE FALSE
      OBVIOUS
    <3> DEFINE u == order[r + 1]
    <3>1. u \in S /\ Cardinality(Below(R, S, u)) = r
      BY <2>2
    <3>2. <<t, u>> \in R \/ <<u, t>> \in R
      BY <3>1 DEF Orders
    <3>3. Cardinality(Below(R, S, t)) = r
      OBVIOUS
    <3> HIDE DEF u, r
    <3>4. r < r
      BY <3>1, <3>2, <3>3, RankGrows
    <3> QED
      BY <2>1, <3>4
  <2> QED
    BY <2>2, <2>3
<1>4. ASSUME NEW i \in 1..n, NEW j \in 1..n, i < j PROVE <<order[i], order[j]>> \in R
  <2>1. /\ order[i] \in S /\ order[j] \in S
        /\ Cardinality(Below(R, S, order[i])) = i - 1
        /\ Cardinality(Below(R, S, order[j])) = j - 1
    OBVIOUS
  <2>2. order[i] # order[j] /\ ~(j - 1 < i - 1)
    BY <1>1, <1>4, <2>1
  <2>3. ~(<<order[j], order[i]>> \in R)
    BY <2>1, <2>2, RankGrows
  <2> QED
    BY <2>1, <2>2, <2>3 DEF Orders
<1> QED
  BY <1>2, <1>3, <1>4 DEF Lists

(* Transactions that sorted can compare: those that authentic wallets sign. *)
Comparable(S) ==
  S \subseteq Txs /\ \A t \in S : t.sender \in Int /\ t.nonce \in Int /\ t.fee \in Int

PoolPairs(S) == {p \in S \X S : PoolOrder(p[1], p[2])}
FeePairs(S) == {p \in S \X S : PaysMore(p[1], p[2])}

LEMMA PoolSorts ==
  ASSUME NEW S, IsFiniteSet(S), Comparable(S)
  PROVE  Lists(Sorted(S, PoolOrder), S, PoolPairs(S))
<1> DEFINE R == PoolPairs(S)
           order == Sorted(S, PoolOrder)
<1>1. \A t, u \in S : <<t, u>> \in R <=> PoolOrder(t, u)
  BY DEF PoolPairs
<1>2. \A t, u \in S : /\ t.sender \in Int /\ t.nonce \in Int /\ t.id \in Int
                      /\ t.id = u.id => t = u
  BY NodeAssumption DEF NodeAssumption, Comparable
<1>3. Orders(R, S)
  <2> HIDE DEF R
  <2> QED
    BY <1>1, <1>2 DEF Orders, PoolOrder
<1>4. \A t \in S : {u \in S : PoolOrder(u, t)} = Below(R, S, t)
  BY <1>1 DEF Below
<1>5. \A i \in 1..Cardinality(S) :
        order[i] = CHOOSE t \in S : Cardinality({u \in S : PoolOrder(u, t)}) = i - 1
  BY DEF Sorted
<1>6. order = [i \in 1..Cardinality(S) |-> order[i]]
  BY SMTT(20) DEF Sorted
<1>7. Cardinality(S) \in Nat
  BY FS_CardinalityType
<1> HIDE DEF R, order
<1>8. \A i \in 1..Cardinality(S) :
        order[i] \in S /\ Cardinality(Below(R, S, order[i])) = i - 1
  <2> SUFFICES ASSUME NEW i \in 1..Cardinality(S)
               PROVE  order[i] \in S /\ Cardinality(Below(R, S, order[i])) = i - 1
    OBVIOUS
  <2>1. i - 1 \in 0..(Cardinality(S) - 1)
    BY <1>7
  <2>2. \E t \in S : Cardinality(Below(R, S, t)) = i - 1
    BY <1>3, <2>1, RankReached
  <2>3. \E t \in S : Cardinality({u \in S : PoolOrder(u, t)}) = i - 1
    BY <1>4, <2>2
  <2>4. order[i] \in S /\ Cardinality({u \in S : PoolOrder(u, order[i])}) = i - 1
    BY <1>5, <2>3
  <2> QED
    BY <1>4, <2>4
<1> QED
  BY <1>3, <1>6, <1>8, ListsByRank DEF R, order

LEMMA FeeSorts ==
  ASSUME NEW S, IsFiniteSet(S), Comparable(S)
  PROVE  Lists(Sorted(S, PaysMore), S, FeePairs(S))
<1> DEFINE R == FeePairs(S)
           order == Sorted(S, PaysMore)
<1>1. \A t, u \in S : <<t, u>> \in R <=> PaysMore(t, u)
  BY DEF FeePairs
<1>2. \A t, u \in S : /\ t.fee \in Int /\ t.id \in Int
                      /\ t.id = u.id => t = u
  BY NodeAssumption DEF NodeAssumption, Comparable
<1>3. Orders(R, S)
  <2> HIDE DEF R
  <2> QED
    BY <1>1, <1>2 DEF Orders, PaysMore
<1>4. \A t \in S : {u \in S : PaysMore(u, t)} = Below(R, S, t)
  BY <1>1 DEF Below
<1>5. \A i \in 1..Cardinality(S) :
        order[i] = CHOOSE t \in S : Cardinality({u \in S : PaysMore(u, t)}) = i - 1
  BY DEF Sorted
<1>6. order = [i \in 1..Cardinality(S) |-> order[i]]
  <2> DEFINE C(i) == CHOOSE t \in S : Cardinality({u \in S : PaysMore(u, t)}) = i - 1
  <2>1. order = [i \in 1..Cardinality(S) |-> C(i)]
    BY DEF Sorted
  <2> HIDE DEF C, order
  <2> QED
    BY <2>1
<1>7. Cardinality(S) \in Nat
  BY FS_CardinalityType
<1> HIDE DEF R, order
<1>8. \A i \in 1..Cardinality(S) :
        order[i] \in S /\ Cardinality(Below(R, S, order[i])) = i - 1
  <2> SUFFICES ASSUME NEW i \in 1..Cardinality(S)
               PROVE  order[i] \in S /\ Cardinality(Below(R, S, order[i])) = i - 1
    OBVIOUS
  <2>1. i - 1 \in 0..(Cardinality(S) - 1)
    BY <1>7
  <2>2. \E t \in S : Cardinality(Below(R, S, t)) = i - 1
    BY <1>3, <2>1, RankReached
  <2>3. \E t \in S : Cardinality({u \in S : PaysMore(u, t)}) = i - 1
    BY <1>4, <2>2
  <2>4. order[i] \in S /\ Cardinality({u \in S : PaysMore(u, order[i])}) = i - 1
    BY <1>5, <2>3
  <2> QED
    BY <1>4, <2>4
<1> QED
  BY <1>3, <1>6, <1>8, ListsByRank DEF R, order

-----------------------------------------------------------------------------
(***************************************************************************)
(* Adding the transactions of a sequence: after[i] is the pool when i of   *)
(* them have been tried.                                                   *)
(***************************************************************************)
AddsInTurn(after, p, st, txs, height) ==
  /\ after[0] = p
  /\ \A i \in 1..Len(txs) : after[i] = Add(after[i - 1], st, txs[i], height)

(* The fold on the sets of positions, as MapThenFoldSet takes it. *)
IsFold(g, p, st, txs, height) ==
  g = [T \in SUBSET DOMAIN txs |->
         IF T = {} THEN p ELSE Add(g[T \ {Max(T)}], st, txs[Max(T)], height)]

LEMMA MaxFacts ==
  ASSUME NEW n \in Nat, NEW T \in SUBSET (1..n), T # {}
  PROVE  /\ Max(T) \in T /\ T \ {Max(T)} \in SUBSET (1..n)
         /\ IsFiniteSet(T) /\ Cardinality(T \ {Max(T)}) \in Nat
         /\ Cardinality(T) = Cardinality(T \ {Max(T)}) + 1
<1> DEFINE U == {n - x : x \in T}
<1>1. U \in SUBSET Nat /\ U # {}
  <2>1. \A x \in T : n - x \in Nat
    OBVIOUS
  <2> QED
    BY <2>1
<1>2. PICK y \in U : \A z \in U : y <= z
  BY <1>1, NatMin
<1>3. n - y \in T /\ \A x \in T : n - y >= x
  BY <1>2
<1>4. Max(T) \in T
  BY <1>3 DEF Max
<1>5. IsFiniteSet(T)
  <2>1. IsFiniteSet(1..n)
    BY FS_Interval
  <2> QED
    BY <2>1, FS_Subset
<1>6. /\ IsFiniteSet(T \ {Max(T)})
      /\ Cardinality(T \ {Max(T)}) = Cardinality(T) - 1
  BY <1>4, <1>5, FS_RemoveElement
<1>7. Cardinality(T) \in Nat /\ Cardinality(T \ {Max(T)}) \in Nat
  BY <1>5, <1>6, FS_CardinalityType
<1>8. Cardinality(T) = Cardinality(T \ {Max(T)}) + 1
  <2> HIDE DEF U
  <2> QED
    BY <1>6, <1>7
<1> QED
  BY <1>4, <1>5, <1>7, <1>8, Zenon

LEMMA FoldExists ==
  ASSUME NEW p, NEW st, NEW txs, NEW height, NEW S, txs \in Seq(S)
  PROVE  \E g : IsFold(g, p, st, txs, height)
<1> DEFINE n == Len(txs)
           Step(x, i) == Add(x, st, txs[i], height)
           Body(g, T) == IF T = {} THEN p ELSE Step(g[T \ {Max(T)}], Max(T))
           Upto(g, m) == \A T \in SUBSET (1..n) : Cardinality(T) <= m => g[T] = Body(g, T)
           H == {m \in Nat : \E g : Upto(g, m)}
<1>1. n \in Nat /\ DOMAIN txs = 1..n
  OBVIOUS
<1> HIDE DEF n, Step
<1>2. \A T \in SUBSET (1..n) : T # {} =>
        /\ T \ {Max(T)} \in SUBSET (1..n) /\ Cardinality(T \ {Max(T)}) \in Nat
        /\ Cardinality(T) = Cardinality(T \ {Max(T)}) + 1
  BY <1>1, MaxFacts
<1>3. 0 \in H
  <2> DEFINE g == [T \in SUBSET (1..n) |-> p]
  <2>1. Upto(g, 0)
    <3> SUFFICES ASSUME NEW T \in SUBSET (1..n), Cardinality(T) <= 0 PROVE g[T] = Body(g, T)
      OBVIOUS
    <3>1. T = {}
      <4> SUFFICES ASSUME T # {} PROVE FALSE
        OBVIOUS
      <4>1. Cardinality(T \ {Max(T)}) + 1 <= 0 /\ Cardinality(T \ {Max(T)}) \in Nat
        BY <1>2
      <4> QED
        BY <4>1
    <3> QED
      BY <3>1
  <2> HIDE DEF g, Upto
  <2> QED
    BY <2>1
<1>4. ASSUME NEW m \in Nat, m \in H PROVE m + 1 \in H
  <2>1. PICK g : Upto(g, m)
    BY <1>4
  <2> DEFINE h == [T \in SUBSET (1..n) |-> IF Cardinality(T) <= m THEN g[T] ELSE Body(g, T)]
  <2>2. Upto(h, m + 1)
    <3> SUFFICES ASSUME NEW T \in SUBSET (1..n), Cardinality(T) <= m + 1
                 PROVE  h[T] = Body(h, T)
      OBVIOUS
    <3>1. h[T] = Body(g, T)
      BY <2>1
    <3>2. CASE T = {}
      BY <3>1, <3>2
    <3>3. CASE T # {}
      <4> DEFINE U == T \ {Max(T)}
      <4>1. U \in SUBSET (1..n) /\ Cardinality(U) <= m
        BY <1>2, <3>3
      <4>2. h[U] = g[U]
        <5> HIDE DEF U
        <5> QED
          BY <4>1
      <4> QED
        BY <3>1, <3>3, <4>2
    <3> QED
      BY <3>2, <3>3
  <2> HIDE DEF h, Upto
  <2> QED
    BY <2>2
<1>5. Nat \subseteq H
  <2> HIDE DEF H
  <2> QED
    BY <1>3, <1>4, Induction
<1>6. PICK g : Upto(g, n)
  BY <1>1, <1>5
<1>7. \A T \in SUBSET (1..n) : Cardinality(T) <= n
  <2>1. IsFiniteSet(1..n) /\ Cardinality(1..n) = n
    <3>1. IsFiniteSet(1..n) /\ Cardinality(1..n) = IF 1 > n THEN 0 ELSE n - 1 + 1
      BY <1>1, FS_Interval
    <3> QED
      BY <1>1, <3>1
  <2> QED
    BY <2>1, FS_Subset
<1> DEFINE f == [T \in SUBSET (1..n) |-> g[T]]
<1>8. \A T \in SUBSET (1..n) : f[T] = Body(f, T)
  <2> SUFFICES ASSUME NEW T \in SUBSET (1..n) PROVE f[T] = Body(f, T)
    OBVIOUS
  <2>1. f[T] = Body(g, T)
    BY <1>6, <1>7
  <2>2. CASE T = {}
    BY <2>1, <2>2
  <2>3. CASE T # {}
    <3> DEFINE U == T \ {Max(T)}
    <3>1. U \in SUBSET (1..n)
      BY <1>2, <2>3
    <3>2. f[U] = g[U]
      <4> HIDE DEF U
      <4> QED
        BY <3>1
    <3> QED
      BY <2>1, <2>3, <3>2
  <2> QED
    BY <2>2, <2>3
<1>9. f = [T \in SUBSET DOMAIN txs |-> Body(f, T)]
  <2>1. f = [T \in SUBSET (1..n) |-> f[T]]
    OBVIOUS
  <2> HIDE DEF f, Body
  <2> QED
    BY <1>1, <1>8, <2>1
<1> HIDE DEF f
<1> QED
  BY <1>9 DEF IsFold, Step

LEMMA FoldInTurn ==
  ASSUME NEW p, NEW st, NEW txs, NEW height, NEW S, txs \in Seq(S),
         NEW g, IsFold(g, p, st, txs, height)
  PROVE  \E after : /\ AddsInTurn(after, p, st, txs, height)
                    /\ g[DOMAIN txs] = after[Len(txs)]
<1> DEFINE n == Len(txs)
           after == [i \in 0..n |-> g[1..i]]
<1>1. n \in Nat /\ DOMAIN txs = 1..n
  OBVIOUS
<1>2. \A T \in SUBSET (1..n) :
        g[T] = IF T = {} THEN p ELSE Add(g[T \ {Max(T)}], st, txs[Max(T)], height)
  BY <1>1 DEF IsFold
<1> HIDE DEF n
<1>3. after[0] = p
  <2>1. 1..0 = {} /\ 1..0 \in SUBSET (1..n) /\ 0 \in 0..n
    BY <1>1
  <2> QED
    BY <1>2, <2>1
<1>4. ASSUME NEW i \in 1..n PROVE after[i] = Add(after[i - 1], st, txs[i], height)
  <2>1. 1..i \in SUBSET (1..n) /\ 1..i # {} /\ i \in 0..n /\ i - 1 \in 0..n
    BY <1>1
  <2>2. Max(1..i) = i
    <3>1. Max(1..i) \in 1..i /\ \A y \in 1..i : Max(1..i) >= y
      <4>1. i \in 1..i /\ \A y \in 1..i : i >= y
        BY <1>1
      <4> QED
        BY <4>1 DEF Max
    <3>2. i \in 1..i
      BY <1>1
    <3>3. Max(1..i) >= i /\ Max(1..i) <= i
      BY <3>1, <3>2
    <3> QED
      BY <3>1, <3>3
  <2>3. (1..i) \ {i} = 1..(i - 1)
    BY <1>1
  <2>4. g[1..i] = Add(g[(1..i) \ {Max(1..i)}], st, txs[Max(1..i)], height)
    BY <1>2, <2>1
  <2>5. g[1..i] = Add(g[1..(i - 1)], st, txs[i], height)
    BY <2>2, <2>3, <2>4
  <2> QED
    BY <2>1, <2>5
<1>5. g[DOMAIN txs] = after[n]
  BY <1>1
<1> HIDE DEF after
<1> QED
  BY <1>3, <1>4, <1>5 DEF AddsInTurn, n

(* add refuses what is confirmed or pending, so that the tests of the last loop
   of submit_block only save the attempt. *)
LEMMA ReturnIsAdd == \A p, st, tx, height : Return(p, st, tx, height) = Add(p, st, tx, height)
BY DEF Return, Add, Admits

LEMMA AddEachInTurn ==
  ASSUME NEW p, NEW st, NEW txs, NEW height, NEW S, txs \in Seq(S)
  PROVE  \E after : /\ AddsInTurn(after, p, st, txs, height)
                    /\ AddEach(p, st, txs, height) = after[Len(txs)]
<1> DEFINE Body(g, T) == IF T = {} THEN p ELSE Add(g[T \ {Max(T)}], st, txs[Max(T)], height)
<1>1. \A g : IsFold(g, p, st, txs, height) <=> g = [T \in SUBSET DOMAIN txs |-> Body(g, T)]
  BY DEF IsFold
<1>2. \E g : g = [T \in SUBSET DOMAIN txs |-> Body(g, T)]
  BY <1>1, FoldExists
<1>3. \E g : /\ g = [T \in SUBSET DOMAIN txs |-> Body(g, T)]
             /\ AddEach(p, st, txs, height) = g[DOMAIN txs]
  BY <1>2, Zenon DEF AddEach, FoldLeft, MapThenFoldSet
<1> HIDE DEF Body
<1>4. PICK g : IsFold(g, p, st, txs, height) /\ AddEach(p, st, txs, height) = g[DOMAIN txs]
  BY <1>1, <1>3
<1> QED
  BY <1>4, FoldInTurn

LEMMA ReturnEachInTurn ==
  ASSUME NEW p, NEW st, NEW txs, NEW height, NEW S, txs \in Seq(S)
  PROVE  \E after : /\ AddsInTurn(after, p, st, txs, height)
                    /\ ReturnEach(p, st, txs, height) = after[Len(txs)]
<1> DEFINE Body(g, T) == IF T = {} THEN p ELSE Add(g[T \ {Max(T)}], st, txs[Max(T)], height)
           Again(g, T) == IF T = {} THEN p ELSE Return(g[T \ {Max(T)}], st, txs[Max(T)], height)
<1>1. \A g : IsFold(g, p, st, txs, height) <=> g = [T \in SUBSET DOMAIN txs |-> Body(g, T)]
  BY DEF IsFold
<1>2. \A g, T : Again(g, T) = Body(g, T)
  BY ReturnIsAdd
<1>3. \A g : [T \in SUBSET DOMAIN txs |-> Again(g, T)] = [T \in SUBSET DOMAIN txs |-> Body(g, T)]
  <2> HIDE DEF Again, Body
  <2> QED
    BY <1>2
<1>4. \E g : g = [T \in SUBSET DOMAIN txs |-> Again(g, T)]
  <2> HIDE DEF Again, Body
  <2>1. PICK g : IsFold(g, p, st, txs, height)
    BY FoldExists
  <2>2. g = [T \in SUBSET DOMAIN txs |-> Again(g, T)]
    BY <1>1, <1>3, <2>1
  <2> QED
    BY <2>2
<1>5. \E g : /\ g = [T \in SUBSET DOMAIN txs |-> Again(g, T)]
             /\ ReturnEach(p, st, txs, height) = g[DOMAIN txs]
  BY <1>4, Zenon DEF ReturnEach, FoldLeft, MapThenFoldSet
<1> HIDE DEF Body, Again
<1>6. PICK g : IsFold(g, p, st, txs, height) /\ ReturnEach(p, st, txs, height) = g[DOMAIN txs]
  BY <1>1, <1>3, <1>5
<1> QED
  BY <1>6, FoldInTurn

-----------------------------------------------------------------------------
(***************************************************************************)
(* Sums, whichever member of the set is taken first.                       *)
(***************************************************************************)
LEMMA SumRemove ==
  ASSUME NEW S, IsFiniteSet(S), NEW f \in [S -> Int], NEW sum, IsSum(sum, f, S)
  PROVE  \A T \in SUBSET S : /\ sum[T] \in Int
                             /\ \A x \in T : sum[T] = f[x] + sum[T \ {x}]
<1> DEFINE Good(T) == \A x \in T : sum[T] = f[x] + sum[T \ {x}]
           H == {n \in Nat : \A T \in SUBSET S : Cardinality(T) = n => Good(T)}
<1>1. \A T \in SUBSET S : sum[T] = IF T = {} THEN 0 ELSE f[First(T)] + sum[T \ {First(T)}]
  BY DEF IsSum
<1>2. \A T \in SUBSET S : sum[T] \in Int
  <2>1. \A x \in S : x # S => f[x] = f[x]
    OBVIOUS
  <2> QED
    BY <2>1, SumShift
<1>3. 0 \in H
  <2> SUFFICES ASSUME NEW T \in SUBSET S, Cardinality(T) = 0 PROVE Good(T)
    OBVIOUS
  <2>1. T = {}
    BY EmptyFacts
  <2> QED
    BY <2>1
<1>4. ASSUME NEW n \in Nat, n \in H PROVE n + 1 \in H
  <2> SUFFICES ASSUME NEW T \in SUBSET S, Cardinality(T) = n + 1, NEW x \in T
               PROVE  sum[T] = f[x] + sum[T \ {x}]
    OBVIOUS
  <2> DEFINE y == First(T)
  <2>1. y \in T /\ Cardinality(T \ {y}) = n /\ sum[T] = f[y] + sum[T \ {y}]
    BY <1>1, FirstFacts
  <2>2. CASE x = y
    BY <2>1, <2>2
  <2>3. CASE x # y
    <3> DEFINE U == (T \ {x}) \ {y}
    <3>1. /\ T \ {x} \in SUBSET S /\ T \ {y} \in SUBSET S /\ U \in SUBSET S
          /\ U = (T \ {y}) \ {x} /\ y \in T \ {x} /\ x \in T \ {y}
      BY <2>1, <2>3
    <3>2. Cardinality(T \ {x}) = n
      <4>1. IsFiniteSet(T)
        BY FS_Subset
      <4>2. Cardinality(T \ {x}) = Cardinality(T) - 1
        BY <4>1, FS_RemoveElement
      <4> QED
        BY <4>2
    <3>3. Good(T \ {x}) /\ Good(T \ {y})
      BY <1>4, <2>1, <3>1, <3>2
    <3>4. sum[T \ {x}] = f[y] + sum[U] /\ sum[T \ {y}] = f[x] + sum[U]
      BY <3>1, <3>3
    <3>5. f[x] \in Int /\ f[y] \in Int /\ sum[U] \in Int
      BY <1>2, <2>1, <3>1
    <3> HIDE DEF U, y
    <3> QED
      BY <2>1, <3>4, <3>5
  <2> QED
    BY <2>2, <2>3
<1>5. Nat \subseteq H
  <2> HIDE DEF H
  <2> QED
    BY <1>3, <1>4, Induction
<1>6. \A T \in SUBSET S : Cardinality(T) \in Nat
  BY FS_Subset, FS_CardinalityType
<1> QED
  BY <1>2, <1>5, <1>6

LEMMA SumIsNatural ==
  ASSUME NEW S, IsFiniteSet(S), NEW f \in [S -> Nat], NEW sum, IsSum(sum, f, S)
  PROVE  \A T \in SUBSET S : sum[T] \in Nat
<1> DEFINE H == {n \in Nat : \A T \in SUBSET S : Cardinality(T) = n => sum[T] \in Nat}
<1>1. \A T \in SUBSET S : sum[T] = IF T = {} THEN 0 ELSE f[First(T)] + sum[T \ {First(T)}]
  BY DEF IsSum
<1>2. 0 \in H
  <2> SUFFICES ASSUME NEW T \in SUBSET S, Cardinality(T) = 0 PROVE sum[T] \in Nat
    OBVIOUS
  <2>1. T = {}
    BY EmptyFacts
  <2>2. sum[{}] = 0
    BY <1>1
  <2> QED
    BY <2>1, <2>2
<1>3. ASSUME NEW n \in Nat, n \in H PROVE n + 1 \in H
  <2> SUFFICES ASSUME NEW T \in SUBSET S, Cardinality(T) = n + 1 PROVE sum[T] \in Nat
    OBVIOUS
  <2>1. T # {}
    BY FS_EmptySet
  <2> DEFINE y == First(T)
  <2>2. y \in T /\ T \ {y} \in SUBSET S /\ Cardinality(T \ {y}) = n /\ sum[T] = f[y] + sum[T \ {y}]
    BY <1>1, <2>1, FirstFacts
  <2>3. sum[T \ {y}] \in Nat /\ f[y] \in Nat
    BY <1>3, <2>2
  <2> HIDE DEF y
  <2> QED
    BY <2>2, <2>3
<1>4. Nat \subseteq H
  <2> HIDE DEF H
  <2> QED
    BY <1>2, <1>3, Induction
<1>5. \A T \in SUBSET S : Cardinality(T) \in Nat
  BY FS_Subset, FS_CardinalityType
<1> QED
  BY <1>4, <1>5

(* The sum over T does not depend on the set the summands are given for. *)
LEMMA SumAgrees ==
  ASSUME NEW S, IsFiniteSet(S), NEW f \in [S -> Int], NEW sf, IsSum(sf, f, S),
         NEW R, R \in SUBSET S, NEW g \in [R -> Int], NEW sg, IsSum(sg, g, R),
         \A x \in R : f[x] = g[x]
  PROVE  \A T \in SUBSET R : sf[T] = sg[T]
<1> DEFINE H == {n \in Nat : \A T \in SUBSET R : Cardinality(T) = n => sf[T] = sg[T]}
<1>1. \A T \in SUBSET R :
        /\ sf[T] = IF T = {} THEN 0 ELSE f[First(T)] + sf[T \ {First(T)}]
        /\ sg[T] = IF T = {} THEN 0 ELSE g[First(T)] + sg[T \ {First(T)}]
  BY DEF IsSum
<1>2. IsFiniteSet(R)
  BY FS_Subset
<1>3. 0 \in H
  <2> SUFFICES ASSUME NEW T \in SUBSET R, Cardinality(T) = 0 PROVE sf[T] = sg[T]
    OBVIOUS
  <2>1. T = {}
    BY <1>2, EmptyFacts
  <2> QED
    BY <1>1, <2>1
<1>4. ASSUME NEW n \in Nat, n \in H PROVE n + 1 \in H
  <2> SUFFICES ASSUME NEW T \in SUBSET R, Cardinality(T) = n + 1 PROVE sf[T] = sg[T]
    OBVIOUS
  <2>1. T # {}
    BY FS_EmptySet
  <2> DEFINE y == First(T)
  <2>2. y \in T /\ T \ {y} \in SUBSET R /\ Cardinality(T \ {y}) = n
    BY <1>2, <2>1, FirstFacts
  <2>3. sf[T] = f[y] + sf[T \ {y}] /\ sg[T] = g[y] + sg[T \ {y}]
    BY <1>1, <2>1
  <2>4. sf[T \ {y}] = sg[T \ {y}] /\ f[y] = g[y]
    BY <1>4, <2>2
  <2> HIDE DEF y
  <2> QED
    BY <2>3, <2>4
<1>5. Nat \subseteq H
  <2> HIDE DEF H
  <2> QED
    BY <1>3, <1>4, Induction
<1>6. \A T \in SUBSET R : Cardinality(T) \in Nat
  BY <1>2, FS_Subset, FS_CardinalityType
<1> QED
  BY <1>5, <1>6

(* What a set of transactions costs. *)
Priced(S) == IsFiniteSet(S) /\ \A t \in S : t.amount \in Nat /\ t.fee \in Nat
Price(S) == [t \in S |-> t.amount + t.fee]

LEMMA CostIsSum ==
  ASSUME NEW S, Priced(S)
  PROVE  /\ Price(S) \in [S -> Int] /\ Price(S) \in [S -> Nat]
         /\ \E sum : IsSum(sum, Price(S), S) /\ CostOf(S) = sum[S]
<1>1. Price(S) \in [S -> Int] /\ Price(S) \in [S -> Nat] /\ IsFiniteSet(S)
  BY DEF Priced, Price
<1> DEFINE Body(sum, T) ==
             IF T = {} THEN 0
             ELSE (CHOOSE x \in T : TRUE).amount + (CHOOSE x \in T : TRUE).fee
                    + sum[T \ {CHOOSE x \in T : TRUE}]
<1>2. PICK sum : IsSum(sum, Price(S), S)
  BY <1>1, SumExists
<1>3. \A T \in SUBSET S : T # {} =>
        Price(S)[First(T)] = (CHOOSE x \in T : TRUE).amount + (CHOOSE x \in T : TRUE).fee
  BY <1>1, FirstFacts DEF Price, First
<1>4. \A g : g = [T \in SUBSET S |-> Body(g, T)] => IsSum(g, Price(S), S)
  BY <1>3 DEF IsSum, First
<1>5. sum = [T \in SUBSET S |-> Body(sum, T)]
  BY <1>2, <1>3 DEF IsSum, First
<1>6. \E g : g = [T \in SUBSET S |-> Body(g, T)] /\ CostOf(S) = g[S]
  BY <1>5, Zenon DEF CostOf, MapThenSumSet, MapThenFoldSet
<1> QED
  BY <1>1, <1>4, <1>6

LEMMA CostOfNone == CostOf({}) = 0
<1>1. Priced({})
  BY FS_EmptySet DEF Priced
<1>2. PICK sum : IsSum(sum, Price({}), {}) /\ CostOf({}) = sum[{}]
  BY <1>1, CostIsSum
<1> QED
  BY <1>2 DEF IsSum

LEMMA CostAdds ==
  ASSUME NEW S, NEW x, x \notin S, Priced(S \cup {x})
  PROVE  /\ CostOf(S) \in Nat
         /\ CostOf(S \cup {x}) = CostOf(S) + x.amount + x.fee
<1> DEFINE W == S \cup {x}
<1>1. Priced(S) /\ S \in SUBSET W /\ x \in W /\ W \in SUBSET W /\ S \in SUBSET S
  <2>1. IsFiniteSet(S)
    BY FS_Subset DEF Priced
  <2> QED
    BY <2>1 DEF Priced
<1>2. W \ {x} = S
  OBVIOUS
<1>3. PICK sw : IsSum(sw, Price(W), W) /\ CostOf(W) = sw[W]
  BY CostIsSum
<1>4. PICK ss : IsSum(ss, Price(S), S) /\ CostOf(S) = ss[S]
  BY <1>1, CostIsSum
<1>5. /\ Price(W) \in [W -> Int] /\ Price(S) \in [S -> Int] /\ Price(S) \in [S -> Nat]
      /\ IsFiniteSet(W) /\ IsFiniteSet(S)
  BY <1>1, CostIsSum DEF Priced
<1>6. \A t \in S : Price(W)[t] = Price(S)[t]
  BY DEF Price
<1>7. Price(W)[x] = x.amount + x.fee /\ x.amount \in Nat /\ x.fee \in Nat
  BY DEF Price, Priced
<1> HIDE DEF W
<1>8. sw[W] = Price(W)[x] + sw[W \ {x}]
  <2> DEFINE f == Price(W)
  <2>1. IsSum(sw, f, W) /\ f \in [W -> Int] /\ IsFiniteSet(W)
    BY <1>3, <1>5
  <2> HIDE DEF f
  <2>2. \A T \in SUBSET W : /\ sw[T] \in Int
                             /\ \A y \in T : sw[T] = f[y] + sw[T \ {y}]
    BY <2>1, SumRemove
  <2>3. sw[W] = f[x] + sw[W \ {x}]
    BY <1>1, <2>2
  <2> QED
    BY <2>3 DEF f
<1>9. sw[S] = ss[S]
  BY <1>1, <1>3, <1>4, <1>5, <1>6, SumAgrees
<1>10. ss[S] \in Nat
  BY <1>1, <1>4, <1>5, SumIsNatural
<1>11. CostOf(W) = CostOf(S) + x.amount + x.fee /\ CostOf(S) \in Nat
  <2> DEFINE c == CostOf(S)
             d == CostOf(W)
  <2>1. c \in Nat /\ d = Price(W)[x] + c
    BY <1>2, <1>3, <1>4, <1>8, <1>9, <1>10
  <2> HIDE DEF c, d
  <2>2. d = c + x.amount + x.fee
    BY <1>7, <2>1
  <2> QED
    BY <2>1, <2>2 DEF c, d
<1> QED
  BY <1>11 DEF W

(* One account, or two together, hold no more than all do. *)
LEMMA BalancesBounded ==
  ASSUME NEW t \in Table, NEW a \in Addresses
  PROVE  /\ t[a].balance \in Nat /\ t[a].nonce \in Nat /\ Total(t) \in Nat
         /\ t[a].balance <= Total(t)
         /\ \A b \in Addresses : b # a => t[a].balance + t[b].balance <= Total(t)
<1>1. IsFiniteSet(Addresses) /\ U64Max \in Nat
  BY LedgerAssumption DEF LedgerAssumption
<1>2. \A x \in Addresses : t[x].balance \in Nat /\ t[x].nonce \in Nat
  BY <1>1 DEF Table, Account
<1>3. PICK sum : IsSum(sum, Balance(t), Addresses) /\ Total(t) = sum[Addresses]
  BY TotalIsSum
<1>4. Balance(t) \in [Addresses -> Int] /\ Balance(t) \in [Addresses -> Nat]
  BY <1>2 DEF Balance
<1>5. \A x \in Addresses : Balance(t)[x] = t[x].balance
  BY DEF Balance
<1>6. \A T \in SUBSET Addresses : /\ sum[T] \in Nat
                                  /\ \A x \in T : sum[T] = Balance(t)[x] + sum[T \ {x}]
  BY <1>1, <1>3, <1>4, SumIsNatural, SumRemove
<1>7. ASSUME NEW b \in Addresses, b # a PROVE t[a].balance + t[b].balance <= Total(t)
  <2> DEFINE T == Addresses \ {a}
  <2>1. Addresses \in SUBSET Addresses /\ T \in SUBSET Addresses /\ b \in T
        /\ T \ {b} \in SUBSET Addresses
    BY <1>7
  <2>2. sum[Addresses] = t[a].balance + sum[T]
    BY <1>5, <1>6, <2>1
  <2>3. sum[T] = t[b].balance + sum[T \ {b}] /\ sum[T \ {b}] \in Nat
    <3> HIDE DEF T
    <3> QED
      BY <1>5, <1>6, <2>1
  <2> HIDE DEF T
  <2> QED
    BY <1>2, <1>3, <2>2, <2>3
<1>8. Total(t) \in Nat /\ t[a].balance <= Total(t)
  <2>1. sum[Addresses] = t[a].balance + sum[Addresses \ {a}]
        /\ sum[Addresses \ {a}] \in Nat
    BY <1>5, <1>6
  <2> QED
    BY <1>2, <1>3, <2>1
<1> QED
  BY <1>2, <1>7, <1>8

-----------------------------------------------------------------------------
(***************************************************************************)
(* The pool on the state it was admitted to.                               *)
(***************************************************************************)
From(S, a) == {t \in S : t.sender = a}

(* The transactions of S could execute on st one after the other: each sender's
   go on from its account nonce without a gap and are funded together. *)
Queue(S, st, height) ==
  /\ S \subseteq Txs /\ IsFiniteSet(S)
  /\ \A t \in S : ValidTransaction(t, height) /\ t \notin st.confirmed
  /\ \A t, u \in S : t.sender = u.sender /\ t.nonce = u.nonce => t = u
  /\ \A a \in Addresses :
       LET first == st.accounts[a].nonce
           count == Cardinality(From(S, a))
       IN  /\ {t.nonce : t \in From(S, a)} = first..(first + count - 1)
           /\ CostOf(From(S, a)) <= st.accounts[a].balance

Indexed(p) ==
  /\ DOMAIN p.index = {<<t.sender, t.nonce>> : t \in p.txs}
  /\ \A t \in p.txs : p.index[<<t.sender, t.nonce>>] = t

Limited(p) ==
  /\ Cardinality(p.txs) <= MaxPool
  /\ \A a \in Addresses : Cardinality(SenderTxs(p, a)) <= MaxPendingPerSender

Ready(p, st, height) == Queue(p.txs, st, height) /\ Indexed(p) /\ Limited(p)

LEMMA AmountsTyped ==
  ASSUME NEW t, NEW height, ValidTransaction(t, height)
  PROVE  t.authentic /\ t.amount \in Nat /\ t.fee \in Nat /\ t.nonce \in Nat
BY LedgerAssumption DEF LedgerAssumption, ValidTransaction

LEMMA TxNamesAddresses ==
  ASSUME NEW t \in Txs, NEW height, ValidTransaction(t, height)
  PROVE  NamesAddresses(t) /\ t.sender \in Addresses /\ t.sender \in Int
BY NodeAssumption DEF NodeAssumption, ValidTransaction, NamesAddresses

LEMMA QueueFacts ==
  ASSUME NEW S, NEW st, NEW height, Queue(S, st, height)
  PROVE  /\ Comparable(S) /\ Priced(S) /\ \A t \in S : t.sender \in Addresses
         /\ \A a : IsFiniteSet(From(S, a)) /\ Priced(From(S, a))
                   /\ Cardinality(From(S, a)) \in Nat
<1>1. \A t \in S : /\ t.amount \in Nat /\ t.fee \in Nat /\ t.nonce \in Nat
                   /\ t.sender \in Addresses /\ t.sender \in Int
  BY AmountsTyped, TxNamesAddresses DEF Queue
<1>2. S \subseteq Txs /\ IsFiniteSet(S)
  BY DEF Queue
<1>3. Comparable(S) /\ Priced(S)
  BY <1>1, <1>2 DEF Comparable, Priced
<1>4. ASSUME NEW a PROVE IsFiniteSet(From(S, a)) /\ Priced(From(S, a))
                         /\ Cardinality(From(S, a)) \in Nat
  <2>1. From(S, a) \in SUBSET S
    BY DEF From
  <2>2. IsFiniteSet(From(S, a)) /\ Cardinality(From(S, a)) \in Nat
    BY <1>2, <2>1, FS_Subset, FS_CardinalityType
  <2> QED
    BY <1>1, <2>1, <2>2 DEF Priced
<1> QED
  BY <1>1, <1>3, <1>4

LEMMA QueueOfNone ==
  ASSUME NEW st, st.accounts \in Table, NEW height
  PROVE  Queue({}, st, height)
<1>1. \A a : From({}, a) = {}
  BY DEF From
<1>2. \A a \in Addresses : st.accounts[a].nonce \in Nat /\ st.accounts[a].balance \in Nat
  BY BalancesBounded
<1>3. \A a \in Addresses : {t.nonce : t \in {}} = st.accounts[a].nonce..(st.accounts[a].nonce + 0 - 1)
  BY <1>2
<1> QED
  BY <1>1, <1>2, <1>3, CostOfNone, FS_EmptySet DEF Queue

(* What add admits is the next of its sender. *)
LEMMA QueueGrows ==
  ASSUME NEW st, st.accounts \in Table, NEW height, NEW S, Queue(S, st, height),
         NEW x \in Txs, x \notin S, x \notin st.confirmed, ValidTransaction(x, height),
         x.nonce = st.accounts[x.sender].nonce + Cardinality(From(S, x.sender)),
         CostOf(From(S, x.sender)) + x.amount + x.fee <= st.accounts[x.sender].balance
  PROVE  Queue(S \cup {x}, st, height)
<1> DEFINE W == S \cup {x}
           s == x.sender
           F == From(S, s)
           first == st.accounts[s].nonce
           c == Cardinality(F)
<1>1. /\ x.amount \in Nat /\ x.fee \in Nat /\ x.nonce \in Nat /\ s \in Addresses
  BY AmountsTyped, TxNamesAddresses
<1>2. IsFiniteSet(F) /\ Priced(F) /\ c \in Nat /\ F \subseteq S
  BY QueueFacts DEF From
<1>3. first \in Nat
  BY <1>1, BalancesBounded
<1>4. From(W, s) = F \cup {x} /\ x \notin F /\ \A a : a # s => From(W, a) = From(S, a)
  BY DEF From
<1>5. {t.nonce : t \in F} = first..(first + c - 1)
  BY <1>1 DEF Queue
<1> HIDE DEF first, c
<1>6. \A t \in F : t.nonce # x.nonce
  <2>1. \A t \in F : t.nonce \in first..(first + c - 1)
    BY <1>5
  <2>2. x.nonce = first + c
    BY DEF first, c
  <2>3. ~(first + c \in first..(first + c - 1))
    BY <1>2, <1>3
  <2> QED
    BY <2>1, <2>2, <2>3
<1>7. /\ IsFiniteSet(F \cup {x}) /\ Cardinality(F \cup {x}) = c + 1 /\ Priced(F \cup {x})
  <2>1. IsFiniteSet(F \cup {x}) /\ Cardinality(F \cup {x}) = c + 1
    <3> HIDE DEF F
    <3> QED
      BY <1>2, <1>4, FS_AddElement DEF c
  <2> QED
    BY <1>1, <1>2, <2>1 DEF Priced
<1>8. {t.nonce : t \in F \cup {x}} = first..(first + (c + 1) - 1)
  <2>1. {t.nonce : t \in F \cup {x}} = {t.nonce : t \in F} \cup {x.nonce}
    OBVIOUS
  <2>2. x.nonce = first + c
    BY DEF first, c
  <2>3. first..(first + c - 1) \cup {first + c} = first..(first + (c + 1) - 1)
    BY <1>2, <1>3
  <2> QED
    BY <1>5, <2>1, <2>2, <2>3
<1>9. CostOf(F \cup {x}) <= st.accounts[s].balance
  <2>1. CostOf(F \cup {x}) = CostOf(F) + x.amount + x.fee
    <3> HIDE DEF F
    <3> QED
      BY <1>4, <1>7, CostAdds
  <2> QED
    BY <2>1
<1>10. S \subseteq Txs /\ IsFiniteSet(S) /\ IsFiniteSet(W)
  <2>1. IsFiniteSet(S)
    BY DEF Queue
  <2> QED
    BY <2>1, FS_AddElement DEF Queue
<1>11. \A t \in W : ValidTransaction(t, height) /\ t \notin st.confirmed
  BY DEF Queue
<1>12. \A t, u \in W : t.sender = u.sender /\ t.nonce = u.nonce => t = u
  <2>1. \A t \in S : t.sender = s => t \in F
    BY DEF From
  <2> HIDE DEF F
  <2> QED
    BY <1>6, <2>1 DEF Queue
<1>13. ASSUME NEW a \in Addresses
       PROVE  LET n == st.accounts[a].nonce
                  k == Cardinality(From(W, a))
              IN  /\ {t.nonce : t \in From(W, a)} = n..(n + k - 1)
                  /\ CostOf(From(W, a)) <= st.accounts[a].balance
  <2>1. CASE a = s
    <3> HIDE DEF W, F
    <3> QED
      BY <1>4, <1>7, <1>8, <1>9, <2>1 DEF first
  <2>2. CASE a # s
    <3>1. From(W, a) = From(S, a)
      BY <1>4, <2>2
    <3> HIDE DEF W
    <3> QED
      BY <3>1 DEF Queue
  <2> QED
    BY <2>1, <2>2
<1> QED
  BY <1>10, <1>11, <1>12, <1>13 DEF Queue

LEMMA AddKeepsReady ==
  ASSUME NEW st, st.accounts \in Table, NEW height, NEW p, Ready(p, st, height), NEW x \in Txs
  PROVE  Ready(Add(p, st, x, height), st, height)
<1>1. CASE ~Admits(p, st, x, height)
  BY <1>1 DEF Add
<1>2. CASE Admits(p, st, x, height)
  <2> DEFINE q == Insert(p, x)
             key == <<x.sender, x.nonce>>
  <2>1. Add(p, st, x, height) = q
    BY <1>2 DEF Add
  <2>2. /\ x \notin p.txs /\ x \notin st.confirmed /\ ValidTransaction(x, height)
        /\ key \notin DOMAIN p.index
        /\ Cardinality(p.txs) < MaxPool
        /\ Cardinality(From(p.txs, x.sender)) < MaxPendingPerSender
        /\ x.nonce = st.accounts[x.sender].nonce + Cardinality(From(p.txs, x.sender))
        /\ CostOf(From(p.txs, x.sender)) + x.amount + x.fee <= st.accounts[x.sender].balance
    BY <1>2, Zenon DEF Admits, HasRoom, SenderTxs, From, FundedWithPending
  <2>3. /\ q.txs = p.txs \cup {x}
        /\ q.index = [k \in DOMAIN p.index \cup {key} |-> IF k = key THEN x ELSE p.index[k]]
    BY DEF Insert
  <2> HIDE DEF q
  <2>4. Queue(q.txs, st, height)
    BY <2>2, <2>3, QueueGrows DEF Ready
  <2>5. Indexed(q)
    <3>1. /\ DOMAIN p.index = {<<t.sender, t.nonce>> : t \in p.txs}
          /\ \A t \in p.txs : p.index[<<t.sender, t.nonce>>] = t
      BY DEF Ready, Indexed
    <3>2. DOMAIN q.index = {<<t.sender, t.nonce>> : t \in q.txs}
      BY <2>3, <3>1
    <3>3. ASSUME NEW t \in q.txs PROVE q.index[<<t.sender, t.nonce>>] = t
      <4>1. CASE t = x
        BY <2>3, <4>1
      <4>2. CASE t \in p.txs
        <5>1. <<t.sender, t.nonce>> \in DOMAIN p.index
          BY <3>1, <4>2
        <5>2. <<t.sender, t.nonce>> # key
          BY <2>2, <5>1
        <5> HIDE DEF key
        <5> QED
          BY <2>3, <3>1, <4>2, <5>1, <5>2
      <4> QED
        BY <2>3, <4>1, <4>2
    <3> QED
      BY <3>2, <3>3 DEF Indexed
  <2>6. Limited(q)
    <3>1. IsFiniteSet(p.txs) /\ Cardinality(p.txs) \in Nat
      BY FS_CardinalityType DEF Ready, Queue
    <3>2. Cardinality(q.txs) <= MaxPool
      <4>1. Cardinality(q.txs) = Cardinality(p.txs) + 1
        BY <2>2, <2>3, <3>1, FS_AddElement
      <4> QED
        BY <2>2, <3>1, <4>1, MempoolAssumption DEF MempoolAssumption
    <3>3. ASSUME NEW a \in Addresses PROVE Cardinality(SenderTxs(q, a)) <= MaxPendingPerSender
      <4>1. CASE a # x.sender
        <5>1. SenderTxs(q, a) = SenderTxs(p, a)
          BY <2>3, <4>1 DEF SenderTxs
        <5> QED
          BY <5>1 DEF Ready, Limited
      <4>2. CASE a = x.sender
        <5> DEFINE F == From(p.txs, a)
        <5>1. SenderTxs(q, a) = F \cup {x} /\ x \notin F
          BY <2>2, <2>3, <4>2 DEF SenderTxs, From
        <5>2. IsFiniteSet(F) /\ Cardinality(F) \in Nat
          BY QueueFacts DEF Ready
        <5>3. Cardinality(F) < MaxPendingPerSender
          BY <2>2, <4>2
        <5> HIDE DEF F
        <5>4. Cardinality(SenderTxs(q, a)) = Cardinality(F) + 1
          BY <5>1, <5>2, FS_AddElement
        <5> QED
          BY <5>2, <5>3, <5>4, MempoolAssumption DEF MempoolAssumption
      <4> QED
        BY <4>1, <4>2
    <3> QED
      BY <3>2, <3>3 DEF Limited
  <2> QED
    BY <2>1, <2>4, <2>5, <2>6 DEF Ready
<1> QED
  BY <1>1, <1>2

LEMMA AddsKeepReady ==
  ASSUME NEW st, st.accounts \in Table, NEW height, NEW p, Ready(p, st, height),
         NEW txs \in Seq(Txs), NEW after, AddsInTurn(after, p, st, txs, height)
  PROVE  \A i \in 0..Len(txs) : Ready(after[i], st, height)
<1> DEFINE H == {i \in Nat : i <= Len(txs) => Ready(after[i], st, height)}
<1>1. 0 \in H
  BY DEF AddsInTurn
<1>2. ASSUME NEW i \in Nat, i \in H PROVE i + 1 \in H
  <2> SUFFICES ASSUME i + 1 <= Len(txs) PROVE Ready(after[i + 1], st, height)
    OBVIOUS
  <2>1. i + 1 \in 1..Len(txs) /\ (i + 1) - 1 = i
    OBVIOUS
  <2>2. Ready(after[i], st, height) /\ txs[i + 1] \in Txs
    BY <1>2, <2>1
  <2>3. after[i + 1] = Add(after[i], st, txs[i + 1], height)
    BY <2>1 DEF AddsInTurn
  <2> QED
    BY <2>2, <2>3, AddKeepsReady
<1>3. Nat \subseteq H
  <2> HIDE DEF H
  <2> QED
    BY <1>1, <1>2, Induction
<1>4. Len(txs) \in Nat
  OBVIOUS
<1> QED
  BY <1>3, <1>4

LEMMA EmptyPoolReady ==
  ASSUME NEW st, st.accounts \in Table, NEW height
  PROVE  Ready(EmptyPool, st, height)
<1>1. EmptyPool.txs = {} /\ EmptyPool.index = <<>>
  BY DEF EmptyPool
<1>2. Cardinality({}) = 0 /\ \A a : SenderTxs(EmptyPool, a) = {}
  BY <1>1, FS_EmptySet DEF SenderTxs
<1>3. Limited(EmptyPool)
  <2>1. 0 <= MaxPool /\ 0 <= MaxPendingPerSender
    BY MempoolAssumption DEF MempoolAssumption
  <2> QED
    BY <1>1, <1>2, <2>1, Zenon DEF Limited
<1>4. Indexed(EmptyPool)
  BY <1>1 DEF Indexed
<1> QED
  BY <1>1, <1>3, <1>4, QueueOfNone DEF Ready

(* Revalidation starts from the empty pool, so that nothing of the old state
   survives in what it keeps. *)
LEMMA KeptReady ==
  ASSUME NEW st, st.accounts \in Table, NEW height,
         NEW p, IsFiniteSet(p.txs), Comparable(p.txs), NEW txs
  PROVE  Ready(Revalidate(RemoveConfirmed(p, txs), st, height), st, height)
<1> DEFINE q == RemoveConfirmed(p, txs)
           order == Sorted(q.txs, PoolOrder)
<1>1. Revalidate(q, st, height) = AddEach(EmptyPool, st, order, height)
  BY DEF Revalidate, Clear
<1>2. q.txs \in SUBSET p.txs
  BY DEF RemoveConfirmed
<1> HIDE DEF q
<1>3. order \in Seq(Txs) /\ Len(order) \in 0..Len(order)
  <2>1. IsFiniteSet(q.txs) /\ Comparable(q.txs)
    BY <1>2, FS_Subset DEF Comparable
  <2>2. order \in Seq(q.txs) /\ q.txs \subseteq Txs
    BY <2>1, PoolSorts DEF Lists, Comparable
  <2> HIDE DEF order
  <2> QED
    BY <2>2
<1> HIDE DEF order
<1>4. PICK after : /\ AddsInTurn(after, EmptyPool, st, order, height)
                   /\ AddEach(EmptyPool, st, order, height) = after[Len(order)]
  BY <1>3, AddEachInTurn
<1>5. Ready(EmptyPool, st, height)
  BY EmptyPoolReady
<1>6. Ready(AddEach(EmptyPool, st, order, height), st, height)
  BY <1>3, <1>4, <1>5, AddsKeepReady
<1> QED
  BY <1>1, <1>6 DEF q

(* What the return of the disconnected transactions adds keeps it so. *)
LEMMA ReconcileReady ==
  ASSUME NEW c, TipEntry(c).state.accounts \in Table,
         NEW p, IsFiniteSet(p.txs), Comparable(p.txs),
         NEW update, ReturnedOldestFirst(update) \in Seq(Txs)
  PROVE  Ready(Reconcile(p, c, update), TipEntry(c).state, ExecutionHeight(c))
<1> DEFINE st == TipEntry(c).state
           height == ExecutionHeight(c)
           kept == Revalidate(RemoveConfirmed(p, TransactionsOf(update.connected)), st, height)
           returned == ReturnedOldestFirst(update)
<1>1. Reconcile(p, c, update) = ReturnEach(kept, st, returned, height)
  BY DEF Reconcile
<1>2. Ready(kept, st, height)
  BY KeptReady
<1> HIDE DEF st, height, kept, returned
<1>3. returned \in Seq(Txs) /\ Len(returned) \in 0..Len(returned)
  BY DEF returned
<1>4. PICK after : /\ AddsInTurn(after, kept, st, returned, height)
                   /\ ReturnEach(kept, st, returned, height) = after[Len(returned)]
  BY <1>3, ReturnEachInTurn
<1>5. Ready(ReturnEach(kept, st, returned, height), st, height)
  BY <1>2, <1>3, <1>4, AddsKeepReady DEF st
<1> QED
  BY <1>1, <1>5 DEF st, height

-----------------------------------------------------------------------------
(***************************************************************************)
(* What a sequence of adds leaves out.                                     *)
(***************************************************************************)
(* A transaction that add refused is refused by every larger pool that got
   nothing with a smaller nonce from the same sender: only its predecessors
   could have made it admissible. *)
LEMMA RefusedStaysRefused ==
  ASSUME NEW st, st.accounts \in Table, NEW height, NEW p, Ready(p, st, height),
         NEW q, Ready(q, st, height), p.txs \subseteq q.txs,
         NEW t \in Txs, ~Admits(p, st, t, height),
         \A u \in q.txs \ p.txs : u.sender = t.sender => t.nonce <= u.nonce
  PROVE  ~Admits(q, st, t, height)
<1> SUFFICES ASSUME Admits(q, st, t, height) PROVE Admits(p, st, t, height)
  OBVIOUS
<1> DEFINE s == t.sender
           P == From(p.txs, s)
           Q == From(q.txs, s)
           first == st.accounts[s].nonce
           k == Cardinality(P)
           l == Cardinality(Q)
<1>1. /\ ValidTransaction(t, height) /\ t \notin q.txs /\ t \notin st.confirmed
      /\ <<s, t.nonce>> \notin DOMAIN q.index
      /\ Cardinality(q.txs) < MaxPool /\ l < MaxPendingPerSender
      /\ first # U64Max /\ first + l <= U64Max /\ t.nonce = first + l
      /\ CostOf(Q) + t.amount + t.fee <= st.accounts[s].balance
  BY Zenon DEF Admits, HasRoom, SenderTxs, From, FundedWithPending
<1>2. s \in Addresses /\ first \in Nat
  BY <1>1, TxNamesAddresses, BalancesBounded
<1>3. /\ Queue(p.txs, st, height) /\ Queue(q.txs, st, height)
      /\ IsFiniteSet(P) /\ IsFiniteSet(Q) /\ k \in Nat /\ l \in Nat
  BY QueueFacts DEF Ready
<1>4. P \in SUBSET Q
  BY DEF From
<1>5. Cardinality(p.txs) <= Cardinality(q.txs) /\ k <= l
      /\ Cardinality(p.txs) \in Nat /\ Cardinality(q.txs) \in Nat
  <2>1. IsFiniteSet(q.txs) /\ IsFiniteSet(p.txs)
    BY <1>3 DEF Queue
  <2> HIDE DEF P, Q
  <2> QED
    BY <1>3, <1>4, <2>1, FS_Subset, FS_CardinalityType
<1>6. {u.nonce : u \in P} = first..(first + k - 1) /\ {u.nonce : u \in Q} = first..(first + l - 1)
  BY <1>2, <1>3 DEF Queue
<1> HIDE DEF first, k, l
<1>7. k = l
  <2> SUFFICES ASSUME k < l PROVE FALSE
    BY <1>3, <1>5
  <2>1. first + k \in first..(first + l - 1) /\ first + k \notin first..(first + k - 1)
    BY <1>2, <1>3
  <2>2. PICK u \in Q : u.nonce = first + k
    BY <1>6, <2>1
  <2>3. u \notin P
    BY <1>6, <2>1, <2>2
  <2>4. t.nonce <= u.nonce
    BY <2>3 DEF From
  <2> QED
    BY <1>1, <1>2, <1>3, <2>2, <2>4
<1>8. P = Q
  <2> HIDE DEF P, Q
  <2> QED
    BY <1>3, <1>4, <1>7, FS_Subset DEF k, l
<1>9. <<s, t.nonce>> \notin DOMAIN p.index
  BY <1>1 DEF Ready, Indexed
<1>10. Cardinality(p.txs) < MaxPool
  BY <1>1, <1>5, MempoolAssumption DEF MempoolAssumption
<1>11. SenderTxs(p, s) = Q /\ HasRoom(p) /\ t \notin p.txs /\ l = Cardinality(Q)
       /\ first = st.accounts[s].nonce
  BY <1>1, <1>8, <1>10 DEF SenderTxs, From, HasRoom, l, first
<1> HIDE DEF Q
<1> QED
  BY <1>1, <1>9, <1>11, Zenon DEF Admits, FundedWithPending

LEMMA AddTxs ==
  \A p, st, t, height :
    LET q == Add(p, st, t, height) IN
    \/ Admits(p, st, t, height) /\ q.txs = p.txs \cup {t}
    \/ ~Admits(p, st, t, height) /\ q = p
<1> TAKE p, st, t, height
<1>1. Insert(p, t).txs = p.txs \cup {t}
  BY DEF Insert
<1> QED
  BY <1>1, Zenon DEF Add

(* What a sequence of adds refused is refused by the pool they leave, unless a
   later one precedes it in its sender's order. *)
LEMMA RefusedInTurn ==
  ASSUME NEW st, st.accounts \in Table, NEW height, NEW p, Ready(p, st, height),
         NEW txs \in Seq(Txs), NEW after, AddsInTurn(after, p, st, txs, height),
         NEW i \in 1..Len(txs),
         \A j \in (i + 1)..Len(txs) :
           txs[j].sender = txs[i].sender => txs[i].nonce <= txs[j].nonce
  PROVE  txs[i] \in after[Len(txs)].txs \/ ~Admits(after[Len(txs)], st, txs[i], height)
<1> DEFINE n == Len(txs)
           t == txs[i]
<1>1. n \in Nat /\ i \in Nat /\ i - 1 \in 0..n /\ i \in 0..n /\ n \in 0..n /\ t \in Txs
  OBVIOUS
<1>2. \A j \in 0..n : Ready(after[j], st, height)
  BY AddsKeepReady
<1>3. \A j \in 1..n : after[j] = Add(after[j - 1], st, txs[j], height)
  BY DEF AddsInTurn
<1>4. ASSUME NEW j \in 1..n
      PROVE  /\ after[j - 1].txs \subseteq after[j].txs
             /\ after[j].txs \subseteq after[j - 1].txs \cup {txs[j]}
             /\ txs[j] \in after[j].txs \/ ~Admits(after[j], st, txs[j], height)
  <2> DEFINE x == txs[j]
             now == after[j - 1]
             next == after[j]
  <2>1. next = Add(now, st, x, height)
    BY <1>3
  <2> HIDE DEF x, now, next
  <2>2. \/ Admits(now, st, x, height) /\ next.txs = now.txs \cup {x}
        \/ ~Admits(now, st, x, height) /\ next = now
    BY <2>1, AddTxs
  <2>3. /\ now.txs \subseteq next.txs /\ next.txs \subseteq now.txs \cup {x}
        /\ x \in next.txs \/ ~Admits(next, st, x, height)
    BY <2>2
  <2> QED
    BY <2>3 DEF x, now, next
<1>5. t \in after[i].txs \/ ~Admits(after[i], st, t, height)
  BY <1>4
<1> DEFINE Grown(j) == /\ after[i].txs \subseteq after[j].txs
                       /\ \A u \in after[j].txs \ after[i].txs :
                            u.sender = t.sender => t.nonce <= u.nonce
           H == {j \in Nat : i <= j /\ j <= n => Grown(j)}
<1> HIDE DEF t, n
<1>6. 0 \in H
  BY <1>1
<1>7. ASSUME NEW j \in Nat, j \in H PROVE j + 1 \in H
  <2> SUFFICES ASSUME i <= j + 1, j + 1 <= n PROVE Grown(j + 1)
    OBVIOUS
  <2>1. CASE i = j + 1
    BY <2>1
  <2>2. CASE i # j + 1
    <3>1. j + 1 \in (i + 1)..n /\ j + 1 \in 1..n /\ (j + 1) - 1 = j /\ i <= j /\ j <= n
      BY <1>1, <2>2
    <3>2. Grown(j)
      BY <1>7, <3>1
    <3>3. after[j].txs \subseteq after[j + 1].txs
          /\ after[j + 1].txs \subseteq after[j].txs \cup {txs[j + 1]}
      BY <1>4, <3>1
    <3>4. txs[j + 1].sender = t.sender => t.nonce <= txs[j + 1].nonce
      BY <3>1 DEF t, n
    <3> QED
      BY <3>2, <3>3, <3>4
  <2> QED
    BY <2>1, <2>2
<1>8. Nat \subseteq H
  <2> HIDE DEF H
  <2> QED
    BY <1>6, <1>7, Induction
<1>9. Grown(n)
  BY <1>1, <1>8 DEF n
<1>10. Ready(after[i], st, height) /\ Ready(after[n], st, height)
  BY <1>1, <1>2
<1>11. CASE t \in after[i].txs
  BY <1>9, <1>11 DEF t, n
<1>12. CASE ~Admits(after[i], st, t, height)
  <2>1. ~Admits(after[n], st, t, height)
    BY <1>1, <1>9, <1>10, <1>12, RefusedStaysRefused
  <2> QED
    BY <2>1 DEF t, n
<1> QED
  BY <1>5, <1>11, <1>12

-----------------------------------------------------------------------------
(***************************************************************************)
(* The nonces along a batch.                                               *)
(***************************************************************************)
(* txs continues every sender's nonces from the accounts of st, upwards. *)
Continues(txs, st) ==
  /\ \A i \in 1..Len(txs) : st.accounts[txs[i].sender].nonce <= txs[i].nonce
  /\ \A i, j \in 1..Len(txs) :
       i < j /\ txs[i].sender = txs[j].sender => txs[i].nonce < txs[j].nonce

LEMMA BatchContinues ==
  ASSUME NEW st, IsState(st), st.accounts \in Table, NoncesExact(st), IsFiniteSet(st.confirmed),
         NEW txs, Len(txs) \in Nat, NEW height,
         \A i \in 1..Len(txs) : txs[i].authentic => NamesAddresses(txs[i]),
         ApplyTransactions(st, txs, height).ok
  PROVE  Continues(txs, st)
<1> DEFINE n == Len(txs)
<1>1. PICK run : IsRun(run, st, txs, height) /\ ApplyTransactions(st, txs, height) = run[n]
  BY RunExists
<1>2. \A i \in 0..n :
        /\ run[i] = [ok |-> run[i].ok, state |-> run[i].state, fees |-> run[i].fees]
        /\ run[i].ok => BatchDone(run, st, txs, height, i)
  BY <1>1, BatchSteps
<1>3. run[0] = [ok |-> TRUE, state |-> st, fees |-> 0]
      /\ \A i \in 1..n : run[i] = ApplyNext(run[i - 1], txs[i], height)
  <2>1. \A i \in 1..n : i \in 0..n /\ i # 0
    OBVIOUS
  <2>2. 0 \in 0..n
    OBVIOUS
  <2> QED
    BY <1>1, <2>1, <2>2 DEF IsRun
<1> DEFINE Nonce(i, a) == run[i].state.accounts[a].nonce
           Good(i) ==
             /\ \A a \in Addresses : Nonce(i, a) \in Nat /\ Nonce(0, a) <= Nonce(i, a)
             /\ \A j \in 1..i : /\ txs[j].sender \in Addresses /\ txs[j].nonce \in Nat
                                /\ Nonce(0, txs[j].sender) <= txs[j].nonce
                                /\ txs[j].nonce < Nonce(i, txs[j].sender)
             /\ \A j, k \in 1..i :
                  j < k /\ txs[j].sender = txs[k].sender => txs[j].nonce < txs[k].nonce
           H == {i \in Nat : i <= n /\ run[i].ok => Good(i)}
<1>4. \A a \in Addresses : Nonce(0, a) \in Nat /\ Nonce(0, a) = st.accounts[a].nonce
  BY <1>3, BalancesBounded
<1>5. 0 \in H
  BY <1>4
<1>6. ASSUME NEW i \in Nat, i \in H PROVE i + 1 \in H
  <2> SUFFICES ASSUME i + 1 <= n, run[i + 1].ok PROVE Good(i + 1)
    OBVIOUS
  <2> DEFINE x == txs[i + 1]
             now == run[i].state
  <2>1. i \in 0..n /\ i + 1 \in 1..n /\ (i + 1) - 1 = i
    OBVIOUS
  <2>2. run[i + 1] = ApplyNext(run[i], x, height)
    BY <1>3, <2>1
  <2>3. /\ run[i].ok /\ Executable(now, x, height) /\ ~RecipientOverflows(now, x)
        /\ run[i + 1].state = ApplyValidated(now, x)
    <3> SUFFICES ASSUME ~(/\ run[i].ok /\ Executable(now, x, height)
                          /\ ~RecipientOverflows(now, x) /\ run[i].fees + x.fee <= U64Max)
                 PROVE  FALSE
      BY <2>2 DEF ApplyNext
    <3>1. run[i + 1] = [run[i] EXCEPT !.ok = FALSE]
      BY <2>2 DEF ApplyNext
    <3>2. run[i] = [ok |-> run[i].ok, state |-> run[i].state, fees |-> run[i].fees]
      BY <1>2, <2>1
    <3>3. run[i + 1].ok = FALSE
      BY <3>1, <3>2
    <3> QED
      BY <3>3
  <2>4. Good(i)
    BY <1>6, <2>1, <2>3
  <2>5. now.accounts \in Table
    BY <1>2, <2>1, <2>3 DEF BatchDone
  <2>6. /\ NamesAddresses(x) /\ x.sender \in Addresses /\ x.nonce \in Nat
        /\ x.nonce = Nonce(i, x.sender)
    BY <2>1, <2>3, AmountsTyped DEF Executable, ValidTransaction, NamesAddresses, NonceIsNext
  <2>7. \A a \in Addresses : Nonce(i + 1, a) = IF a = x.sender THEN Nonce(i, a) + 1
                                                              ELSE Nonce(i, a)
    BY <2>3, <2>5, <2>6, ApplyEffects
  <2> HIDE DEF Nonce, x
  <2>8. \A j \in 1..(i + 1) : j \in 1..i \/ j = i + 1
    BY <2>1
  <2>9. \A j \in 1..i : /\ txs[j].sender \in Addresses /\ txs[j].nonce \in Nat
                        /\ txs[j].nonce < Nonce(i, txs[j].sender)
                        /\ Nonce(i, txs[j].sender) \in Nat
    BY <2>4
  <2>10. ASSUME NEW a \in Addresses
         PROVE  Nonce(i + 1, a) \in Nat /\ Nonce(0, a) <= Nonce(i + 1, a)
                /\ Nonce(i, a) <= Nonce(i + 1, a)
    BY <1>4, <2>4, <2>7
  <2>11. ASSUME NEW j \in 1..(i + 1)
         PROVE  /\ txs[j].sender \in Addresses /\ txs[j].nonce \in Nat
                /\ Nonce(0, txs[j].sender) <= txs[j].nonce
                /\ txs[j].nonce < Nonce(i + 1, txs[j].sender)
    <3>1. CASE j = i + 1
      BY <2>4, <2>6, <2>7, <3>1 DEF x
    <3>2. CASE j \in 1..i
      <4>1. Nonce(i, txs[j].sender) <= Nonce(i + 1, txs[j].sender)
            /\ Nonce(i + 1, txs[j].sender) \in Nat
        BY <2>9, <2>10, <3>2
      <4> QED
        BY <2>4, <2>9, <3>2, <4>1
    <3> QED
      BY <2>8, <3>1, <3>2
  <2>12. ASSUME NEW j \in 1..(i + 1), NEW k \in 1..(i + 1), j < k,
                txs[j].sender = txs[k].sender
         PROVE  txs[j].nonce < txs[k].nonce
    <3>1. j \in 1..i
      BY <2>8, <2>12
    <3>2. CASE k \in 1..i
      BY <2>4, <2>12, <3>1, <3>2
    <3>3. CASE k = i + 1
      BY <2>6, <2>9, <2>12, <3>1, <3>3 DEF x
    <3> QED
      BY <2>8, <3>2, <3>3
  <2> QED
    BY <2>10, <2>11, <2>12
<1>7. Nat \subseteq H
  <2> HIDE DEF H
  <2> QED
    BY <1>5, <1>6, Induction
<1>8. Good(n)
  BY <1>1, <1>7
<1> QED
  BY <1>4, <1>8 DEF Continues

-----------------------------------------------------------------------------
(***************************************************************************)
(* The block tree under the pool.                                          *)
(***************************************************************************)
(* What the block b did to the accounts of its parent. *)
Executed(c, b) ==
  LET before == c.entries[b.prev].state
      txs    == b.transactions
  IN  /\ c.entries[b].state.confirmed = before.confirmed \cup {txs[i] : i \in 1..Len(txs)}
      /\ \A i \in 1..Len(txs) : ValidTransaction(txs[i], b.height)
      /\ Continues(txs, before)

ChainSound(c) ==
  /\ TreeSound(c)
  /\ \A b \in Known(c) : /\ StateSound(c.entries[b].state, c.entries[b].supply)
                         /\ c.entries[b].state.confirmed \subseteq Txs
                         /\ b.transactions \in Seq(Txs)
                         /\ b.timestamp \in 0..U64Max /\ b.target \in 1..MaxTarget
  /\ \A b \in Known(c) \ {GenesisBlock} : Executed(c, b)

(* What a block that reaches the node has, before any validation. *)
Offered(b) ==
  /\ \E T : b.transactions \in Seq(T)
  /\ \A i \in 1..Len(b.transactions) :
       b.transactions[i].authentic => /\ b.transactions[i] \in Txs
                                      /\ NamesAddresses(b.transactions[i])
  /\ b.sealed => b.miner \in Addresses /\ b.timestamp \in 0..U64Max

LEMMA AcceptEffects ==
  ASSUME NEW c, ChainSound(c), NEW b, Offered(b), AddOutcome(c, b) = "accepted"
  PROVE  LET after == AddBlock(c, b).entries[b]
         IN  /\ StateSound(after.state, after.supply)
             /\ after.state.confirmed \subseteq Txs
             /\ b.transactions \in Seq(Txs)
             /\ b.timestamp \in 0..U64Max /\ b.target \in 1..MaxTarget
             /\ Executed(AddBlock(c, b), b)
<1> DEFINE d == AddBlock(c, b)
           before == c.entries[b.prev]
           txs == b.transactions
           body == RunBody(before.state, before.supply, b.height, b.reward.miner, txs)
<1>1. /\ b.prev \in Known(c) /\ b.height = b.prev.height + 1 /\ Execution(c, b).ok
      /\ d.entries[b] = NewEntry(c, b) /\ d.entries[b.prev] = before
      /\ b.target \in 1..MaxTarget
  BY AddEffects DEF ChainSound, TreeSound
<1>2. /\ d.entries[b].state = body.state /\ d.entries[b].supply = body.supply
      /\ body.ok /\ b.sealed /\ b.reward.miner = b.miner
  BY <1>1 DEF NewEntry, EntryFor, Execution, ValidateAndExecuteBlock, Verdict, ParentEntry
<1>3. b.height \in Nat /\ StateSound(before.state, before.supply)
      /\ before.state.confirmed \subseteq Txs
  <2>1. b.prev.height \in Nat
    BY <1>1, BlockFacts DEF ChainSound
  <2> QED
    BY <1>1, <2>1 DEF ChainSound
<1>4. b.reward.miner \in Addresses /\ b.timestamp \in 0..U64Max
  BY <1>2 DEF Offered
<1>5. PICK T : txs \in Seq(T)
  BY DEF Offered
<1>6. Len(txs) \in Nat /\ DOMAIN txs = 1..Len(txs) /\ txs = [i \in 1..Len(txs) |-> txs[i]]
  BY <1>5
<1>7. \A i \in 1..Len(txs) : txs[i].authentic => NamesAddresses(txs[i]) /\ txs[i] \in Txs
  BY DEF Offered
<1>8. ApplyTransactions(before.state, txs, b.height).ok
  BY <1>2 DEF RunBody, Rewarded
<1> HIDE DEF before, txs, d
<1>9. /\ StateSound(body.state, body.supply)
      /\ body.state.confirmed = before.state.confirmed \cup {txs[j] : j \in 1..Len(txs)}
      /\ Cardinality(body.state.confirmed) = Cardinality(before.state.confirmed) + Len(txs)
      /\ \A j \in 1..Len(txs) : ValidTransaction(txs[j], b.height)
  BY <1>2, <1>3, <1>4, <1>6, <1>7, BodyEffects
<1>10. Continues(txs, before.state)
  BY <1>3, <1>6, <1>7, <1>8, BatchContinues DEF StateSound
<1> HIDE DEF body
<1>11. \A j \in 1..Len(txs) : txs[j] \in Txs
  BY <1>7, <1>9 DEF ValidTransaction
<1>12. body.state.confirmed \subseteq Txs
  BY <1>3, <1>9, <1>11
<1>13. txs \in Seq(Txs)
  BY <1>5, <1>6, <1>11
<1>14. Executed(d, b)
  BY <1>1, <1>2, <1>9, <1>10 DEF Executed, txs
<1> QED
  BY <1>1, <1>2, <1>4, <1>9, <1>12, <1>13, <1>14 DEF d, txs

LEMMA AcceptKeepsChain ==
  ASSUME NEW c, ChainSound(c), NEW b, Offered(b), AddOutcome(c, b) = "accepted"
  PROVE  ChainSound(AddBlock(c, b))
<1> DEFINE d == AddBlock(c, b)
<1>1. /\ TreeSound(d) /\ Known(d) = Known(c) \cup {b}
      /\ \A k \in Known(c) : d.entries[k] = c.entries[k]
  BY AddKeepsSound, AddEffects DEF ChainSound, TreeSound
<1>2. /\ StateSound(d.entries[b].state, d.entries[b].supply)
      /\ d.entries[b].state.confirmed \subseteq Txs
      /\ b.transactions \in Seq(Txs)
      /\ b.timestamp \in 0..U64Max /\ b.target \in 1..MaxTarget
      /\ Executed(d, b)
  BY AcceptEffects
<1> HIDE DEF d
<1>3. \A k \in Known(c) \ {GenesisBlock} : Executed(d, k)
  <2> SUFFICES ASSUME NEW k \in Known(c) \ {GenesisBlock} PROVE Executed(d, k)
    OBVIOUS
  <2>1. k.prev \in Known(c) /\ Executed(c, k)
    BY DEF ChainSound, TreeSound, ParentsKnown
  <2> QED
    BY <1>1, <2>1 DEF Executed
<1>4. ChainSound(d)
  BY <1>1, <1>2, <1>3 DEF ChainSound
<1> QED
  BY <1>4 DEF d

LEMMA TipSound ==
  ASSUME NEW c, ChainSound(c)
  PROVE  /\ c.tip \in Known(c)
         /\ StateSound(TipEntry(c).state, TipEntry(c).supply)
         /\ TipEntry(c).state.accounts \in Table
         /\ TipEntry(c).state.confirmed \subseteq Txs
BY DEF ChainSound, TreeSound, EntriesTyped, TipEntry, StateSound

LEMMA EmptyChainIsSound == ChainSound(EmptyChain)
<1>1. /\ TreeSound(EmptyChain) /\ Known(EmptyChain) = {GenesisBlock}
      /\ EmptyChain.entries[GenesisBlock].state = EmptyState
      /\ EmptyChain.entries[GenesisBlock].supply = 0
  BY EmptyChainSound
<1>2. /\ EmptyState.confirmed = {} /\ GenesisBlock.transactions = <<>>
      /\ GenesisBlock.timestamp \in 0..U64Max /\ GenesisBlock.target \in 1..MaxTarget
  BY LedgerAssumption DEF LedgerAssumption, EmptyState, GenesisBlock
<1>3. <<>> \in Seq(Txs)
  OBVIOUS
<1> QED
  BY <1>1, <1>2, <1>3, EmptyStateSound DEF ChainSound

-----------------------------------------------------------------------------
(***************************************************************************)
(* The transactions of the disconnected blocks.                            *)
(***************************************************************************)
IsFlatten(g, seqs) ==
  g = [i \in 1..Len(seqs) |-> IF i = 1 THEN seqs[i] ELSE g[i - 1] \o seqs[i]]

LEMMA FlattenExists ==
  ASSUME NEW seqs, Len(seqs) \in Nat, Len(seqs) # 0
  PROVE  \E g : IsFlatten(g, seqs) /\ FlattenSeq(seqs) = g[Len(seqs)]
<1> DEFINE Body(g, i) == IF i = 1 THEN seqs[i] ELSE g[i - 1] \o seqs[i]
           H == {n \in Nat : \E g : g = [i \in 1..n |-> Body(g, i)]}
<1>1. 0 \in H
  <2> DEFINE g == [i \in 1..0 |-> 0]
  <2>1. g = [i \in 1..0 |-> Body(g, i)]
    OBVIOUS
  <2> QED
    BY <2>1
<1>2. ASSUME NEW n \in Nat, n \in H PROVE n + 1 \in H
  <2>1. PICK g : g = [i \in 1..n |-> Body(g, i)]
    BY <1>2
  <2> DEFINE h == [i \in 1..(n + 1) |-> IF i <= n THEN g[i] ELSE Body(g, n + 1)]
  <2>2. \A i \in 1..n : h[i] = g[i]
    OBVIOUS
  <2>3. \A i \in 1..n : g[i] = Body(g, i)
    <3> HIDE DEF Body
    <3> QED
      BY <2>1
  <2>4. h = [i \in 1..(n + 1) |-> h[i]] /\ h[n + 1] = Body(g, n + 1)
    <3> HIDE DEF Body
    <3> QED
      OBVIOUS
  <2> HIDE DEF h
  <2>5. \A i \in 1..(n + 1) : h[i] = Body(h, i)
    <3>1. h[n + 1] = Body(h, n + 1)
      <4>1. CASE n + 1 = 1
        BY <2>4, <4>1
      <4>2. CASE n + 1 # 1
        <5>1. (n + 1) - 1 \in 1..n
          BY <4>2
        <5>2. h[(n + 1) - 1] = g[(n + 1) - 1]
          BY <2>2, <5>1
        <5> QED
          BY <2>4, <4>2, <5>2
      <4> QED
        BY <4>1, <4>2
    <3>2. \A i \in 1..n : h[i] = Body(h, i)
      <4>1. \A i \in 1..n : i # 1 => i - 1 \in 1..n
        OBVIOUS
      <4> QED
        BY <2>2, <2>3, <4>1
    <3>3. \A i \in 1..(n + 1) : i \in 1..n \/ i = n + 1
      OBVIOUS
    <3> HIDE DEF Body
    <3> QED
      BY <3>1, <3>2, <3>3
  <2>6. h = [i \in 1..(n + 1) |-> Body(h, i)]
    <3> HIDE DEF Body
    <3> QED
      BY <2>4, <2>5
  <2> HIDE DEF Body
  <2> QED
    BY <2>6
<1>3. Nat \subseteq H
  <2> HIDE DEF H
  <2> QED
    BY <1>1, <1>2, Induction
<1>4. \E g : g = [i \in 1..Len(seqs) |-> Body(g, i)]
  <2> HIDE DEF Body
  <2> QED
    BY <1>3
<1> QED
  BY <1>4, Zenon DEF IsFlatten, FlattenSeq

LEMMA FlattenFew ==
  /\ FlattenSeq(<<>>) = <<>>
  /\ \A s : FlattenSeq(<<s>>) = s
<1>1. FlattenSeq(<<>>) = <<>>
  BY Zenon DEF FlattenSeq
<1>2. ASSUME NEW s PROVE FlattenSeq(<<s>>) = s
  <2> DEFINE w == <<s>>
  <2>1. Len(w) = 1 /\ w[1] = s /\ 1 \in Nat /\ 1 # 0
    OBVIOUS
  <2> HIDE DEF w
  <2>2. PICK g : IsFlatten(g, w) /\ FlattenSeq(w) = g[1]
    BY <2>1, FlattenExists
  <2>3. g[1] = s
    BY <2>1, <2>2 DEF IsFlatten
  <2> QED
    BY <2>2, <2>3 DEF w
<1> QED
  BY <1>1, <1>2

(* x stands before y in the first m of the sequences. *)
Precedes(seqs, m, x, y) ==
  \E k, l \in 1..m : \E a \in 1..Len(seqs[k]), b \in 1..Len(seqs[l]) :
    seqs[k][a] = x /\ seqs[l][b] = y /\ (k < l \/ (k = l /\ a < b))

(* f holds what the first m sequences hold, in their order. *)
Flat(f, seqs, m) ==
  /\ \A i \in 1..Len(f) : \E k \in 1..m : \E a \in 1..Len(seqs[k]) : seqs[k][a] = f[i]
  /\ \A k \in 1..m : \A a \in 1..Len(seqs[k]) : \E i \in 1..Len(f) : f[i] = seqs[k][a]
  /\ \A i, j \in 1..Len(f) : i < j => Precedes(seqs, m, f[i], f[j])

LEMMA FlatGrows ==
  ASSUME NEW S, NEW seqs \in Seq(Seq(S)), NEW m \in Nat, m + 1 \in 1..Len(seqs),
         NEW f \in Seq(S), Flat(f, seqs, m)
  PROVE  f \o seqs[m + 1] \in Seq(S) /\ Flat(f \o seqs[m + 1], seqs, m + 1)
<1> DEFINE s == seqs[m + 1]
           g == f \o s
           n == Len(f)
           l == Len(s)
<1>1. s \in Seq(S) /\ n \in Nat /\ l \in Nat
  OBVIOUS
<1> HIDE DEF s
<1>2. /\ g \in Seq(S) /\ Len(g) = n + l
      /\ \A i \in 1..n : g[i] = f[i]
      /\ \A i \in 1..(n + l) : i \notin 1..n => i - n \in 1..l /\ g[i] = s[i - n]
  BY <1>1
<1>3. \A a \in 1..l : n + a \in 1..(n + l) /\ g[n + a] = s[a]
  BY <1>1
<1> HIDE DEF g, n, l
<1>4. \A k \in 1..(m + 1) : k \in 1..m \/ k = m + 1
  OBVIOUS
<1>5. \A k \in 1..m : k \in 1..(m + 1) /\ k < m + 1
  OBVIOUS
<1>6. m + 1 \in 1..(m + 1) /\ l = Len(seqs[m + 1]) /\ \A a : s[a] = seqs[m + 1][a]
  BY DEF s, l
<1>7. ASSUME NEW i \in 1..Len(g)
      PROVE  \E k \in 1..(m + 1) : \E a \in 1..Len(seqs[k]) : seqs[k][a] = g[i]
  <2>1. CASE i \in 1..n
    <3>1. PICK k \in 1..m : \E a \in 1..Len(seqs[k]) : seqs[k][a] = f[i]
      BY <2>1 DEF Flat, n
    <3> QED
      BY <1>2, <1>5, <2>1, <3>1
  <2>2. CASE i \notin 1..n
    BY <1>2, <1>6, <2>2
  <2> QED
    BY <2>1, <2>2
<1>8. ASSUME NEW k \in 1..(m + 1), NEW a \in 1..Len(seqs[k])
      PROVE  \E i \in 1..Len(g) : g[i] = seqs[k][a]
  <2>1. CASE k \in 1..m
    <3>1. PICK i \in 1..n : f[i] = seqs[k][a]
      BY <2>1 DEF Flat, n
    <3>2. i \in 1..Len(g)
      BY <1>1, <1>2
    <3> QED
      BY <1>2, <3>1, <3>2
  <2>2. CASE k = m + 1
    <3>1. a \in 1..l /\ seqs[k][a] = s[a]
      BY <1>6, <2>2
    <3>2. n + a \in 1..Len(g) /\ g[n + a] = s[a]
      BY <1>2, <1>3, <3>1
    <3> QED
      BY <3>1, <3>2
  <2> QED
    BY <1>4, <2>1, <2>2
<1>9. ASSUME NEW i \in 1..Len(g), NEW j \in 1..Len(g), i < j
      PROVE  Precedes(seqs, m + 1, g[i], g[j])
  <2>1. CASE j \in 1..n
    <3>1. i \in 1..n
      BY <1>1, <1>2, <1>9, <2>1
    <3>2. PICK k, h \in 1..m : \E a \in 1..Len(seqs[k]), b \in 1..Len(seqs[h]) :
            seqs[k][a] = f[i] /\ seqs[h][b] = f[j] /\ (k < h \/ (k = h /\ a < b))
      BY <1>9, <2>1, <3>1 DEF Flat, Precedes, n
    <3>3. g[i] = f[i] /\ g[j] = f[j] /\ k \in 1..(m + 1) /\ h \in 1..(m + 1)
      BY <1>2, <1>5, <2>1, <3>1
    <3> QED
      BY <3>2, <3>3 DEF Precedes
  <2>2. CASE j \notin 1..n
    <3>1. j - n \in 1..Len(seqs[m + 1]) /\ g[j] = seqs[m + 1][j - n]
      BY <1>2, <1>6, <2>2
    <3>2. CASE i \in 1..n
      <4>1. PICK k \in 1..m : \E a \in 1..Len(seqs[k]) : seqs[k][a] = f[i]
        BY <3>2 DEF Flat, n
      <4>2. g[i] = f[i]
        BY <1>2, <3>2
      <4> QED
        BY <1>5, <1>6, <3>1, <4>1, <4>2 DEF Precedes
    <3>3. CASE i \notin 1..n
      <4>1. i - n \in 1..Len(seqs[m + 1]) /\ g[i] = seqs[m + 1][i - n]
        BY <1>2, <1>6, <3>3
      <4>2. i - n < j - n
        BY <1>1, <1>2, <1>9
      <4> QED
        BY <1>6, <3>1, <4>1, <4>2 DEF Precedes
    <3> QED
      BY <3>2, <3>3
  <2> QED
    BY <2>1, <2>2
<1>10. Flat(g, seqs, m + 1)
  BY <1>7, <1>8, <1>9 DEF Flat
<1> QED
  BY <1>2, <1>10 DEF g, s

LEMMA FlattenIsFlat ==
  ASSUME NEW S, NEW seqs \in Seq(Seq(S))
  PROVE  FlattenSeq(seqs) \in Seq(S) /\ Flat(FlattenSeq(seqs), seqs, Len(seqs))
<1> DEFINE n == Len(seqs)
<1>1. n \in Nat /\ \A i \in 1..n : seqs[i] \in Seq(S)
  OBVIOUS
<1>2. <<>> \in Seq(S) /\ Flat(<<>>, seqs, 0)
  BY DEF Flat
<1>3. CASE n = 0
  <2>1. seqs = <<>>
    BY <1>3
  <2> QED
    BY <1>2, <1>3, <2>1, FlattenFew
<1>4. CASE n # 0
  <2>1. PICK g : IsFlatten(g, seqs) /\ FlattenSeq(seqs) = g[n]
    BY <1>1, <1>4, FlattenExists
  <2>2. \A i \in 1..n : g[i] = IF i = 1 THEN seqs[i] ELSE g[i - 1] \o seqs[i]
    BY <2>1 DEF IsFlatten
  <2> DEFINE H == {i \in Nat : i \in 1..n => g[i] \in Seq(S) /\ Flat(g[i], seqs, i)}
  <2> HIDE DEF n
  <2>3. 0 \in H
    OBVIOUS
  <2>4. ASSUME NEW i \in Nat, i \in H PROVE i + 1 \in H
    <3> SUFFICES ASSUME i + 1 \in 1..n
                 PROVE  g[i + 1] \in Seq(S) /\ Flat(g[i + 1], seqs, i + 1)
      OBVIOUS
    <3>1. CASE i = 0
      <4>1. g[1] = <<>> \o seqs[1] /\ 1 \in 1..n
        <5>1. 1 \in 1..n /\ seqs[1] \in Seq(S) /\ g[1] = seqs[1]
          BY <1>1, <2>2, <3>1
        <5> QED
          BY <5>1
      <4>2. 0 + 1 = 1 /\ 0 \in Nat
        OBVIOUS
      <4>3. <<>> \o seqs[1] \in Seq(S) /\ Flat(<<>> \o seqs[1], seqs, 1)
        BY <1>2, <4>1, <4>2, FlatGrows DEF n
      <4> QED
        BY <3>1, <4>1, <4>3
    <3>2. CASE i # 0
      <4>1. i \in 1..n /\ (i + 1) - 1 = i /\ i + 1 # 1
        BY <1>1, <3>2
      <4>2. g[i] \in Seq(S) /\ Flat(g[i], seqs, i) /\ g[i + 1] = g[i] \o seqs[i + 1]
        BY <2>2, <2>4, <4>1
      <4> QED
        BY <4>2, FlatGrows DEF n
    <3> QED
      BY <3>1, <3>2
  <2>5. Nat \subseteq H
    <3> HIDE DEF H
    <3> QED
      BY <2>3, <2>4, Induction
  <2>6. n \in 1..n
    BY <1>1, <1>4
  <2> QED
    BY <1>1, <2>1, <2>5, <2>6 DEF n
<1> QED
  BY <1>3, <1>4

(* What comes back from the branch up to a is the bodies of its blocks behind
   the last one it shares with the branch up to the new tip. *)
LEMMA ReturnedBodies ==
  ASSUME NEW c, ChainSound(c), NEW b, Offered(b), AddOutcome(c, b) = "accepted",
         AddBlock(c, b).tip = b,
         NEW A, A = Branch(c.entries, c.tip), NEW B, B = Branch(AddBlock(c, b).entries, b)
  PROVE  \E n \in 1..Len(A) : \E seqs \in Seq(Seq(Txs)) :
           /\ n \in 1..Len(B) /\ A[n] = B[n]
           /\ Len(seqs) = Len(A) - n
           /\ \A k \in 1..Len(seqs) : n + k \in (n + 1)..Len(A) /\ seqs[k] = A[n + k].transactions
           /\ ReturnedOldestFirst(UpdateFor(c, b)) = FlattenSeq(seqs)
<1> DEFINE u == UpdateFor(c, b)
           blocks == Reverse(u.disconnected)
           seqs == [i \in DOMAIN blocks |-> blocks[i].transactions]
<1>1. Reports(u, A, B)
  BY UpdateIsExact DEF ChainSound
<1>2. ReturnedOldestFirst(u) = FlattenSeq(seqs)
  BY Zenon DEF ReturnedOldestFirst, TransactionsOf
<1> HIDE DEF u
<1>3. A \in Seq(Known(c)) /\ Len(A) \in Nat
  BY BranchIsBranch, TipSound DEF ChainSound, IsBranch
<1>4. B \in Seq(Known(AddBlock(c, b))) /\ Len(B) \in Nat
  <2> DEFINE d == AddBlock(c, b)
  <2>1. ChainSound(d) /\ b \in Known(d)
    BY AcceptKeepsChain, TipSound
  <2> HIDE DEF d
  <2>2. IsBranch(Branch(d.entries, b), b, Known(d))
    BY <2>1, BranchIsBranch DEF ChainSound
  <2> QED
    BY <2>2 DEF IsBranch, d
<1>5. PICK n \in 1..Len(A) : /\ n <= Len(B) /\ SubSeq(A, 1, n) = SubSeq(B, 1, n)
                             /\ u.disconnected = Reverse(SubSeq(A, n + 1, Len(A)))
  BY <1>1 DEF Reports
<1>6. n \in 1..Len(B) /\ A[n] = B[n]
  <2>1. SubSeq(A, 1, n)[n] = A[n] /\ SubSeq(B, 1, n)[n] = B[n]
    BY <1>3, <1>4, <1>5
  <2> QED
    BY <1>3, <1>4, <1>5, <2>1
<1> DEFINE s == SubSeq(A, n + 1, Len(A))
           l == Len(A) - n
<1>7. /\ l \in Nat /\ s \in Seq(Known(c)) /\ Len(s) = l
      /\ \A k \in 1..l : n + k \in (n + 1)..Len(A) /\ s[k] = A[n + k]
  BY <1>3
<1> HIDE DEF s, l
<1>8. blocks = s
  <2> DEFINE r == Reverse(s)
  <2>1. r \in Seq(Known(c)) /\ Len(r) = l /\ \A k \in 1..l : r[k] = s[l - k + 1]
    BY <1>7, ReverseFacts
  <2> HIDE DEF r
  <2>2. Reverse(r) \in Seq(Known(c)) /\ Len(Reverse(r)) = l
        /\ \A k \in 1..l : Reverse(r)[k] = r[l - k + 1]
    BY <2>1, ReverseFacts
  <2>3. \A k \in 1..l : l - k + 1 \in 1..l /\ l - (l - k + 1) + 1 = k
    BY <1>7
  <2>4. \A k \in 1..l : Reverse(r)[k] = s[k]
    BY <2>1, <2>2, <2>3
  <2>5. Reverse(r) = s
    <3> DEFINE v == Reverse(r)
    <3>1. v \in Seq(Known(c)) /\ Len(v) = Len(s) /\ \A k \in 1..Len(s) : v[k] = s[k]
      BY <1>7, <2>2, <2>4
    <3> HIDE DEF v
    <3>2. v = s
      BY <1>7, <3>1
    <3> QED
      BY <3>2 DEF v
  <2> QED
    BY <1>5, <2>5 DEF r, s
<1> HIDE DEF blocks
<1>9. /\ seqs \in Seq(Seq(Txs)) /\ Len(seqs) = l
      /\ \A k \in 1..l : seqs[k] = A[n + k].transactions
  <2>1. DOMAIN blocks = 1..l /\ \A k \in 1..l : blocks[k] = A[n + k] /\ blocks[k] \in Known(c)
    BY <1>7, <1>8
  <2>2. \A k \in 1..l : blocks[k].transactions \in Seq(Txs)
    BY <2>1 DEF ChainSound
  <2> QED
    BY <1>7, <2>1, <2>2
<1> HIDE DEF seqs
<1> QED
  BY <1>2, <1>6, <1>7, <1>9 DEF u, l

LEMMA ReturnedTyped ==
  ASSUME NEW c, ChainSound(c), NEW b, Offered(b), AddOutcome(c, b) = "accepted",
         AddBlock(c, b).tip = b
  PROVE  ReturnedOldestFirst(UpdateFor(c, b)) \in Seq(Txs)
<1>1. \E seqs \in Seq(Seq(Txs)) : ReturnedOldestFirst(UpdateFor(c, b)) = FlattenSeq(seqs)
  BY ReturnedBodies
<1> QED
  BY <1>1, FlattenIsFlat

-----------------------------------------------------------------------------
(***************************************************************************)
(* The transactions of a block template.                                   *)
(***************************************************************************)
NoneSelected(st) == [selected |-> <<>>, working |-> st, blocked |-> {}]

IsSelection(round, p, st, height, n) ==
  round = [i \in 0..n |-> IF i = 0 THEN NoneSelected(st)
                                   ELSE SelectRound(p, round[i - 1], height)]

LEMMA SelectionExists ==
  ASSUME NEW p, NEW st, NEW height, NEW n \in Nat
  PROVE  \E round : /\ IsSelection(round, p, st, height, n)
                    /\ Select(p, st, height, n) = round[n].selected
<1> DEFINE Step(x) == SelectRound(p, x, height)
           Body(g, i) == IF i = 0 THEN NoneSelected(st) ELSE Step(g[i - 1])
           H == {m \in Nat : \E g : g = [i \in 0..m |-> Body(g, i)]}
<1>1. 0 \in H
  <2> DEFINE g == [i \in 0..0 |-> NoneSelected(st)]
  <2>1. g = [i \in 0..0 |-> Body(g, i)]
    OBVIOUS
  <2> QED
    BY <2>1
<1>2. ASSUME NEW m \in Nat, m \in H PROVE m + 1 \in H
  <2>1. PICK g : g = [i \in 0..m |-> Body(g, i)]
    BY <1>2
  <2> DEFINE h == [i \in 0..(m + 1) |-> IF i <= m THEN g[i] ELSE Step(g[m])]
  <2> HIDE DEF Step
  <2>2. (\A i \in 0..m : h[i] = g[i]) /\ h[m + 1] = Step(h[m])
    OBVIOUS
  <2>3. \A i \in 0..m : g[i] = Body(g, i)
    <3> HIDE DEF Body
    <3> QED
      BY <2>1
  <2>4. h = [i \in 0..(m + 1) |-> h[i]]
    OBVIOUS
  <2> HIDE DEF h
  <2>5. \A i \in 0..m : h[i] = Body(h, i)
    <3>1. \A i \in 0..m : i # 0 => i - 1 \in 0..m
      OBVIOUS
    <3> QED
      BY <2>2, <2>3, <3>1
  <2>6. \A i \in 0..(m + 1) : h[i] = Body(h, i)
    <3>1. h[m + 1] = Body(h, m + 1)
      BY <2>2
    <3>2. \A i \in 0..(m + 1) : i \in 0..m \/ i = m + 1
      OBVIOUS
    <3> HIDE DEF Body
    <3> QED
      BY <2>5, <3>1, <3>2
  <2> HIDE DEF Body
  <2>7. h = [i \in 0..(m + 1) |-> Body(h, i)]
    BY <2>4, <2>6
  <2> QED
    BY <2>7
<1>3. Nat \subseteq H
  <2> HIDE DEF H
  <2> QED
    BY <1>1, <1>2, Induction
<1>4. \E g : g = [i \in 0..n |-> Body(g, i)]
  <2> HIDE DEF Body
  <2> QED
    BY <1>3
<1> QED
  BY <1>4, Zenon DEF IsSelection, Select, NoneSelected

LEMMA RoundTyped ==
  ASSUME NEW p, IsFiniteSet(p.txs), Comparable(p.txs), NEW sel, sel.selected \in Seq(Txs),
         NEW height
  PROVE  SelectRound(p, sel, height).selected \in Seq(Txs)
<1> DEFINE eligible == {t \in p.txs : /\ t.sender \notin sel.blocked
                                      /\ t.nonce = sel.working.accounts[t.sender].nonce}
           tried == Sorted(eligible, PaysMore)
           fit == {i \in DOMAIN tried : Applies(sel.working, tried[i], height)}
           next == [selected |-> Append(sel.selected, tried[Min(fit)]),
                    working  |-> ApplyValidated(sel.working, tried[Min(fit)]),
                    blocked  |-> BlockedAfter(sel.blocked, tried, Min(fit))]
<1>1. SelectRound(p, sel, height) = IF fit = {} THEN sel ELSE next
  BY Zenon DEF SelectRound
<1>2. eligible \in SUBSET p.txs
  OBVIOUS
<1> HIDE DEF eligible
<1>3. IsFiniteSet(eligible) /\ Comparable(eligible)
  BY <1>2, FS_Subset DEF Comparable
<1>4. tried \in Seq(eligible)
  BY <1>3, FeeSorts DEF Lists
<1> HIDE DEF tried
<1>5. CASE fit = {}
  BY <1>1, <1>5
<1>6. CASE fit # {}
  <2>1. fit \in SUBSET Nat /\ fit \subseteq 1..Len(tried)
    BY <1>4
  <2>2. Min(fit) \in fit
    <3> HIDE DEF fit
    <3>1. \E x \in fit : \A y \in fit : x <= y
      BY <1>6, <2>1, NatMin
    <3> QED
      BY <3>1 DEF Min
  <2> HIDE DEF fit
  <2>3. tried[Min(fit)] \in Txs
    <3>1. tried[Min(fit)] \in eligible
      <4> DEFINE m == Min(fit)
      <4>1. m \in 1..Len(tried)
        BY <2>1, <2>2
      <4> HIDE DEF m
      <4>2. tried[m] \in eligible
        BY <1>4, <4>1
      <4> QED
        BY <4>2 DEF m
    <3> QED
      BY <1>2, <3>1 DEF Comparable
  <2>4. next.selected = Append(sel.selected, tried[Min(fit)])
    OBVIOUS
  <2> HIDE DEF next
  <2> QED
    BY <1>1, <1>6, <2>3, <2>4, AppendFacts
<1> QED
  BY <1>5, <1>6

LEMMA SelectTyped ==
  ASSUME NEW p, IsFiniteSet(p.txs), Comparable(p.txs), NEW st, NEW height, NEW n \in Nat
  PROVE  Select(p, st, height, n) \in Seq(Txs)
<1>1. PICK round : /\ IsSelection(round, p, st, height, n)
                   /\ Select(p, st, height, n) = round[n].selected
  BY SelectionExists
<1> DEFINE H == {i \in Nat : i <= n => round[i].selected \in Seq(Txs)}
<1>2. 0 \in H
  <2>1. round[0] = NoneSelected(st)
    BY <1>1 DEF IsSelection
  <2>2. NoneSelected(st).selected = <<>> /\ <<>> \in Seq(Txs)
    BY DEF NoneSelected
  <2> QED
    BY <2>1, <2>2
<1>3. ASSUME NEW i \in Nat, i \in H PROVE i + 1 \in H
  <2> SUFFICES ASSUME i + 1 <= n PROVE round[i + 1].selected \in Seq(Txs)
    OBVIOUS
  <2>1. round[i].selected \in Seq(Txs)
    BY <1>3
  <2>2. round[i + 1] = SelectRound(p, round[i], height)
    <3>1. i + 1 \in 0..n /\ i + 1 # 0 /\ (i + 1) - 1 = i
      OBVIOUS
    <3> QED
      BY <1>1, <3>1 DEF IsSelection
  <2> QED
    BY <2>1, <2>2, RoundTyped
<1>4. Nat \subseteq H
  <2> HIDE DEF H
  <2> QED
    BY <1>2, <1>3, Induction
<1> QED
  BY <1>1, <1>4

-----------------------------------------------------------------------------
(***************************************************************************)
(* The inductive invariant: every branch of the tree carries a sound       *)
(* state, and the pool is ready for the next block.                        *)
(***************************************************************************)
IInv == ChainSound(chain) /\ Ready(pool, state, NextHeight)

LEMMA InitIInv == Init => IInv
<1> SUFFICES ASSUME Init PROVE IInv
  OBVIOUS
<1>1. ChainSound(chain) /\ pool = EmptyPool
  BY EmptyChainIsSound DEF Init
<1>2. state.accounts \in Table
  BY <1>1, TipSound DEF state
<1> QED
  BY <1>1, <1>2, EmptyPoolReady DEF IInv

LEMMA SubmitTransactionIInv ==
  ASSUME IInv, NEW tx \in Txs, SubmitTransaction(tx)
  PROVE  IInv'
<1>1. chain' = chain /\ pool' = Add(pool, state, tx, NextHeight)
  BY DEF SubmitTransaction
<1>2. state' = state /\ NextHeight' = NextHeight
  BY <1>1 DEF state, NextHeight
<1>3. ChainSound(chain) /\ Ready(pool, state, NextHeight) /\ state.accounts \in Table
  BY TipSound DEF IInv, state
<1>4. Ready(Add(pool, state, tx, NextHeight), state, NextHeight)
  BY <1>3, AddKeepsReady
<1>5. Ready(pool, state, NextHeight)'
  BY <1>1, <1>2, <1>4
<1> QED
  BY <1>1, <1>3, <1>5 DEF IInv

LEMMA SubmitBlockIInv ==
  ASSUME IInv, NEW b, Offered(b), SubmitBlock(b)
  PROVE  IInv'
<1> DEFINE d == AddBlock(chain, b)
           update == UpdateFor(chain, b)
<1>1. /\ AddOutcome(chain, b) = "accepted" /\ chain' = d
      /\ pool' = IF update.becameActive THEN Reconcile(pool, d, update) ELSE pool
  BY Zenon DEF SubmitBlock
<1>2. ChainSound(chain) /\ ChainSound(d) /\ Ready(pool, state, NextHeight)
  BY <1>1, AcceptKeepsChain DEF IInv
<1>3. CASE d.tip = b
  <2>1. update.becameActive
    BY <1>1, <1>2, <1>3, UpdateIsExact DEF ChainSound
  <2>2. ReturnedOldestFirst(update) \in Seq(Txs)
    BY <1>1, <1>2, <1>3, ReturnedTyped
  <2>3. IsFiniteSet(pool.txs) /\ Comparable(pool.txs)
    BY <1>2, QueueFacts DEF Ready, Queue
  <2>4. TipEntry(d).state.accounts \in Table
    BY <1>2, TipSound
  <2> HIDE DEF d, update
  <2>5. Ready(Reconcile(pool, d, update), TipEntry(d).state, ExecutionHeight(d))
    BY <2>2, <2>3, <2>4, ReconcileReady
  <2>6. state' = TipEntry(d).state /\ NextHeight' = ExecutionHeight(d)
        /\ pool' = Reconcile(pool, d, update)
    BY <1>1, <2>1 DEF state, NextHeight, ExecutionHeight
  <2>7. Ready(pool, state, NextHeight)'
    BY <2>5, <2>6
  <2> QED
    BY <1>1, <1>2, <2>7 DEF IInv
<1>4. CASE d.tip # b
  <2>1. update.becameActive = FALSE
    BY <1>4 DEF UpdateFor, UpdateBetween, SideBranchUpdate
  <2>2. d.tip = chain.tip /\ d.entries[chain.tip] = chain.entries[chain.tip]
    <3>1. EntriesTyped(chain) /\ chain.tip \in Known(chain)
      BY <1>2, TipSound DEF ChainSound, TreeSound
    <3> QED
      BY <1>1, <1>4, <3>1, AddEffects
  <2> HIDE DEF d, update
  <2>3. pool' = pool /\ state' = state /\ NextHeight' = NextHeight
    BY <1>1, <2>1, <2>2 DEF state, NextHeight, TipEntry
  <2>4. Ready(pool, state, NextHeight)'
    BY <1>2, <2>3
  <2> QED
    BY <1>1, <1>2, <2>4 DEF IInv
<1> QED
  BY <1>3, <1>4

LEMMA BlocksOffered == \A b \in Blocks : Offered(b)
<1> SUFFICES ASSUME NEW b \in Blocks PROVE Offered(b)
  OBVIOUS
<1>1. /\ b.transactions \in Seq(Range(b.transactions))
      /\ b.sealed => b.miner \in Addresses /\ b.timestamp \in 0..U64Max
      /\ \A t \in Range(b.transactions) : t.authentic => t \in Txs
  BY NodeAssumption DEF NodeAssumption
<1>2. \A i \in 1..Len(b.transactions) : b.transactions[i] \in Range(b.transactions)
  BY <1>1
<1>3. \A t \in Txs : t.authentic => NamesAddresses(t)
  BY NodeAssumption DEF NodeAssumption, NamesAddresses
<1> QED
  BY <1>1, <1>2, <1>3 DEF Offered

LEMMA TemplateOffered ==
  ASSUME IInv, NEW miner \in Miners, NEW limit \in BlockLimits, NEW delay,
         Template(miner, limit, delay).ok
  PROVE  Offered(Template(miner, limit, delay).block)
<1> DEFINE txs == Select(pool, state, NextHeight, limit)
           b == Template(miner, limit, delay).block
<1>1. b.transactions = txs /\ b.miner = miner /\ b.timestamp \in 0..U64Max
  BY DEF Template, BuildCandidate, BuildBlockCandidate, Candidate
<1>2. txs \in Seq(Txs)
  <2>1. IsFiniteSet(pool.txs) /\ Comparable(pool.txs)
    BY QueueFacts DEF IInv, Ready, Queue
  <2>2. limit \in Nat
    BY NodeAssumption, LedgerAssumption DEF NodeAssumption, LedgerAssumption
  <2> QED
    BY <2>1, <2>2, SelectTyped
<1> HIDE DEF b, txs
<1>3. miner \in Addresses /\ \A t \in Txs : t.authentic => NamesAddresses(t)
  BY NodeAssumption DEF NodeAssumption, NamesAddresses
<1>4. Offered(b)
  BY <1>1, <1>2, <1>3 DEF Offered
<1> QED
  BY <1>4 DEF b

LEMMA NextIInv == IInv /\ [Next]_vars => IInv'
<1> SUFFICES ASSUME IInv, [Next]_vars PROVE IInv'
  OBVIOUS
<1>1. ASSUME NEW tx \in Txs, SubmitTransaction(tx) PROVE IInv'
  BY <1>1, SubmitTransactionIInv
<1>2. ASSUME NEW tx \in Txs, Send(tx) PROVE IInv'
  <2>1. SubmitTransaction(tx)
    BY <1>2 DEF Send
  <2> QED
    BY <2>1, SubmitTransactionIInv
<1>3. ASSUME NEW b \in Blocks, SubmitBlock(b) PROVE IInv'
  BY <1>3, BlocksOffered, SubmitBlockIInv
<1>4. CASE UNCHANGED vars
  BY <1>4 DEF IInv, vars, state, NextHeight
<1>5. ASSUME NEW miner \in Miners, NEW limit \in BlockLimits, NEW delay \in MineDelays,
             Mine(miner, limit, delay)
      PROVE  IInv'
  <2> DEFINE template == Template(miner, limit, delay)
  <2>1. (template.ok /\ SubmitBlock(template.block)) \/ UNCHANGED vars
    BY <1>5, Zenon DEF Mine
  <2>2. CASE template.ok /\ SubmitBlock(template.block)
    BY <2>2, TemplateOffered, SubmitBlockIInv
  <2> QED
    BY <1>4, <2>1, <2>2
<1>6. ASSUME NEW b \in Blocks, RefuseBlock(b) PROVE IInv'
  BY <1>4, <1>6 DEF RefuseBlock
<1> QED
  BY <1>1, <1>2, <1>3, <1>4, <1>5, <1>6 DEF Next

(* The inductive invariant holds in every reachable state of the node. *)
THEOREM Invariance == Spec => []IInv
BY InitIInv, NextIInv, PTL DEF Spec

(* Both dictionaries of the pool list the same transactions, whatever was
   submitted, mined and reorganized (add, remove, clear). *)
THEOREM IndexExactTheorem == Spec => []IndexExact
<1>1. IInv => IndexExact
  BY DEF IInv, Ready, Indexed, IndexExact
<1> QED
  BY <1>1, Invariance, PTL

(* The pool holds signed transactions within its limits, also after a
   reorganization has returned those of the disconnected blocks. *)
THEOREM TypeCorrect == Spec => []TypeOK
<1>1. IInv => TypeOK
  <2> SUFFICES ASSUME IInv PROVE TypeOK
    OBVIOUS
  <2>1. chain.tip \in known /\ pool.txs \subseteq Txs
    BY TipSound DEF IInv, known, Ready, Queue
  <2>2. Limited(pool)
    BY DEF IInv, Ready
  <2>3. \A t \in pool.txs : t.sender \in Addresses /\ t.nonce \in 0..U64Max
    BY QueueFacts DEF IInv, Ready, Queue, ValidTransaction
  <2>4. DOMAIN pool.index \subseteq Addresses \X (0..U64Max)
    BY <2>3 DEF IInv, Ready, Indexed
  <2> QED
    BY <2>1, <2>2, <2>4 DEF TypeOK, Limited
<1> QED
  BY <1>1, Invariance, PTL

-----------------------------------------------------------------------------
(***************************************************************************)
(* Executing the whole pool in the next block.                             *)
(***************************************************************************)
(* A nonce counts the transactions its account has had confirmed.  Only with
   more transactions than a nonce can count does one of them get the last
   nonce, which add admits and apply_transactions refuses. *)
FewTransactions == IsFiniteSet(Txs) /\ Cardinality(Txs) <= U64Max

(* A state that a batch reaches on the way. *)
Underway(st) ==
  /\ st.accounts \in Table /\ NoncesExact(st) /\ st.confirmed \subseteq Txs
  /\ Total(st.accounts) <= MaxSupply

LEMMA HeadExecutes ==
  ASSUME FewTransactions, NEW st, Underway(st), NEW height, NEW S, Queue(S, st, height),
         NEW x \in S, \A u \in S : u.sender = x.sender => x.nonce <= u.nonce
  PROVE  /\ Executable(st, x, height) /\ ~RecipientOverflows(st, x)
         /\ x.fee <= Total(st.accounts)
         /\ x.nonce = st.accounts[x.sender].nonce
<1> DEFINE s == x.sender
           F == From(S, s)
           first == st.accounts[s].nonce
           c == Cardinality(F)
           bal == st.accounts[s].balance
<1>1. /\ x.amount \in Nat /\ x.fee \in Nat /\ x.nonce \in Nat
      /\ s \in Addresses /\ x.recipient \in Addresses /\ x \in Txs
  BY AmountsTyped, TxNamesAddresses DEF Queue, NamesAddresses
<1>2. x \in F /\ IsFiniteSet(F) /\ Priced(F) /\ c \in Nat
  BY QueueFacts DEF From
<1>3. /\ first \in Nat /\ bal \in Nat /\ Total(st.accounts) \in Nat
      /\ bal <= Total(st.accounts)
      /\ x.recipient # s => bal + st.accounts[x.recipient].balance <= Total(st.accounts)
      /\ st.accounts[x.recipient].balance \in Nat
  BY <1>1, BalancesBounded DEF Underway
<1>4. {t.nonce : t \in F} = first..(first + c - 1) /\ CostOf(F) <= bal
  BY <1>1 DEF Queue
<1>5. x.nonce = first
  <2>1. x.nonce \in first..(first + c - 1)
    BY <1>2, <1>4
  <2>2. first \in {t.nonce : t \in F}
    <3>1. first \in first..(first + c - 1)
      <4> HIDE DEF first, c
      <4> QED
        BY <1>1, <1>2, <1>3, <2>1
    <3> QED
      BY <1>4, <3>1
  <2>3. PICK u \in F : u.nonce = first
    BY <2>2
  <2>4. x.nonce <= u.nonce
    BY <2>3 DEF From
  <2> HIDE DEF first, c
  <2> QED
    BY <1>1, <1>2, <1>3, <2>1, <2>3, <2>4
<1>6. x.amount + x.fee <= bal
  <2> DEFINE G == F \ {x}
  <2>1. F = G \cup {x} /\ x \notin G
    BY <1>2
  <2> HIDE DEF F, G
  <2>2. CostOf(G) \in Nat /\ CostOf(F) = CostOf(G) + x.amount + x.fee
    BY <1>2, <2>1, CostAdds
  <2> HIDE DEF bal
  <2> QED
    BY <1>1, <1>3, <1>4, <2>2
<1>7. first # U64Max
  <2> DEFINE C == Sent(st, s)
  <2>1. IsFiniteSet(C) /\ Cardinality(C) = first /\ C \cup {x} \in SUBSET Txs /\ x \notin C
    BY <1>1 DEF Underway, NoncesExact, Sent, Queue
  <2> HIDE DEF C, first
  <2>2. Cardinality(C \cup {x}) = first + 1
    BY <2>1, FS_AddElement
  <2>3. Cardinality(C \cup {x}) <= Cardinality(Txs) /\ Cardinality(Txs) \in Nat
    BY <2>1, FS_Subset, FS_CardinalityType DEF FewTransactions
  <2>4. U64Max \in Nat /\ Cardinality(Txs) <= U64Max
    BY LedgerAssumption DEF LedgerAssumption, FewTransactions
  <2> QED
    BY <1>3, <2>2, <2>3, <2>4
<1>8. MaxSupply \in Nat /\ U64Max \in Nat /\ MaxSupply <= U64Max /\ Total(st.accounts) <= MaxSupply
  BY LedgerAssumption DEF LedgerAssumption, Underway
<1>9. ValidTransaction(x, height) /\ x \notin st.confirmed
  BY DEF Queue
<1>10. Executable(st, x, height)
  BY <1>5, <1>6, <1>7, <1>9 DEF Executable, NonceIsNext, CoversCost
<1>11. ~RecipientOverflows(st, x)
  <2> SUFFICES ASSUME x.recipient # s
               PROVE  ~(st.accounts[x.recipient].balance + x.amount > U64Max)
    BY DEF RecipientOverflows
  <2> DEFINE r == st.accounts[x.recipient].balance
             tot == Total(st.accounts)
  <2>1. r \in Nat /\ bal + r <= tot /\ tot \in Nat /\ tot <= MaxSupply
    BY <1>3, <1>8
  <2> HIDE DEF r, bal, tot
  <2>2. ~(r + x.amount > U64Max)
    BY <1>1, <1>3, <1>6, <1>8, <2>1
  <2> QED
    BY <2>2 DEF r
<1>12. x.fee <= Total(st.accounts)
  <2> DEFINE tot == Total(st.accounts)
  <2>1. tot \in Nat /\ bal <= tot
    BY <1>3
  <2> HIDE DEF bal, tot
  <2>2. x.fee <= tot
    BY <1>1, <1>3, <1>6, <2>1
  <2> QED
    BY <2>2 DEF tot
<1> QED
  BY <1>5, <1>10, <1>11, <1>12

LEMMA ApplyBalances ==
  ASSUME NEW st, st.accounts \in Table, NEW x, NamesAddresses(x),
         x.amount \in Nat, x.fee \in Nat
  PROVE  \A a \in Addresses :
           ApplyValidated(st, x).accounts[a].balance >=
             IF a = x.sender THEN st.accounts[a].balance - x.amount - x.fee
                             ELSE st.accounts[a].balance
<1> DEFINE t == st.accounts
           s == x.sender
           r == x.recipient
           debited == [balance |-> t[s].balance - Cost(x), nonce |-> t[s].nonce + 1]
           paid == [t EXCEPT ![s] = debited]
           after == ApplyValidated(st, x).accounts
<1>1. s \in Addresses /\ r \in Addresses /\ DOMAIN t = Addresses
      /\ \A a \in Addresses : t[a].balance \in Nat
  BY BalancesBounded DEF NamesAddresses, Table
<1>2. Cost(x) \in Nat /\ Cost(x) <= x.amount + x.fee
  BY DEF Cost
<1>3. \A a \in Addresses : paid[a].balance = IF a = s THEN t[a].balance - Cost(x) ELSE t[a].balance
  BY <1>1
<1>4. CASE r = s
  <2>1. after = paid
    BY <1>4 DEF ApplyValidated
  <2> HIDE DEF paid, after, t
  <2>2. \A a \in Addresses : after[a].balance >= IF a = s THEN t[a].balance - x.amount - x.fee
                                                          ELSE t[a].balance
    BY <1>1, <1>2, <1>3, <2>1
  <2> QED
    BY <2>2 DEF after, t
<1>5. CASE r # s
  <2>1. after = [paid EXCEPT ![r].balance = @ + x.amount]
    BY <1>5 DEF ApplyValidated
  <2>2. paid[r] = t[r] /\ t[r] \in Account /\ r \in DOMAIN paid
    BY <1>1, <1>5 DEF Table
  <2> HIDE DEF paid, after
  <2>3. after[r].balance = t[r].balance + x.amount
    <3>1. after[r] = [paid[r] EXCEPT !.balance = @ + x.amount]
      BY <2>1, <2>2
    <3> QED
      BY <2>2, <3>1 DEF Account
  <2>4. \A a \in Addresses : a # r => after[a] = paid[a]
    BY <1>1, <2>1 DEF paid
  <2> HIDE DEF t
  <2>5. \A a \in Addresses : after[a].balance >= IF a = s THEN t[a].balance - x.amount - x.fee
                                                          ELSE t[a].balance
    BY <1>1, <1>2, <1>3, <1>5, <2>3, <2>4
  <2> QED
    BY <2>5 DEF after, t
<1> QED
  BY <1>4, <1>5

LEMMA QueueShrinks ==
  ASSUME NEW st, st.accounts \in Table, NEW height, NEW S, Queue(S, st, height), NEW x \in S,
         Executable(st, x, height), ~RecipientOverflows(st, x),
         x.nonce = st.accounts[x.sender].nonce
  PROVE  Queue(S \ {x}, ApplyValidated(st, x), height)
<1> DEFINE W == S \ {x}
           u == ApplyValidated(st, x)
           s == x.sender
           F == From(S, s)
           first == st.accounts[s].nonce
           c == Cardinality(F)
<1>1. /\ NamesAddresses(x) /\ s \in Addresses
      /\ x.amount \in Nat /\ x.fee \in Nat /\ x.nonce \in Nat
  BY AmountsTyped, TxNamesAddresses DEF Queue
<1>2. /\ u.accounts \in Table /\ u.confirmed = st.confirmed \cup {x}
      /\ \A a \in Addresses : u.accounts[a].nonce = IF a = s THEN st.accounts[a].nonce + 1
                                                           ELSE st.accounts[a].nonce
  BY <1>1, ApplyEffects
<1>3. \A a \in Addresses :
        u.accounts[a].balance >= IF a = s THEN st.accounts[a].balance - x.amount - x.fee
                                          ELSE st.accounts[a].balance
  BY <1>1, ApplyBalances
<1>4. \A a \in Addresses : /\ st.accounts[a].balance \in Nat /\ st.accounts[a].nonce \in Nat
                           /\ u.accounts[a].balance \in Nat
  BY <1>2, BalancesBounded
<1> HIDE DEF u
<1>5. x \in F /\ IsFiniteSet(F) /\ Priced(F) /\ c \in Nat
  BY QueueFacts DEF From
<1>6. From(W, s) = F \ {x} /\ \A a : a # s => From(W, a) = From(S, a)
  BY DEF From
<1>7. {t.nonce : t \in F} = first..(first + c - 1) /\ CostOf(F) <= st.accounts[s].balance
  BY <1>1 DEF Queue
<1>8. Cardinality(F \ {x}) = c - 1
  <2> HIDE DEF F
  <2> QED
    BY <1>5, FS_RemoveElement DEF c
<1>9. {t.nonce : t \in F \ {x}} = (first + 1)..((first + 1) + (c - 1) - 1)
  <2>1. \A t \in F : t.nonce = x.nonce => t = x
    BY <1>5 DEF From, Queue
  <2>2. {t.nonce : t \in F \ {x}} = {t.nonce : t \in F} \ {x.nonce}
    BY <1>5, <2>1
  <2>3. first..(first + c - 1) \ {first} = (first + 1)..((first + 1) + (c - 1) - 1)
    <3> HIDE DEF first, c
    <3>1. first \in Nat
      BY <1>1, <1>4 DEF first
    <3> QED
      BY <1>5, <3>1
  <2>4. x.nonce = first
    OBVIOUS
  <2> HIDE DEF first, c, F
  <2> QED
    BY <1>7, <2>2, <2>3, <2>4
<1>10. CostOf(F) = CostOf(F \ {x}) + x.amount + x.fee /\ CostOf(F \ {x}) \in Nat
  <2> DEFINE G == F \ {x}
  <2>1. F = G \cup {x} /\ x \notin G
    BY <1>5
  <2> HIDE DEF F, G
  <2>2. CostOf(G) \in Nat /\ CostOf(F) = CostOf(G) + x.amount + x.fee
    BY <1>5, <2>1, CostAdds
  <2> QED
    BY <2>2 DEF G
<1>11. W \subseteq Txs /\ IsFiniteSet(W)
  BY FS_RemoveElement DEF Queue
<1>12. \A t \in W : ValidTransaction(t, height) /\ t \notin u.confirmed
  BY <1>2 DEF Queue
<1>13. \A t, v \in W : t.sender = v.sender /\ t.nonce = v.nonce => t = v
  BY DEF Queue
<1>14. ASSUME NEW a \in Addresses
       PROVE  LET n == u.accounts[a].nonce
                  k == Cardinality(From(W, a))
              IN  /\ {t.nonce : t \in From(W, a)} = n..(n + k - 1)
                  /\ CostOf(From(W, a)) <= u.accounts[a].balance
  <2>1. CASE a = s
    <3>1. u.accounts[a].nonce = first + 1
      BY <1>2, <2>1
    <3>2. CostOf(F \ {x}) <= u.accounts[a].balance
      <4> DEFINE k == CostOf(F \ {x})
                 b == st.accounts[s].balance
                 d == u.accounts[s].balance
      <4>1. b \in Nat /\ d \in Nat /\ d >= b - x.amount - x.fee /\ k \in Nat
            /\ k + x.amount + x.fee <= b
        BY <1>1, <1>3, <1>4, <1>7, <1>10
      <4> HIDE DEF k, b, d
      <4>2. k <= d
        BY <1>1, <4>1
      <4> QED
        BY <2>1, <4>2 DEF k, d
    <3> HIDE DEF W, F, first, c
    <3> QED
      BY <1>6, <1>8, <1>9, <2>1, <3>1, <3>2
  <2>2. CASE a # s
    <3> DEFINE k == CostOf(From(S, a))
               b == st.accounts[a].balance
               d == u.accounts[a].balance
    <3>1. From(W, a) = From(S, a) /\ u.accounts[a].nonce = st.accounts[a].nonce
      BY <1>2, <1>6, <2>2
    <3>2. k <= b /\ d >= b /\ b \in Nat /\ d \in Nat /\ k \in Int
      <4>1. k \in Int
        <5>1. PICK sum : IsSum(sum, Price(From(S, a)), From(S, a)) /\ k = sum[From(S, a)]
          BY QueueFacts, CostIsSum
        <5>2. /\ Price(From(S, a)) \in [From(S, a) -> Nat] /\ IsFiniteSet(From(S, a))
          BY QueueFacts, CostIsSum
        <5> DEFINE E == From(S, a)
        <5> HIDE DEF E, k
        <5>3. \A T \in SUBSET E : sum[T] \in Nat
          BY <5>1, <5>2, SumIsNatural DEF E
        <5>4. E \in SUBSET E
          OBVIOUS
        <5> QED
          BY <5>1, <5>3, <5>4 DEF E
      <4> QED
        BY <1>3, <1>4, <2>2, <4>1 DEF Queue
    <3>3. k <= d
      <4> HIDE DEF k, b, d
      <4> QED
        BY <3>2
    <3> HIDE DEF W
    <3> QED
      BY <3>1, <3>3 DEF Queue
  <2> QED
    BY <2>1, <2>2
<1> QED
  BY <1>11, <1>12, <1>13, <1>14 DEF Queue, u

(* The next of a sender in what is left of a queue executes, whatever was
   executed before. *)
LEMMA QueueAdvances ==
  ASSUME FewTransactions, NEW st, NEW supply, StateSound(st, supply), NEW height,
         NEW now, now.accounts \in Table, NoncesExact(now), now.confirmed \subseteq Txs,
         NEW fees \in 0..U64Max, Total(now.accounts) = Total(st.accounts) - fees,
         NEW S, Queue(S, now, height), NEW x \in S,
         \A u \in S : u.sender = x.sender => x.nonce <= u.nonce
  PROVE  /\ Executable(now, x, height) /\ ~RecipientOverflows(now, x)
         /\ fees + x.fee <= U64Max
         /\ Queue(S \ {x}, ApplyValidated(now, x), height)
<1> DEFINE a == Total(now.accounts)
           b == Total(st.accounts)
<1>1. /\ b \in Nat /\ b <= MaxSupply /\ MaxSupply \in Nat /\ U64Max \in Nat
      /\ MaxSupply <= U64Max /\ fees \in Nat /\ a = b - fees
  BY LedgerAssumption DEF LedgerAssumption, StateSound
<1>2. Underway(now)
  <2>1. a <= MaxSupply
    <3> HIDE DEF a, b
    <3> QED
      BY <1>1
  <2> QED
    BY <2>1 DEF Underway
<1>3. /\ Executable(now, x, height) /\ ~RecipientOverflows(now, x)
      /\ x.fee <= a /\ x.nonce = now.accounts[x.sender].nonce
  BY <1>2, HeadExecutes
<1>4. x.fee \in Nat
  BY <1>3, AmountsTyped DEF Executable
<1> HIDE DEF a, b
<1>5. fees + x.fee <= U64Max
  BY <1>1, <1>3, <1>4
<1>6. Queue(S \ {x}, ApplyValidated(now, x), height)
  BY <1>3, QueueShrinks
<1> QED
  BY <1>3, <1>5, <1>6

(* What is left of order after its first i transactions. *)
Rest(order, i) == {order[j] : j \in (i + 1)..Len(order)}

LEMMA RestFacts ==
  ASSUME NEW S, IsFiniteSet(S), NEW order, Lists(order, S, PoolPairs(S)), Comparable(S),
         NEW i \in Nat, i < Len(order)
  PROVE  /\ order[i + 1] \in Rest(order, i)
         /\ Rest(order, i + 1) = Rest(order, i) \ {order[i + 1]}
         /\ \A u \in Rest(order, i) : u.sender = order[i + 1].sender =>
              order[i + 1].nonce <= u.nonce
<1> DEFINE n == Len(order)
           x == order[i + 1]
<1>1. n \in Nat /\ i + 1 \in 1..n /\ \A j \in 1..n : order[j] \in S
  BY DEF Lists
<1>2. \A j \in 1..n : i + 1 < j => PoolOrder(x, order[j])
  <2> SUFFICES ASSUME NEW j \in 1..n, i + 1 < j PROVE PoolOrder(x, order[j])
    OBVIOUS
  <2>1. <<x, order[j]>> \in PoolPairs(S)
    BY <1>1 DEF Lists
  <2> QED
    BY <2>1 DEF PoolPairs
<1>3. \A u \in S : ~PoolOrder(u, u)
  BY NodeAssumption DEF NodeAssumption, Comparable, PoolOrder
<1> HIDE DEF n
<1>4. x \in Rest(order, i)
  <2>1. i + 1 \in (i + 1)..n
    BY <1>1
  <2> QED
    BY <2>1 DEF Rest, n
<1>5. Rest(order, i) = Rest(order, i + 1) \cup {x}
  <2>1. (i + 1)..n = ((i + 1) + 1)..n \cup {i + 1}
    BY <1>1
  <2> QED
    BY <2>1 DEF Rest, n
<1>6. x \notin Rest(order, i + 1)
  <2> SUFFICES ASSUME NEW j \in ((i + 1) + 1)..n, x = order[j] PROVE FALSE
    BY DEF Rest, n
  <2>1. j \in 1..n /\ i + 1 < j
    BY <1>1
  <2>2. PoolOrder(x, x) /\ x \in S
    BY <1>1, <1>2, <2>1
  <2> QED
    BY <1>3, <2>2
<1>7. ASSUME NEW u \in Rest(order, i), u.sender = x.sender PROVE x.nonce <= u.nonce
  <2>1. PICK j \in (i + 1)..n : u = order[j]
    BY DEF Rest, n
  <2>2. j \in 1..n /\ (j = i + 1 \/ i + 1 < j)
    BY <1>1, <2>1
  <2>3. x.nonce \in Int /\ u.nonce \in Int /\ x.sender \in Int
    BY <1>1, <2>1, <2>2 DEF Comparable
  <2>4. CASE j = i + 1
    BY <2>1, <2>3, <2>4
  <2>5. CASE i + 1 < j
    <3>1. PoolOrder(x, u)
      BY <1>2, <2>1, <2>2, <2>5
    <3> HIDE DEF x
    <3> QED
      BY <1>7, <2>3, <3>1 DEF PoolOrder
  <2> QED
    BY <2>2, <2>4, <2>5
<1> QED
  BY <1>4, <1>5, <1>6, <1>7

LEMMA QueueExecutes ==
  ASSUME FewTransactions, NEW st, NEW supply, StateSound(st, supply), st.confirmed \subseteq Txs,
         NEW height, NEW S, Queue(S, st, height)
  PROVE  ApplyTransactions(st, Sorted(S, PoolOrder), height).ok
<1> DEFINE order == Sorted(S, PoolOrder)
           n == Len(order)
<1>1. IsFiniteSet(S) /\ Comparable(S) /\ \A t \in S : t \in Txs /\ NamesAddresses(t)
  <2>1. \A t \in S : NamesAddresses(t)
    BY TxNamesAddresses DEF Queue
  <2> QED
    BY <2>1, QueueFacts DEF Queue
<1>2. Lists(order, S, PoolPairs(S))
  BY <1>1, PoolSorts
<1> HIDE DEF order
<1>3. n \in Nat /\ order \in Seq(S) /\ \A i \in 1..n : order[i] \in S
  BY <1>2 DEF Lists
<1>4. /\ IsState(st) /\ st.accounts \in Table /\ NoncesExact(st) /\ IsFiniteSet(st.confirmed)
      /\ Total(st.accounts) \in Nat /\ Total(st.accounts) <= MaxSupply
      /\ MaxSupply \in Nat /\ U64Max \in Nat /\ MaxSupply <= U64Max
  BY LedgerAssumption DEF LedgerAssumption, StateSound
<1>5. PICK run : IsRun(run, st, order, height)
                 /\ ApplyTransactions(st, order, height) = run[n]
  BY <1>3, RunExists
<1>6. \A i \in 0..n :
        /\ run[i] = [ok |-> run[i].ok, state |-> run[i].state, fees |-> run[i].fees]
        /\ run[i].ok => BatchDone(run, st, order, height, i)
  <2>1. \A i \in 1..Len(order) : order[i].authentic => NamesAddresses(order[i])
    BY <1>1, <1>3
  <2>2. Len(order) \in Nat
    BY <1>3
  <2> QED
    BY <1>4, <1>5, <2>1, <2>2, BatchSteps
<1>7. run[0] = [ok |-> TRUE, state |-> st, fees |-> 0]
      /\ \A i \in 1..n : run[i] = ApplyNext(run[i - 1], order[i], height)
  <2>1. \A i \in 1..n : i \in 0..n /\ i # 0
    BY <1>3
  <2>2. 0 \in 0..n
    BY <1>3
  <2> QED
    BY <1>5, <2>1, <2>2 DEF IsRun
<1> DEFINE Good(i) == run[i].ok /\ Queue(Rest(order, i), run[i].state, height)
           H == {i \in Nat : i <= n => Good(i)}
<1>8. 0 \in H
  <2>1. Rest(order, 0) = S
    <3>1. S = {order[j] : j \in 1..n}
      BY <1>2, <1>3 DEF Lists
    <3> QED
      BY <3>1 DEF Rest
  <2> QED
    BY <1>7, <2>1
<1>9. ASSUME NEW i \in Nat, i \in H PROVE i + 1 \in H
  <2> SUFFICES ASSUME i + 1 <= n PROVE Good(i + 1)
    OBVIOUS
  <2> DEFINE x == order[i + 1]
             now == run[i].state
             fees == run[i].fees
  <2>1. i \in 0..n /\ i + 1 \in 1..n /\ (i + 1) - 1 = i /\ i < n
    BY <1>3
  <2>2. run[i].ok /\ Queue(Rest(order, i), now, height)
    BY <1>9, <2>1
  <2>3. BatchDone(run, st, order, height, i)
    BY <1>6, <2>1, <2>2
  <2>4. /\ now.accounts \in Table /\ fees \in 0..U64Max
        /\ Total(now.accounts) = Total(st.accounts) - fees
        /\ NoncesExact(now)
        /\ now.confirmed = st.confirmed \cup {order[j] : j \in 1..i}
    BY <2>3 DEF BatchDone
  <2>5. \A j \in 1..i : order[j] \in Txs
    <3>1. \A j \in 1..i : j \in 1..n
      BY <2>1
    <3> QED
      BY <1>1, <1>3, <3>1
  <2>6. now.confirmed \subseteq Txs
    BY <2>4, <2>5
  <2>7. /\ x \in Rest(order, i)
        /\ Rest(order, i + 1) = Rest(order, i) \ {x}
        /\ \A u \in Rest(order, i) : u.sender = x.sender => x.nonce <= u.nonce
    BY <1>1, <1>2, <2>1, RestFacts
  <2> HIDE DEF x, now, fees
  <2>8. /\ Executable(now, x, height) /\ ~RecipientOverflows(now, x)
        /\ fees + x.fee <= U64Max
        /\ Queue(Rest(order, i) \ {x}, ApplyValidated(now, x), height)
    BY <2>2, <2>4, <2>6, <2>7, QueueAdvances
  <2>9. run[i + 1] = ApplyNext(run[i], x, height)
    BY <1>7, <2>1 DEF x
  <2>10. run[i + 1].ok = TRUE /\ run[i + 1].state = ApplyValidated(now, x)
    BY <2>2, <2>8, <2>9 DEF ApplyNext, now, fees
  <2> QED
    BY <2>7, <2>8, <2>10
<1>10. Nat \subseteq H
  <2> HIDE DEF H
  <2> QED
    BY <1>8, <1>9, Induction
<1>11. run[n].ok
  BY <1>3, <1>10
<1> QED
  BY <1>5, <1>11 DEF order

(* Whatever the pool went through, all of it could execute in the very next
   block: per sender it starts at the account nonce without a gap and is funded
   together, and neither a recipient nor the fees can overflow, because no sum
   of balances exceeds the supply (revalidate at height + 1 on the new state). *)
THEOREM PoolExecutableTheorem == FewTransactions /\ Spec => []PoolExecutable
<1>1. FewTransactions /\ Init => FewTransactions /\ IInv
  BY InitIInv
<1>2. (FewTransactions /\ IInv) /\ [Next]_vars => (FewTransactions /\ IInv)'
  BY NextIInv DEF FewTransactions
<1>3. FewTransactions /\ IInv => PoolExecutable
  <2> SUFFICES ASSUME FewTransactions, IInv PROVE PoolExecutable
    OBVIOUS
  <2>1. StateSound(state, TipEntry(chain).supply) /\ state.confirmed \subseteq Txs
    BY TipSound DEF IInv, state
  <2>2. Queue(pool.txs, state, NextHeight)
    BY DEF IInv, Ready
  <2> QED
    BY <2>1, <2>2, QueueExecutes DEF PoolExecutable
<1> QED
  BY <1>1, <1>2, <1>3, PTL DEF Spec

-----------------------------------------------------------------------------
(***************************************************************************)
(* Leaving the pool.                                                       *)
(***************************************************************************)
LEMMA RevalidateKeeps ==
  ASSUME NEW st, st.accounts \in Table, NEW height,
         NEW p, IsFiniteSet(p.txs), Comparable(p.txs), NEW t \in p.txs
  PROVE  LET q == Revalidate(p, st, height)
         IN  t \in q.txs \/ ~Admits(q, st, t, height)
<1> DEFINE order == Sorted(p.txs, PoolOrder)
           q == Revalidate(p, st, height)
<1>1. q = AddEach(EmptyPool, st, order, height)
  BY DEF Revalidate, Clear
<1>2. Lists(order, p.txs, PoolPairs(p.txs))
  BY PoolSorts
<1> HIDE DEF order, q
<1>3. order \in Seq(Txs) /\ Len(order) \in Nat
  <2>1. order \in Seq(p.txs) /\ p.txs \subseteq Txs
    BY <1>2 DEF Lists, Comparable
  <2> QED
    BY <2>1
<1>4. PICK after : /\ AddsInTurn(after, EmptyPool, st, order, height)
                   /\ AddEach(EmptyPool, st, order, height) = after[Len(order)]
  BY <1>3, AddEachInTurn
<1>5. PICK i \in 1..Len(order) : order[i] = t
  BY <1>2 DEF Lists
<1>6. ASSUME NEW j \in (i + 1)..Len(order), order[j].sender = order[i].sender
      PROVE  order[i].nonce <= order[j].nonce
  <2>1. j \in 1..Len(order) /\ i < j
    BY <1>3
  <2>2. order[i] \in p.txs /\ order[j] \in p.txs /\ PoolOrder(order[i], order[j])
    BY <1>2, <2>1 DEF Lists, PoolPairs
  <2>3. /\ order[i].nonce \in Int /\ order[j].nonce \in Int
        /\ order[i].sender \in Int /\ order[j].sender \in Int
    BY <2>2 DEF Comparable
  <2> QED
    BY <1>6, <2>2, <2>3 DEF PoolOrder
<1>7. Ready(EmptyPool, st, height)
  BY EmptyPoolReady
<1>8. order[i] \in after[Len(order)].txs \/ ~Admits(after[Len(order)], st, order[i], height)
  BY <1>3, <1>4, <1>6, <1>7, RefusedInTurn
<1> QED
  BY <1>1, <1>4, <1>5, <1>8 DEF q

(* A block on the tip disconnects nothing. *)
LEMMA ExtensionUpdate ==
  ASSUME NEW c, TreeSound(c), NEW b, AddOutcome(c, b) = "accepted",
         AddBlock(c, b).tip = b, b.prev = c.tip
  PROVE  UpdateFor(c, b).disconnected = <<>> /\ UpdateFor(c, b).connected = <<b>>
<1> DEFINE A == Branch(c.entries, c.tip)
           u == UpdateFor(c, b)
           B == Append(A, b)
<1>1. Reports(u, A, B)
  <2>1. Branch(AddBlock(c, b).entries, b) = B
    BY BranchGrows
  <2>2. Reports(u, A, Branch(AddBlock(c, b).entries, b))
    BY UpdateIsExact
  <2> QED
    BY <2>1, <2>2
<1>2. A \in Seq(Known(c)) /\ Len(A) \in Nat
  BY BranchIsBranch DEF IsBranch, TreeSound, EntriesTyped
<1> DEFINE S == Known(c) \cup {b}
<1>3. A \in Seq(S) /\ b \in S
  BY <1>2
<1> HIDE DEF A, u, S
<1>4. /\ B \in Seq(S) /\ Len(B) = Len(A) + 1 /\ B[Len(A) + 1] = b
      /\ \A i \in 1..Len(A) : B[i] = A[i]
  BY <1>3, AppendFacts
<1>5. PICK n \in 1..Len(A) :
        /\ n < Len(A) /\ n < Len(B) => A[n + 1] # B[n + 1]
        /\ u.connected = SubSeq(B, n + 1, Len(B))
        /\ u.disconnected = Reverse(SubSeq(A, n + 1, Len(A)))
  BY <1>1 DEF Reports
<1> HIDE DEF B
<1>6. n = Len(A)
  BY <1>2, <1>4, <1>5
<1>7. SubSeq(A, n + 1, Len(A)) = <<>>
  BY <1>2, <1>6
<1>8. SubSeq(B, n + 1, Len(B)) = <<b>>
  <2> DEFINE v == SubSeq(B, n + 1, Len(B))
  <2>1. v \in Seq(S) /\ Len(v) = 1 /\ v[1] = b
    BY <1>2, <1>4, <1>6
  <2> HIDE DEF v
  <2>2. v = <<b>>
    BY <2>1
  <2> QED
    BY <2>2 DEF v
<1>9. Reverse(<<>>) = <<>>
  BY DEF Reverse
<1> QED
  BY <1>5, <1>7, <1>8, <1>9 DEF u

(* Every step leaves the tree alone and takes nothing from the pool, or submits
   a block that a peer or the node's own miner made. *)
LEMMA StepCases ==
  ASSUME IInv, [Next]_vars
  PROVE  \/ chain' = chain /\ pool.txs \subseteq pool'.txs
         \/ \E b : Offered(b) /\ SubmitBlock(b)
<1>1. ASSUME NEW tx \in Txs, SubmitTransaction(tx)
      PROVE  chain' = chain /\ pool.txs \subseteq pool'.txs
  <2>1. chain' = chain /\ pool' = Add(pool, state, tx, NextHeight)
    BY <1>1 DEF SubmitTransaction
  <2> QED
    BY <2>1, AddTxs
<1>2. ASSUME NEW tx \in Txs, Send(tx) PROVE chain' = chain /\ pool.txs \subseteq pool'.txs
  <2>1. SubmitTransaction(tx)
    BY <1>2 DEF Send
  <2> QED
    BY <1>1, <2>1
<1>3. ASSUME NEW b \in Blocks, SubmitBlock(b) PROVE \E x : Offered(x) /\ SubmitBlock(x)
  BY <1>3, BlocksOffered
<1>4. CASE UNCHANGED vars
  BY <1>4 DEF vars
<1>5. ASSUME NEW miner \in Miners, NEW limit \in BlockLimits, NEW delay \in MineDelays,
             Mine(miner, limit, delay)
      PROVE  \/ chain' = chain /\ pool.txs \subseteq pool'.txs
             \/ \E b : Offered(b) /\ SubmitBlock(b)
  <2> DEFINE template == Template(miner, limit, delay)
  <2>1. (template.ok /\ SubmitBlock(template.block)) \/ UNCHANGED vars
    BY <1>5, Zenon DEF Mine
  <2>2. CASE template.ok /\ SubmitBlock(template.block)
    BY <2>2, TemplateOffered
  <2> QED
    BY <1>4, <2>1, <2>2
<1>6. ASSUME NEW b \in Blocks, RefuseBlock(b)
      PROVE  chain' = chain /\ pool.txs \subseteq pool'.txs
  BY <1>6 DEF RefuseBlock, vars
<1> HIDE DEF Offered, SubmitBlock
<1> QED
  BY <1>1, <1>2, <1>3, <1>4, <1>5, <1>6 DEF Next

(* A block that extends the tip takes from the pool what it confirms and what
   the new state refuses. *)
LEMMA ExtensionKeeps ==
  ASSUME IInv, NEW b, Offered(b), SubmitBlock(b), AddBlock(chain, b).tip = b, b.prev = chain.tip,
         NEW t \in pool.txs \ pool'.txs
  PROVE  t \in state'.confirmed \/ ~Admits(pool', state', t, NextHeight')
<1> DEFINE d == AddBlock(chain, b)
           update == UpdateFor(chain, b)
           st == TipEntry(d).state
           height == ExecutionHeight(d)
           q == RemoveConfirmed(pool, b.transactions)
           kept == Revalidate(q, st, height)
<1>1. /\ AddOutcome(chain, b) = "accepted" /\ chain' = d
      /\ pool' = IF update.becameActive THEN Reconcile(pool, d, update) ELSE pool
  BY Zenon DEF SubmitBlock
<1>2. ChainSound(chain) /\ ChainSound(d) /\ Ready(pool, state, NextHeight)
  BY <1>1, AcceptKeepsChain DEF IInv
<1>3. update.becameActive /\ update.disconnected = <<>> /\ update.connected = <<b>>
  BY <1>1, <1>2, UpdateIsExact, ExtensionUpdate DEF ChainSound
<1>4. b.transactions \in Seq(Txs) /\ Executed(d, b) /\ d.entries[b].state = st
  BY <1>1, <1>2, AcceptEffects DEF TipEntry
<1>5. state' = st /\ NextHeight' = height
  BY <1>1 DEF state, NextHeight, ExecutionHeight
<1> HIDE DEF d, update, st, height
<1>6. pool' = ReturnEach(kept, st, <<>>, height)
  <2>1. TransactionsOf(update.connected) = b.transactions
    <3>1. [i \in DOMAIN <<b>> |-> <<b>>[i].transactions] = <<b.transactions>>
      OBVIOUS
    <3>2. TransactionsOf(<<b>>) = FlattenSeq([i \in DOMAIN <<b>> |-> <<b>>[i].transactions])
      BY Zenon DEF TransactionsOf
    <3> QED
      BY <1>3, <3>1, <3>2, FlattenFew
  <2>2. ReturnedOldestFirst(update) = <<>>
    <3>1. Reverse(<<>>) = <<>>
      BY DEF Reverse
    <3>2. [i \in DOMAIN <<>> |-> <<>>[i].transactions] = <<>>
      OBVIOUS
    <3>3. TransactionsOf(<<>>) = FlattenSeq([i \in DOMAIN <<>> |-> <<>>[i].transactions])
      BY Zenon DEF TransactionsOf
    <3>4. ReturnedOldestFirst(update) = TransactionsOf(<<>>)
      BY <1>3, <3>1 DEF ReturnedOldestFirst
    <3> QED
      BY <3>2, <3>3, <3>4, FlattenFew
  <2>3. pool' = Reconcile(pool, d, update)
    BY <1>1, <1>3
  <2>4. Reconcile(pool, d, update) =
          ReturnEach(Revalidate(RemoveConfirmed(pool, TransactionsOf(update.connected)), st, height),
                     st, ReturnedOldestFirst(update), height)
    BY Zenon DEF Reconcile, st, height
  <2> HIDE DEF q
  <2> QED
    BY <2>1, <2>2, <2>3, <2>4 DEF q
<1>7. pool' = kept
  <2>1. <<>> \in Seq(Txs) /\ Len(<<>>) = 0
    OBVIOUS
  <2>2. PICK after : /\ AddsInTurn(after, kept, st, <<>>, height)
                     /\ ReturnEach(kept, st, <<>>, height) = after[Len(<<>>)]
    BY <2>1, ReturnEachInTurn
  <2> QED
    BY <1>6, <2>1, <2>2 DEF AddsInTurn
<1> HIDE DEF kept
<1>8. CASE t \in Range(b.transactions)
  BY <1>4, <1>5, <1>8 DEF Executed, Range
<1>9. CASE t \notin Range(b.transactions)
  <2>1. q.txs = pool.txs \ (pool.txs \cap Range(b.transactions))
    BY DEF RemoveConfirmed
  <2>2. t \in q.txs /\ q.txs \in SUBSET pool.txs
    BY <1>9, <2>1
  <2>3. IsFiniteSet(pool.txs) /\ Comparable(pool.txs)
    BY <1>2, QueueFacts DEF Ready, Queue
  <2> HIDE DEF q
  <2>4. IsFiniteSet(q.txs) /\ Comparable(q.txs)
    BY <2>2, <2>3, FS_Subset DEF Comparable
  <2>5. st.accounts \in Table
    BY <1>2, TipSound DEF st
  <2>6. t \in kept.txs \/ ~Admits(kept, st, t, height)
    BY <2>2, <2>4, <2>5, RevalidateKeeps DEF kept
  <2> QED
    BY <1>5, <1>7, <2>6
<1> QED
  BY <1>8, <1>9

(* While the active chain only grows, a pending transaction leaves the pool only
   when it is confirmed or not admissible any more: no step drops it on the way
   through remove_confirmed and revalidate. *)
THEOREM PendingKeptTheorem == Spec => PendingKeptOnExtension
<1>1. IInv /\ [Next]_vars =>
        [chain'.tip \in {chain.tip} \cup {b \in known' : b.prev = chain.tip} =>
           \A t \in pool.txs \ pool'.txs :
             t \in state'.confirmed \/ ~Admits(pool', state', t, NextHeight')]_vars
  <2> SUFFICES ASSUME IInv, [Next]_vars,
                      chain'.tip \in {chain.tip} \cup {b \in known' : b.prev = chain.tip},
                      NEW t \in pool.txs \ pool'.txs
               PROVE  t \in state'.confirmed \/ ~Admits(pool', state', t, NextHeight')
    OBVIOUS
  <2>1. PICK b : Offered(b) /\ SubmitBlock(b)
    BY StepCases
  <2> DEFINE d == AddBlock(chain, b)
             update == UpdateFor(chain, b)
  <2>2. /\ AddOutcome(chain, b) = "accepted" /\ chain' = d
        /\ pool' = IF update.becameActive THEN Reconcile(pool, d, update) ELSE pool
    BY <2>1, Zenon DEF SubmitBlock
  <2>3. d.tip = b
    <3> SUFFICES ASSUME d.tip # b PROVE FALSE
      OBVIOUS
    <3>1. update.becameActive = FALSE
      BY DEF UpdateFor, UpdateBetween, SideBranchUpdate
    <3> QED
      BY <2>2, <3>1
  <2>4. b \notin Known(chain) /\ chain.tip \in Known(chain)
    BY <2>2, AddEffects, TipSound DEF IInv, ChainSound, TreeSound
  <2>5. b.prev = chain.tip
    BY <2>2, <2>3, <2>4
  <2> QED
    BY <2>1, <2>3, <2>5, ExtensionKeeps
<1> QED
  BY <1>1, Invariance, PTL DEF Spec, PendingKeptOnExtension

-----------------------------------------------------------------------------
(***************************************************************************)
(* The branch a transaction was confirmed on.                              *)
(***************************************************************************)
(* s is a chain of known blocks, each executed on the one before it. *)
ChainOf(c, s) ==
  /\ s \in Seq(Known(c)) /\ Len(s) \in Nat /\ Len(s) \in 1..Len(s)
  /\ \A k \in 2..Len(s) : Executed(c, s[k]) /\ s[k].prev = s[k - 1]

LEMMA BranchBlocks ==
  ASSUME NEW c, ChainSound(c), NEW p \in Known(c)
  PROVE  LET s == Branch(c.entries, p) IN ChainOf(c, s) /\ s[Len(s)] = p
<1> DEFINE s == Branch(c.entries, p)
<1>1. IsBranch(s, p, Known(c)) /\ p.height \in Nat
  BY BranchIsBranch, BlockFacts DEF ChainSound
<1> HIDE DEF s
<1>2. /\ s \in Seq(Known(c)) /\ Len(s) \in 1..Len(s) /\ s[Len(s)] = p
      /\ \A i \in 1..Len(s) : s[i].height = i - 1
      /\ \A i \in 2..Len(s) : s[i].prev = s[i - 1]
  BY <1>1 DEF IsBranch
<1>3. ASSUME NEW k \in 2..Len(s) PROVE Executed(c, s[k])
  <2>1. k \in 1..Len(s) /\ k - 1 # 0
    BY <1>2
  <2>2. s[k] \in Known(c) /\ s[k].height # 0
    BY <1>2, <2>1
  <2>3. s[k] # GenesisBlock
    BY <2>2 DEF GenesisBlock
  <2> QED
    BY <2>2, <2>3 DEF ChainSound
<1>4. ChainOf(c, s)
  BY <1>2, <1>3 DEF ChainOf
<1> QED
  BY <1>2, <1>4 DEF s

(* Along it confirmations are only added, each by one of its blocks. *)
LEMMA BranchConfirms ==
  ASSUME NEW c, ChainSound(c), NEW s, ChainOf(c, s),
         NEW i \in 1..Len(s), NEW k \in i..Len(s)
  PROVE  /\ c.entries[s[i]].state.confirmed \subseteq c.entries[s[k]].state.confirmed
         /\ \A t \in c.entries[s[k]].state.confirmed :
              \/ t \in c.entries[s[i]].state.confirmed
              \/ \E l \in (i + 1)..k : \E a \in 1..Len(s[l].transactions) :
                   s[l].transactions[a] = t
<1> DEFINE C(j) == c.entries[s[j]].state.confirmed
           Good(j) == /\ C(i) \subseteq C(j)
                      /\ \A t \in C(j) :
                           \/ t \in C(i)
                           \/ \E l \in (i + 1)..j : \E a \in 1..Len(s[l].transactions) :
                                s[l].transactions[a] = t
           H == {j \in Nat : i <= j /\ j <= Len(s) => Good(j)}
<1>1. /\ s \in Seq(Known(c)) /\ Len(s) \in Nat
      /\ \A j \in 2..Len(s) : Executed(c, s[j]) /\ s[j].prev = s[j - 1]
  BY DEF ChainOf
<1>2. \A j \in 2..Len(s) :
        C(j) = C(j - 1) \cup {s[j].transactions[a] : a \in 1..Len(s[j].transactions)}
  BY <1>1 DEF Executed
<1> HIDE DEF C
<1>3. 0 \in H
  OBVIOUS
<1>4. ASSUME NEW j \in Nat, j \in H PROVE j + 1 \in H
  <2> SUFFICES ASSUME i <= j + 1, j + 1 <= Len(s) PROVE Good(j + 1)
    OBVIOUS
  <2>1. CASE i = j + 1
    BY <2>1
  <2>2. CASE i # j + 1
    <3>1. /\ i <= j /\ j <= Len(s) /\ j + 1 \in 2..Len(s) /\ (j + 1) - 1 = j
          /\ j + 1 \in (i + 1)..(j + 1) /\ \A l \in (i + 1)..j : l \in (i + 1)..(j + 1)
      BY <1>1, <2>2
    <3>2. Good(j)
      BY <1>4, <3>1
    <3>3. C(j + 1) = C(j) \cup {s[j + 1].transactions[a] : a \in 1..Len(s[j + 1].transactions)}
      BY <1>2, <3>1
    <3> QED
      BY <3>1, <3>2, <3>3
  <2> QED
    BY <2>1, <2>2
<1>5. Nat \subseteq H
  <2> HIDE DEF H
  <2> QED
    BY <1>3, <1>4, Induction
<1>6. k \in Nat /\ i <= k /\ k <= Len(s)
  BY <1>1
<1>7. Good(k)
  BY <1>5, <1>6
<1> QED
  BY <1>7 DEF C

(* Along a branch a sender's nonces grow. *)
LEMMA BranchNonces ==
  ASSUME NEW c, ChainSound(c), NEW s, ChainOf(c, s),
         NEW l \in 2..Len(s), NEW k \in 2..Len(s),
         NEW a \in 1..Len(s[l].transactions), NEW b \in 1..Len(s[k].transactions),
         l < k \/ (l = k /\ a < b),
         s[l].transactions[a].sender = s[k].transactions[b].sender
  PROVE  s[l].transactions[a].nonce <= s[k].transactions[b].nonce
<1> DEFINE x == s[l].transactions[a]
           y == s[k].transactions[b]
           before == c.entries[s[k - 1]].state
<1>1. /\ s \in Seq(Known(c)) /\ Len(s) \in Nat
      /\ \A j \in 2..Len(s) : Executed(c, s[j]) /\ s[j].prev = s[j - 1]
  BY DEF ChainOf
<1>2. \A j \in 2..Len(s) : s[j] \in Known(c) /\ s[j - 1] \in Known(c)
                           /\ s[j].transactions \in Seq(Txs)
  <2>1. \A n \in Nat : \A j \in 2..n : j \in 1..n /\ j - 1 \in 1..n
    OBVIOUS
  <2>2. \A j \in 2..Len(s) : j \in 1..Len(s) /\ j - 1 \in 1..Len(s)
    BY <1>1, <2>1, Zenon
  <2> QED
    BY <1>1, <2>2 DEF ChainSound
<1>3. /\ x \in Txs /\ x.nonce \in Nat /\ x.sender \in Addresses
      /\ y \in Txs /\ y.nonce \in Nat /\ y.sender \in Addresses
  <2>1. ValidTransaction(x, s[l].height) /\ ValidTransaction(y, s[k].height)
    BY <1>1 DEF Executed
  <2>2. x \in Txs /\ y \in Txs
    <3>1. \A u \in Seq(Txs) : \A i \in 1..Len(u) : u[i] \in Txs
      OBVIOUS
    <3>2. s[l].transactions \in Seq(Txs) /\ s[k].transactions \in Seq(Txs)
      BY <1>2, Zenon
    <3> QED
      BY <3>1, <3>2, Zenon
  <2> HIDE DEF x, y
  <2> QED
    BY <2>1, <2>2, AmountsTyped, TxNamesAddresses
<1>4. Continues(s[k].transactions, before)
  BY <1>1 DEF Executed
<1>5. CASE l = k
  <2>1. a < b
    BY <1>1, <1>5
  <2>2. x.nonce < y.nonce
    BY <1>4, <1>5, <2>1 DEF Continues
  <2> HIDE DEF x, y
  <2>3. x.nonce <= y.nonce
    BY <1>3, <2>2
  <2> QED
    BY <2>3 DEF x, y
<1>6. CASE l < k
  <2>1. x \in c.entries[s[l]].state.confirmed
    <3>1. x \in {s[l].transactions[i] : i \in 1..Len(s[l].transactions)}
      OBVIOUS
    <3>2. {s[l].transactions[i] : i \in 1..Len(s[l].transactions)}
            \subseteq c.entries[s[l]].state.confirmed
      BY <1>1, Zenon DEF Executed
    <3> HIDE DEF x
    <3> QED
      BY <3>1, <3>2
  <2>2. l \in 1..Len(s) /\ k - 1 \in l..Len(s)
    BY <1>1, <1>6
  <2>3. x \in before.confirmed
    <3> HIDE DEF x
    <3> QED
      BY <2>1, <2>2, BranchConfirms
  <2>4. NoncesExact(before) /\ before.accounts \in Table
    BY <1>2 DEF ChainSound, StateSound
  <2> DEFINE next == before.accounts[x.sender].nonce
  <2>5. next \in Nat /\ x.nonce \in 0..(next - 1)
    <3>1. x \in Sent(before, x.sender)
      BY <2>3 DEF Sent
    <3> HIDE DEF x, before
    <3>2. next \in Nat
      BY <1>3, <2>4, BalancesBounded
    <3> QED
      BY <1>3, <2>4, <3>1, <3>2 DEF NoncesExact
  <2>6. next <= y.nonce
    BY <1>4 DEF Continues
  <2> HIDE DEF x, y, next
  <2>7. x.nonce <= y.nonce
    BY <1>3, <2>5, <2>6
  <2> QED
    BY <2>7 DEF x, y
<1> QED
  BY <1>5, <1>6

-----------------------------------------------------------------------------
(***************************************************************************)
(* What a switch of the branch returns.                                    *)
(***************************************************************************)
(* A confirmed transaction of a branch that is left is confirmed on the new
   one, pending, or refused by the pool and the state the switch ends with. *)
LEMMA SwitchReturns ==
  ASSUME IInv, NEW b, Offered(b), SubmitBlock(b), AddBlock(chain, b).tip = b,
         NEW t \in state.confirmed
  PROVE  t \in state'.confirmed \/ t \in pool'.txs \/ ~Admits(pool', state', t, NextHeight')
<1> DEFINE d == AddBlock(chain, b)
           update == UpdateFor(chain, b)
           st == TipEntry(d).state
           height == ExecutionHeight(d)
           kept == Revalidate(RemoveConfirmed(pool, TransactionsOf(update.connected)), st, height)
           returned == ReturnedOldestFirst(update)
           A == Branch(chain.entries, chain.tip)
           B == Branch(d.entries, b)
<1>1. /\ AddOutcome(chain, b) = "accepted" /\ chain' = d
      /\ pool' = IF update.becameActive THEN Reconcile(pool, d, update) ELSE pool
  BY Zenon DEF SubmitBlock
<1>2. ChainSound(chain) /\ ChainSound(d) /\ Ready(pool, state, NextHeight)
  BY <1>1, AcceptKeepsChain DEF IInv
<1>3. update.becameActive
  BY <1>1, <1>2, UpdateIsExact DEF ChainSound
<1>4. state' = st /\ NextHeight' = height /\ st = d.entries[b].state
  BY <1>1 DEF state, NextHeight, ExecutionHeight, TipEntry
<1>5. st.accounts \in Table
  BY <1>2, TipSound
<1>6. PICK n \in 1..Len(A), seqs \in Seq(Seq(Txs)) :
        /\ n \in 1..Len(B) /\ A[n] = B[n]
        /\ Len(seqs) = Len(A) - n
        /\ \A k \in 1..Len(seqs) : n + k \in (n + 1)..Len(A) /\ seqs[k] = A[n + k].transactions
        /\ returned = FlattenSeq(seqs)
  BY <1>1, <1>2, ReturnedBodies
<1>7. ChainOf(chain, A) /\ A[Len(A)] = chain.tip /\ ChainOf(d, B) /\ B[Len(B)] = b
  <2>1. chain.tip \in Known(chain) /\ b \in Known(d)
    BY <1>2, TipSound
  <2> HIDE DEF d
  <2> QED
    BY <1>2, <2>1, BranchBlocks
<1>8. \A k \in Known(chain) : d.entries[k] = chain.entries[k]
  BY <1>1, <1>2, AddEffects DEF ChainSound, TreeSound
<1>9. Ready(kept, st, height)
  BY <1>2, <1>5, KeptReady, QueueFacts DEF Ready, Queue
<1>10. pool' = ReturnEach(kept, st, returned, height)
  <2>1. pool' = Reconcile(pool, d, update)
    BY <1>1, <1>3
  <2>2. Reconcile(pool, d, update) = ReturnEach(kept, st, returned, height)
    BY Zenon DEF Reconcile
  <2> QED
    BY <2>1, <2>2
<1> HIDE DEF d, update, st, height, kept, returned, A, B
<1>11. /\ Len(A) \in Nat /\ n \in Nat /\ Len(A) \in n..Len(A) /\ Len(B) \in n..Len(B)
       /\ A[n] \in Known(chain)
  BY <1>6, <1>7 DEF ChainOf
<1>12. t \in chain.entries[A[Len(A)]].state.confirmed
  BY <1>7 DEF state, TipEntry
<1>13. \/ t \in chain.entries[A[n]].state.confirmed
       \/ \E l \in (n + 1)..Len(A) : \E a \in 1..Len(A[l].transactions) : A[l].transactions[a] = t
  <2>1. \A x \in chain.entries[A[Len(A)]].state.confirmed :
          \/ x \in chain.entries[A[n]].state.confirmed
          \/ \E l \in (n + 1)..Len(A) : \E a \in 1..Len(A[l].transactions) :
               A[l].transactions[a] = x
    BY <1>2, <1>7, <1>11, BranchConfirms
  <2> QED
    BY <1>12, <2>1
<1>14. CASE t \in chain.entries[A[n]].state.confirmed
  <2>1. t \in d.entries[B[n]].state.confirmed
    BY <1>6, <1>8, <1>11, <1>14
  <2>2. d.entries[B[n]].state.confirmed \subseteq d.entries[B[Len(B)]].state.confirmed
    BY <1>2, <1>6, <1>7, <1>11, BranchConfirms
  <2> QED
    BY <1>4, <1>7, <2>1, <2>2
<1>15. CASE \E l \in (n + 1)..Len(A) : \E a \in 1..Len(A[l].transactions) :
              A[l].transactions[a] = t
  <2>1. returned \in Seq(Txs) /\ Flat(returned, seqs, Len(seqs))
    BY <1>6, FlattenIsFlat
  <2>2. PICK l \in (n + 1)..Len(A) : \E a \in 1..Len(A[l].transactions) : A[l].transactions[a] = t
    BY <1>15
  <2>3. l - n \in 1..Len(seqs) /\ n + (l - n) = l
    <3>1. Len(seqs) = Len(A) - n
      BY <1>6
    <3> DEFINE m == Len(A)
               j == Len(seqs)
    <3>2. m \in Nat /\ n \in Nat /\ j = m - n /\ l \in (n + 1)..m
      BY <1>11, <3>1
    <3> HIDE DEF m, j
    <3>3. l - n \in 1..j /\ n + (l - n) = l
      BY <3>2
    <3> QED
      BY <3>3 DEF j
  <2>4. seqs[l - n] = A[l].transactions
    BY <1>6, <2>3
  <2>5. PICK i \in 1..Len(returned) : returned[i] = t
    <3>1. PICK a \in 1..Len(seqs[l - n]) : seqs[l - n][a] = t
      BY <2>2, <2>4
    <3>2. \E i \in 1..Len(returned) : returned[i] = seqs[l - n][a]
      BY <2>1, <2>3, Zenon DEF Flat
    <3> QED
      BY <3>1, <3>2
  <2>6. ASSUME NEW j \in (i + 1)..Len(returned), returned[j].sender = returned[i].sender
        PROVE  returned[i].nonce <= returned[j].nonce
    <3>1. j \in 1..Len(returned) /\ i < j
      BY <2>1
    <3>2. Precedes(seqs, Len(seqs), returned[i], returned[j])
      BY <2>1, <3>1 DEF Flat
    <3>3. PICK k \in 1..Len(seqs), h \in 1..Len(seqs) :
            \E a \in 1..Len(seqs[k]), e \in 1..Len(seqs[h]) :
              /\ seqs[k][a] = returned[i] /\ seqs[h][e] = returned[j]
              /\ k < h \/ (k = h /\ a < e)
      BY <3>2 DEF Precedes
    <3>4. PICK a \in 1..Len(seqs[k]), e \in 1..Len(seqs[h]) :
              /\ seqs[k][a] = returned[i] /\ seqs[h][e] = returned[j]
              /\ k < h \/ (k = h /\ a < e)
      BY <3>3
    <3>5. /\ n + k \in 2..Len(A) /\ n + h \in 2..Len(A)
          /\ seqs[k] = A[n + k].transactions /\ seqs[h] = A[n + h].transactions
          /\ n + k < n + h \/ (n + k = n + h /\ a < e)
      BY <1>6, <1>11, <3>4
    <3>6. A[n + k].transactions[a].nonce <= A[n + h].transactions[e].nonce
      BY <1>2, <1>7, <2>6, <3>4, <3>5, BranchNonces
    <3> QED
      BY <3>4, <3>5, <3>6
  <2>7. PICK after : /\ AddsInTurn(after, kept, st, returned, height)
                     /\ ReturnEach(kept, st, returned, height) = after[Len(returned)]
    BY <2>1, ReturnEachInTurn
  <2>8. \/ returned[i] \in after[Len(returned)].txs
        \/ ~Admits(after[Len(returned)], st, returned[i], height)
    BY <1>5, <1>9, <2>1, <2>6, <2>7, RefusedInTurn
  <2> QED
    BY <1>4, <1>10, <2>5, <2>7, <2>8
<1> QED
  BY <1>13, <1>14, <1>15

(* No payment is lost in a reorganization: a confirmed transaction of the branch
   that is left is confirmed on the new one, pending, or not admissible any more
   (the last loop of submit_block). *)
THEOREM EligibleReturnedTheorem == Spec => EligibleReturned
<1>1. IInv /\ [Next]_vars =>
        [chain'.tip # chain.tip =>
           \A t \in state.confirmed :
             \/ t \in state'.confirmed
             \/ t \in pool'.txs
             \/ ~Admits(pool', state', t, NextHeight')]_vars
  <2> SUFFICES ASSUME IInv, [Next]_vars, chain'.tip # chain.tip, NEW t \in state.confirmed
               PROVE  t \in state'.confirmed \/ t \in pool'.txs
                        \/ ~Admits(pool', state', t, NextHeight')
    OBVIOUS
  <2>1. PICK b : Offered(b) /\ SubmitBlock(b)
    BY StepCases
  <2>2. AddOutcome(chain, b) = "accepted" /\ chain' = AddBlock(chain, b)
    BY <2>1, Zenon DEF SubmitBlock
  <2>3. AddBlock(chain, b).tip = b
    BY <2>2, AddEffects DEF IInv, ChainSound, TreeSound, AddBlock, InsertEntry
  <2> QED
    BY <2>1, <2>3, SwitchReturns
<1> QED
  BY <1>1, Invariance, PTL DEF Spec, EligibleReturned

-----------------------------------------------------------------------------
(***************************************************************************)
(* Mining: what the selection takes and what the tree accepts.             *)
(***************************************************************************)
(* The difficulty adjustment stays within the legal targets. *)
LEMMA TargetLegal ==
  ASSUME NEW c, ChainSound(c), NEW p \in Known(c)
  PROVE  ExpectedTargetForChild(c.entries, p) \in 1..MaxTarget
<1>1. TreeSound(c) /\ TargetsTyped(c)
  BY LedgerAssumption DEF ChainSound, TargetsTyped, LedgerAssumption
<1> QED
  BY <1>1, TargetBounds

(* One transaction more. *)
LEMMA RunUnique ==
  ASSUME NEW st, NEW txs, Len(txs) \in Nat, NEW height, NEW run, IsRun(run, st, txs, height),
         NEW more, Len(more) \in Nat, Len(txs) <= Len(more),
         \A i \in 1..Len(txs) : more[i] = txs[i],
         NEW longer, IsRun(longer, st, more, height)
  PROVE  \A i \in 0..Len(txs) : longer[i] = run[i]
<1> DEFINE n == Len(txs)
           m == Len(more)
           H == {i \in Nat : i <= n => longer[i] = run[i]}
<1>1. /\ run[0] = [ok |-> TRUE, state |-> st, fees |-> 0]
      /\ \A i \in 1..n : run[i] = ApplyNext(run[i - 1], txs[i], height)
  <2>1. 0 \in 0..n /\ \A i \in 1..n : i \in 0..n /\ i # 0
    OBVIOUS
  <2> QED
    BY <2>1 DEF IsRun
<1>2. /\ longer[0] = [ok |-> TRUE, state |-> st, fees |-> 0]
      /\ \A i \in 1..m : longer[i] = ApplyNext(longer[i - 1], more[i], height)
  <2>1. 0 \in 0..m /\ \A i \in 1..m : i \in 0..m /\ i # 0
    OBVIOUS
  <2> QED
    BY <2>1 DEF IsRun
<1>3. 0 \in H
  BY <1>1, <1>2
<1>4. ASSUME NEW i \in Nat, i \in H PROVE i + 1 \in H
  <2> SUFFICES ASSUME i + 1 <= n PROVE longer[i + 1] = run[i + 1]
    OBVIOUS
  <2>1. i + 1 \in 1..n /\ i + 1 \in 1..m /\ (i + 1) - 1 = i /\ longer[i] = run[i]
    BY <1>4
  <2> QED
    BY <1>1, <1>2, <2>1
<1>5. Nat \subseteq H
  <2> HIDE DEF H
  <2> QED
    BY <1>3, <1>4, Induction
<1> QED
  BY <1>5

LEMMA BatchAppends ==
  ASSUME NEW st, NEW height, NEW S, NEW txs \in Seq(S), NEW x \in S
  PROVE  /\ ApplyTransactions(st, Append(txs, x), height) =
              ApplyNext(ApplyTransactions(st, txs, height), x, height)
         /\ ApplyTransactions(st, <<>>, height) = [ok |-> TRUE, state |-> st, fees |-> 0]
<1> DEFINE more == Append(txs, x)
           n == Len(txs)
<1>1. /\ n \in Nat /\ Len(more) = n + 1 /\ more[n + 1] = x
      /\ \A i \in 1..n : more[i] = txs[i]
  BY AppendFacts
<1> HIDE DEF more
<1>2. PICK run : IsRun(run, st, txs, height) /\ ApplyTransactions(st, txs, height) = run[n]
  BY <1>1, RunExists
<1>3. Len(more) \in Nat
  BY <1>1
<1>4. PICK longer : /\ IsRun(longer, st, more, height)
                    /\ ApplyTransactions(st, more, height) = longer[n + 1]
  BY <1>1, <1>3, RunExists
<1>5. longer[n] = run[n]
  <2>1. n \in 0..n /\ n <= Len(more)
    BY <1>1
  <2> QED
    BY <1>1, <1>2, <1>3, <1>4, <2>1, RunUnique
<1>6. longer[n + 1] = ApplyNext(longer[n], x, height)
  <2>1. n + 1 \in 0..Len(more) /\ n + 1 # 0 /\ (n + 1) - 1 = n
    BY <1>1
  <2> QED
    BY <1>1, <1>4, <2>1 DEF IsRun
<1>7. ApplyTransactions(st, <<>>, height) = [ok |-> TRUE, state |-> st, fees |-> 0]
  <2> DEFINE none == <<>>
  <2>1. Len(none) = 0 /\ 0 \in Nat /\ 0 \in 0..0
    OBVIOUS
  <2> HIDE DEF none
  <2>2. PICK empty : IsRun(empty, st, none, height)
                     /\ ApplyTransactions(st, none, height) = empty[0]
    BY <2>1, RunExists
  <2> QED
    BY <2>1, <2>2 DEF IsRun, none
<1> QED
  BY <1>2, <1>4, <1>5, <1>6, <1>7 DEF more

LEMMA FirstInLine ==
  ASSUME NEW st, st.accounts \in Table, NEW height, NEW S, Queue(S, st, height), NEW u \in S
  PROVE  /\ st.accounts[u.sender].nonce <= u.nonce
         /\ \E v \in S : v.sender = u.sender /\ v.nonce = st.accounts[v.sender].nonce
<1> DEFINE s == u.sender
           F == From(S, s)
           first == st.accounts[s].nonce
           k == Cardinality(F)
<1>1. s \in Addresses /\ u \in F /\ k \in Nat /\ first \in Nat /\ u.nonce \in Int
  <2>1. s \in Addresses /\ u \in F /\ k \in Nat /\ u.nonce \in Int
    BY QueueFacts DEF From, Comparable
  <2> QED
    BY <2>1, BalancesBounded
<1>2. {t.nonce : t \in F} = first..(first + k - 1)
  BY <1>1 DEF Queue
<1>3. u.nonce \in first..(first + k - 1)
  BY <1>1, <1>2
<1> HIDE DEF first, k
<1>4. first <= u.nonce /\ first \in first..(first + k - 1)
  BY <1>1, <1>3
<1>5. PICK v \in F : v.nonce = first
  BY <1>2, <1>4
<1>6. v \in S /\ v.sender = s
  BY DEF From
<1> QED
  BY <1>4, <1>5, <1>6 DEF first

(* What a round of the selection works with when no sender is blocked: the
   batch selected so far ran on st, and the rest of the pool is queued up
   behind it. *)
Selecting(p, sel, st, height) ==
  LET left  == p.txs \ Range(sel.selected)
      batch == ApplyTransactions(st, sel.selected, height)
  IN  /\ sel.blocked = {}
      /\ sel.selected \in Seq(p.txs)
      /\ Len(sel.selected) + Cardinality(left) = Cardinality(p.txs)
      /\ batch.ok /\ sel.working = batch.state
      /\ Queue(left, sel.working, height)

(* Such a round finds that everything eligible fits, so it takes the best of
   that and blocks nobody. *)
LEMMA RoundTakes ==
  ASSUME FewTransactions, NEW st, NEW supply, StateSound(st, supply), st.confirmed \subseteq Txs,
         NEW height, NEW p, Queue(p.txs, st, height), NEW sel, Selecting(p, sel, st, height),
         p.txs \ Range(sel.selected) # {}
  PROVE  /\ Selecting(p, SelectRound(p, sel, height), st, height)
         /\ Len(SelectRound(p, sel, height).selected) = Len(sel.selected) + 1
<1> DEFINE chosen == sel.selected
           now == sel.working
           batch == ApplyTransactions(st, chosen, height)
           fees == batch.fees
           left == p.txs \ Range(chosen)
           eligible == {t \in p.txs : /\ t.sender \notin sel.blocked
                                      /\ t.nonce = sel.working.accounts[t.sender].nonce}
           tried == Sorted(eligible, PaysMore)
           fit == {i \in DOMAIN tried : Applies(sel.working, tried[i], height)}
           next == [selected |-> Append(sel.selected, tried[Min(fit)]),
                    working  |-> ApplyValidated(sel.working, tried[Min(fit)]),
                    blocked  |-> BlockedAfter(sel.blocked, tried, Min(fit))]
<1>1. SelectRound(p, sel, height) = IF fit = {} THEN sel ELSE next
  BY Zenon DEF SelectRound
<1>2. /\ sel.blocked = {} /\ chosen \in Seq(p.txs)
      /\ Len(chosen) + Cardinality(left) = Cardinality(p.txs)
      /\ batch.ok /\ now = batch.state /\ Queue(left, now, height)
  BY Zenon DEF Selecting
<1>3. /\ IsFiniteSet(p.txs) /\ Comparable(p.txs) /\ p.txs \subseteq Txs
      /\ \A t \in p.txs : NamesAddresses(t) /\ t.sender \in Addresses
  BY QueueFacts, TxNamesAddresses DEF Queue
<1>4. Range(chosen) \subseteq p.txs /\ \A i \in 1..Len(chosen) : chosen[i] \in Range(chosen)
  BY <1>2 DEF Range
<1>5. /\ now.accounts \in Table /\ NoncesExact(now) /\ fees \in 0..U64Max
      /\ Total(now.accounts) = Total(st.accounts) - fees
      /\ now.confirmed = st.confirmed \cup Range(chosen)
  <2>1. Len(chosen) \in Nat /\ \A i \in 1..Len(chosen) : chosen[i].authentic => NamesAddresses(chosen[i])
    BY <1>2, <1>3, <1>4
  <2>2. IsState(st) /\ st.accounts \in Table /\ NoncesExact(st) /\ IsFiniteSet(st.confirmed)
    BY DEF StateSound
  <2>3. PICK run : IsRun(run, st, chosen, height) /\ batch = run[Len(chosen)]
    BY <2>1, RunExists
  <2> HIDE DEF batch, chosen
  <2>4. BatchDone(run, st, chosen, height, Len(chosen))
    <3>1. Len(chosen) \in 0..Len(chosen)
      BY <2>1
    <3> QED
      BY <1>2, <2>1, <2>2, <2>3, <3>1, BatchSteps
  <2>5. Range(chosen) = {chosen[i] : i \in 1..Len(chosen)}
    BY <1>2 DEF Range
  <2> QED
    BY <1>2, <2>3, <2>4, <2>5 DEF BatchDone
<1> HIDE DEF now, batch, fees
<1>6. now.confirmed \subseteq Txs
  BY <1>3, <1>4, <1>5
<1>7. eligible = {t \in left : t.nonce = now.accounts[t.sender].nonce}
  <2> SUFFICES ASSUME NEW t \in p.txs, t \in Range(chosen)
               PROVE  t.nonce # now.accounts[t.sender].nonce
    BY <1>2 DEF now
  <2>1. t \in Sent(now, t.sender) /\ t.sender \in Addresses
    BY <1>3, <1>5 DEF Sent
  <2>2. t.nonce \in 0..(now.accounts[t.sender].nonce - 1) /\ now.accounts[t.sender].nonce \in Nat
    BY <1>5, <2>1, BalancesBounded DEF NoncesExact
  <2> QED
    BY <2>2
<1> HIDE DEF eligible, left, tried
<1>8. ASSUME NEW t \in eligible
      PROVE  /\ t \in left /\ t \in p.txs
             /\ Executable(now, t, height) /\ ~RecipientOverflows(now, t)
             /\ fees + t.fee <= U64Max
             /\ Queue(left \ {t}, ApplyValidated(now, t), height)
             /\ Applies(now, t, height)
  <2>1. t \in left /\ t.nonce = now.accounts[t.sender].nonce /\ t \in p.txs
    BY <1>7 DEF left
  <2>2. \A u \in left : u.sender = t.sender => t.nonce <= u.nonce
    <3> SUFFICES ASSUME NEW u \in left, u.sender = t.sender PROVE t.nonce <= u.nonce
      OBVIOUS
    <3>1. now.accounts[u.sender].nonce <= u.nonce
      BY <1>2, <1>5, FirstInLine
    <3> QED
      BY <2>1, <3>1
  <2>3. /\ Executable(now, t, height) /\ ~RecipientOverflows(now, t)
        /\ fees + t.fee <= U64Max
        /\ Queue(left \ {t}, ApplyValidated(now, t), height)
    BY <1>2, <1>5, <1>6, <2>1, <2>2, QueueAdvances
  <2>4. Applies(now, t, height)
    <3> DEFINE start == [ok |-> TRUE, state |-> now, fees |-> 0]
    <3>1. <<>> \in Seq(p.txs) /\ Append(<<>>, t) = <<t>>
      OBVIOUS
    <3>2. ApplyTransactions(now, <<t>>, height) = ApplyNext(start, t, height)
      BY <2>1, <3>1, BatchAppends
    <3>3. t.fee \in Nat /\ t.fee <= U64Max
      BY <2>3, LedgerAssumption DEF LedgerAssumption, Executable, ValidTransaction
    <3>4. start.ok /\ start.state = now /\ start.fees + t.fee <= U64Max
      BY <3>3
    <3> HIDE DEF start
    <3>5. ApplyNext(start, t, height).ok = TRUE
      BY <2>3, <3>4 DEF ApplyNext
    <3> QED
      BY <3>2, <3>5 DEF Applies
  <2> QED
    BY <2>1, <2>3, <2>4
<1>9. eligible # {} /\ IsFiniteSet(eligible) /\ Comparable(eligible)
  <2>1. PICK u \in left : TRUE
    BY DEF left
  <2>2. \E v \in left : v.sender = u.sender /\ v.nonce = now.accounts[v.sender].nonce
    BY <1>2, <1>5, FirstInLine
  <2>3. eligible \in SUBSET p.txs
    BY <1>8
  <2> QED
    BY <1>3, <1>7, <2>2, <2>3, FS_Subset DEF Comparable
<1>10. tried \in Seq(eligible) /\ Len(tried) \in Nat /\ 1 \in 1..Len(tried)
  <2>1. tried \in Seq(eligible) /\ \A t \in eligible : \E i \in 1..Len(tried) : tried[i] = t
    BY <1>9, FeeSorts DEF Lists, tried
  <2>2. PICK t \in eligible : TRUE
    BY <1>9
  <2>3. PICK i \in 1..Len(tried) : tried[i] = t
    BY <2>1
  <2> QED
    BY <2>1, <2>3
<1> DEFINE x == tried[1]
<1>11. x \in eligible /\ DOMAIN tried = 1..Len(tried) /\ \A i \in 1..Len(tried) : tried[i] \in eligible
  BY <1>10
<1>12. fit = 1..Len(tried)
  BY <1>8, <1>11 DEF now
<1>13. fit # {} /\ Min(fit) = 1
  <2>1. \A i \in 1..Len(tried) : 1 <= i
    OBVIOUS
  <2>2. \A i \in fit : (\A j \in fit : i <= j) => i = 1
    BY <1>10, <1>12
  <2> HIDE DEF fit
  <2> QED
    BY <1>10, <1>12, <2>1, <2>2 DEF Min
<1>14. BlockedAfter(sel.blocked, tried, Min(fit)) = {}
  <2> HIDE DEF fit
  <2>1. 1..(1 - 1) = {}
    OBVIOUS
  <2>2. BlockedAfter({}, tried, 1) = {}
    BY <2>1 DEF BlockedAfter
  <2> QED
    BY <1>2, <1>13, <2>2
<1> DEFINE sel2 == SelectRound(p, sel, height)
<1>15. sel2 = [selected |-> Append(chosen, x), working |-> ApplyValidated(now, x), blocked |-> {}]
  <2> HIDE DEF fit, sel2
  <2> QED
    BY <1>1, <1>13, <1>14 DEF now, sel2
<1>16. sel2.selected = Append(chosen, x) /\ sel2.working = ApplyValidated(now, x)
       /\ sel2.blocked = {}
  <2> HIDE DEF sel2
  <2> QED
    BY <1>15
<1>17. x \in left /\ x \in p.txs /\ x \notin Range(chosen)
  BY <1>8, <1>11 DEF left
<1> HIDE DEF x, sel2, fit, next, chosen
<1>18. /\ Append(chosen, x) \in Seq(p.txs) /\ Len(Append(chosen, x)) = Len(chosen) + 1
       /\ Len(chosen) \in Nat
       /\ Append(chosen, x)[Len(chosen) + 1] = x
       /\ \A i \in 1..Len(chosen) : Append(chosen, x)[i] = chosen[i]
  BY <1>2, <1>17, AppendFacts
<1>19. p.txs \ Range(Append(chosen, x)) = left \ {x}
  <2> DEFINE more == Append(chosen, x)
  <2> HIDE DEF more
  <2>1. DOMAIN more = 1..(Len(chosen) + 1) /\ DOMAIN chosen = 1..Len(chosen)
    BY <1>2, <1>18 DEF more
  <2>2. Range(more) = Range(chosen) \cup {x}
    BY <1>18, <2>1 DEF Range, more
  <2> QED
    BY <2>2 DEF more, left
<1>20. Cardinality(left \ {x}) = Cardinality(left) - 1 /\ Cardinality(left) \in Nat
  <2>1. IsFiniteSet(left)
    BY <1>2 DEF Queue
  <2> QED
    BY <1>17, <2>1, FS_RemoveElement, FS_CardinalityType
<1>21. /\ ApplyTransactions(st, Append(chosen, x), height).ok
       /\ ApplyTransactions(st, Append(chosen, x), height).state = ApplyValidated(now, x)
  <2>1. ApplyTransactions(st, Append(chosen, x), height) = ApplyNext(batch, x, height)
    BY <1>2, <1>17, BatchAppends DEF batch
  <2>2. /\ Executable(now, x, height) /\ ~RecipientOverflows(now, x)
        /\ fees + x.fee <= U64Max
    BY <1>8, <1>11 DEF x
  <2>3. ApplyNext(batch, x, height) =
          [ok |-> TRUE, state |-> ApplyValidated(now, x), fees |-> fees + x.fee]
    BY <1>2, <2>2 DEF ApplyNext, fees
  <2> QED
    BY <2>1, <2>3
<1>22. Queue(left \ {x}, ApplyValidated(now, x), height)
  BY <1>8, <1>11 DEF x
<1>23. Len(chosen) + 1 + Cardinality(left \ {x}) = Cardinality(p.txs)
  BY <1>2, <1>18, <1>20
<1>24. Selecting(p, sel2, st, height)
  BY <1>16, <1>18, <1>19, <1>21, <1>22, <1>23 DEF Selecting
<1>25. Len(sel2.selected) = Len(chosen) + 1
  BY <1>16, <1>18
<1> QED
  BY <1>24, <1>25 DEF sel2, chosen

(* With room for all of it, the selection is the whole pool, in an order in
   which it executes. *)
LEMMA SelectTakesAll ==
  ASSUME FewTransactions, NEW st, NEW supply, StateSound(st, supply), st.confirmed \subseteq Txs,
         NEW height, NEW p, Queue(p.txs, st, height)
  PROVE  LET txs == Select(p, st, height, Cardinality(p.txs))
         IN  /\ txs \in Seq(p.txs) /\ Len(txs) = Cardinality(p.txs) /\ Range(txs) = p.txs
             /\ ApplyTransactions(st, txs, height).ok
<1> DEFINE n == Cardinality(p.txs)
<1>1. IsFiniteSet(p.txs) /\ n \in Nat
  BY FS_CardinalityType DEF Queue
<1>2. PICK round : /\ IsSelection(round, p, st, height, n)
                   /\ Select(p, st, height, n) = round[n].selected
  BY <1>1, SelectionExists
<1>3. /\ round[0] = NoneSelected(st)
      /\ \A i \in 1..n : round[i] = SelectRound(p, round[i - 1], height)
  <2>1. 0 \in 0..n /\ \A i \in 1..n : i \in 0..n /\ i # 0
    BY <1>1
  <2> QED
    BY <1>2, <2>1 DEF IsSelection
<1> HIDE DEF n
<1> DEFINE H == {i \in Nat : i <= n =>
                   Selecting(p, round[i], st, height) /\ Len(round[i].selected) = i}
<1>4. 0 \in H
  <2> DEFINE sel == NoneSelected(st)
  <2>1. sel.selected = <<>> /\ sel.working = st /\ sel.blocked = {}
    BY DEF NoneSelected
  <2> HIDE DEF sel
  <2>2. Range(<<>>) = {} /\ <<>> \in Seq(p.txs) /\ Len(<<>>) = 0
    BY DEF Range
  <2>3. ApplyTransactions(st, <<>>, height) = [ok |-> TRUE, state |-> st, fees |-> 0]
    <3>1. CASE p.txs = {}
      <4>1. <<>> \in Seq({0}) /\ 0 \in {0}
        OBVIOUS
      <4> QED
        BY <4>1, BatchAppends
    <3>2. CASE p.txs # {}
      BY <2>2, <3>2, BatchAppends
    <3> QED
      BY <3>1, <3>2
  <2>4. p.txs \ Range(sel.selected) = p.txs
    BY <2>1, <2>2
  <2> DEFINE batch == ApplyTransactions(st, sel.selected, height)
  <2>7. batch.ok /\ batch.state = st
    BY <2>1, <2>3
  <2> HIDE DEF batch
  <2>5. Len(sel.selected) + Cardinality(p.txs) = Cardinality(p.txs)
    BY <1>1, <2>1, <2>2 DEF n
  <2>6. Selecting(p, sel, st, height)
    BY <2>1, <2>2, <2>4, <2>5, <2>7 DEF Selecting, batch
  <2> QED
    BY <1>3, <2>1, <2>2, <2>6 DEF sel
<1>5. ASSUME NEW i \in Nat, i \in H PROVE i + 1 \in H
  <2> SUFFICES ASSUME i + 1 <= n
               PROVE  Selecting(p, round[i + 1], st, height) /\ Len(round[i + 1].selected) = i + 1
    OBVIOUS
  <2> DEFINE sel == round[i]
             more == round[i + 1]
             left == p.txs \ Range(sel.selected)
  <2>1. Selecting(p, sel, st, height) /\ Len(sel.selected) = i
    BY <1>1, <1>5
  <2>2. more = SelectRound(p, sel, height)
    <3>1. i + 1 \in 1..n /\ (i + 1) - 1 = i
      BY <1>1
    <3> QED
      BY <1>3, <3>1
  <2>3. i + Cardinality(left) = n
    BY <2>1 DEF Selecting, n
  <2> HIDE DEF sel, more
  <2>4. left # {}
    <3> SUFFICES ASSUME left = {} PROVE FALSE
      OBVIOUS
    <3>1. Cardinality(left) = 0
      BY FS_EmptySet
    <3> QED
      BY <1>1, <2>3, <3>1
  <2>5. /\ Selecting(p, SelectRound(p, sel, height), st, height)
        /\ Len(SelectRound(p, sel, height).selected) = Len(sel.selected) + 1
    <3>1. p.txs \ Range(sel.selected) # {}
      BY <2>4
    <3>2. \A x : (Selecting(p, x, st, height) /\ p.txs \ Range(x.selected) # {}) =>
                  Selecting(p, SelectRound(p, x, height), st, height)
                  /\ Len(SelectRound(p, x, height).selected) = Len(x.selected) + 1
      BY RoundTakes
    <3> QED
      BY <2>1, <3>1, <3>2
  <2> QED
    BY <2>1, <2>2, <2>5 DEF more
<1>6. Nat \subseteq H
  <2> HIDE DEF H
  <2> QED
    BY <1>4, <1>5, Induction
<1> DEFINE txs == round[n].selected
<1>7. Selecting(p, round[n], st, height) /\ Len(txs) = n
  BY <1>1, <1>6
<1> HIDE DEF txs
<1>8. /\ txs \in Seq(p.txs) /\ ApplyTransactions(st, txs, height).ok
      /\ n + Cardinality(p.txs \ Range(txs)) = n
  BY <1>7 DEF Selecting, txs, n
<1>9. Range(txs) = p.txs
  <2> DEFINE left == p.txs \ Range(txs)
  <2>1. IsFiniteSet(left) /\ Cardinality(left) \in Nat
    <3>1. IsFiniteSet(left)
      BY <1>1, FS_Subset
    <3> QED
      BY <3>1, FS_CardinalityType
  <2>2. Cardinality(left) = 0
    BY <1>1, <1>8, <2>1
  <2>3. left = {}
    <3> HIDE DEF left
    <3> QED
      BY <2>1, <2>2, EmptyFacts
  <2>4. Range(txs) \subseteq p.txs
    BY <1>8 DEF Range
  <2> QED
    BY <2>3, <2>4
<1>10. Select(p, st, height, Cardinality(p.txs)) = txs
  BY <1>2 DEF n, txs
<1> QED
  BY <1>7, <1>8, <1>9, <1>10 DEF n

-----------------------------------------------------------------------------
(***************************************************************************)
(* The block template.                                                     *)
(***************************************************************************)
(* A batch that executes makes a body: subsidy and fees together never take
   the miner over the supply. *)
LEMMA BodyRuns ==
  ASSUME NEW st, NEW supply, StateSound(st, supply), NEW height \in Nat,
         NEW miner \in Addresses, NEW txs, Len(txs) \in Nat, Len(txs) <= MaxBlockTransactions,
         \A i \in 1..Len(txs) : txs[i].authentic => NamesAddresses(txs[i]),
         ApplyTransactions(st, txs, height).ok
  PROVE  RunBody(st, supply, height, miner, txs).ok
<1> DEFINE n == Len(txs)
           batch == ApplyTransactions(st, txs, height)
           subsidy == BlockSubsidy(height, supply)
           t == batch.state.accounts
           fees == batch.fees
<1>1. PICK run : IsRun(run, st, txs, height) /\ batch = run[n]
  BY RunExists
<1>2. BatchDone(run, st, txs, height, n)
  <2>1. /\ IsState(st) /\ st.accounts \in Table /\ NoncesExact(st)
        /\ IsFiniteSet(st.confirmed) /\ n \in 0..n
    BY DEF StateSound
  <2> HIDE DEF batch
  <2>2. run[n].ok => BatchDone(run, st, txs, height, n)
    BY <1>1, <2>1, BatchSteps
  <2> QED
    BY <1>1, <2>2 DEF batch
<1>3. supply \in 0..MaxSupply /\ Total(st.accounts) = supply
  BY DEF StateSound
<1>4. subsidy \in 0..(MaxSupply - supply) /\ MaxSupply \in Nat /\ U64Max \in Nat
      /\ MaxSupply <= U64Max
  <2>1. subsidy \in 0..(MaxSupply - supply)
    BY <1>3, SubsidyIsCapped
  <2> QED
    BY <2>1, LedgerAssumption DEF LedgerAssumption
<1> HIDE DEF batch
<1>5. t \in Table /\ fees \in 0..U64Max /\ Total(t) = supply - fees
  BY <1>1, <1>2, <1>3 DEF BatchDone
<1>6. t[miner].balance \in Nat /\ t[miner].balance <= Total(t)
  BY <1>5, BalancesBounded
<1> DEFINE held == t[miner].balance
           total == Total(t)
<1>7. held \in Nat /\ held <= total /\ total = supply - fees
  BY <1>5, <1>6
<1> HIDE DEF subsidy, held, total, fees, t
<1>8. subsidy + fees <= U64Max /\ ~(held + (subsidy + fees) > U64Max)
  BY <1>3, <1>4, <1>5, <1>7
<1>9. ~CreditOverflows(batch.state, miner, subsidy + fees)
  BY <1>8 DEF CreditOverflows, held, t
<1> QED
  BY <1>3, <1>8, <1>9 DEF RunBody, Rewarded, batch, subsidy, fees

(* The clock and the height have not reached the end of their fields. *)
ClockLasts ==
  NextHeight <= U64Max /\ chain.tip.timestamp + TargetBlockSeconds <= U64Max

(* The template for a batch that executes on the tip is a block that the tree
   accepts, and its new tip. *)
LEMMA TemplateAccepted ==
  ASSUME NEW c, ChainSound(c), NEW miner \in Addresses, NEW txs \in Seq(Txs),
         Len(txs) <= MaxBlockTransactions,
         \A i \in 1..Len(txs) : NamesAddresses(txs[i]),
         ApplyTransactions(TipEntry(c).state, txs, TipEntry(c).height + 1).ok,
         NEW time \in 0..U64Max, time > c.tip.timestamp, TipEntry(c).height + 1 <= U64Max,
         NEW template, template = BuildCandidate(c, c.tip, miner, txs, time)
  PROVE  /\ template.ok
         /\ AddOutcome(c, template.block) = "accepted"
         /\ AddBlock(c, template.block).tip = template.block
         /\ template.block.transactions = txs
<1> DEFINE entry == TipEntry(c)
           height == c.tip.height + 1
           target == ExpectedTargetForChild(c.entries, c.tip)
           body == RunBody(entry.state, entry.supply, height, miner, txs)
           b == template.block
<1>1. /\ c.tip \in Known(c) /\ StateSound(entry.state, entry.supply)
      /\ entry.height = c.tip.height /\ c.tip.height \in Nat
  BY TipSound, BlockFacts DEF ChainSound, TipEntry
<1>2. body.ok
  <2>1. height \in Nat /\ Len(txs) \in Nat
    BY <1>1
  <2> HIDE DEF body
  <2> QED
    BY <1>1, <2>1, BodyRuns DEF body
<1>3. target \in 1..MaxTarget
  BY <1>1, TargetLegal
<1>4. c.tip.height # U64Max
  BY <1>1, LedgerAssumption DEF LedgerAssumption
<1>5. template = Candidate(c.tip, body, miner, txs, time, target)
  BY DEF BuildCandidate, BuildBlockCandidate, TipEntry
<1> HIDE DEF body, target, entry
<1>6. template.ok
  BY <1>2, <1>3, <1>4, <1>5 DEF Candidate
<1>7. /\ b.prev = c.tip /\ b.height = height /\ b.timestamp = time /\ b.target = target
      /\ b.miner = miner /\ b.transactions = txs
      /\ b.reward = [height |-> height, miner |-> miner, amount |-> body.reward]
      /\ b.stateRoot = body.state.accounts /\ b.sealed
  BY <1>5 DEF Candidate
<1> HIDE DEF b
<1>8. b \notin Known(c)
  <2> SUFFICES ASSUME b \in Known(c) PROVE FALSE
    OBVIOUS
  <2>1. b # GenesisBlock
    BY <1>1, <1>7 DEF GenesisBlock
  <2>2. c.entries[b].work = c.entries[c.tip].work + WorkForTarget(target)
    BY <1>7, <2>1 DEF ChainSound, TreeSound, ParentsKnown
  <2>3. WorkForTarget(target) \in Nat \ {0}
    BY <1>3, WorkIsPositive
  <2>4. c.entries[c.tip].work \in Nat /\ c.entries[b].work <= c.entries[c.tip].work
    BY <1>1 DEF ChainSound, TreeSound, EntriesTyped, TipHeaviest
  <2> QED
    BY <2>2, <2>3, <2>4
<1>9. Execution(c, b).ok
  <2>1. Execution(c, b) = Verdict(b, c.tip, body, target)
    BY <1>7 DEF Execution, ValidateAndExecuteBlock, ParentEntry, TipEntry, entry, body, target
  <2>2. Verdict(b, c.tip, body, target).ok
    BY <1>2, <1>3, <1>7 DEF Verdict, TimestampIncreases
  <2> QED
    BY <2>1, <2>2
<1>10. AddOutcome(c, b) = "accepted"
  <2>1. c.entries[b.prev].height # U64Max
    BY <1>1, <1>4, <1>7 DEF entry, TipEntry
  <2> QED
    BY <1>1, <1>7, <1>8, <1>9, <2>1 DEF AddOutcome
<1>11. AddBlock(c, b).tip = b
  <2> DEFINE d == AddBlock(c, b)
  <2>1. /\ d.entries[b].work = c.entries[c.tip].work + WorkForTarget(target)
        /\ d.tip = IF d.entries[b].work > c.entries[c.tip].work THEN b ELSE c.tip
    BY <1>7, <1>10, AddEffects DEF ChainSound, TreeSound
  <2>2. WorkForTarget(target) \in Nat \ {0} /\ c.entries[c.tip].work \in Nat
    BY <1>1, <1>3, WorkIsPositive DEF ChainSound, TreeSound, EntriesTyped
  <2> HIDE DEF d
  <2> QED
    BY <2>1, <2>2 DEF d
<1> QED
  BY <1>6, <1>7, <1>10, <1>11 DEF b

(* As long as the clock and the height fit their fields, the template for the
   next block is valid, becomes the new tip, and with room for it confirms all
   of the pool: what admission promised, selection and validation keep. *)
THEOREM MineConfirmsPoolTheorem == FewTransactions /\ Spec => [](ClockLasts => MineConfirmsPool)
<1>1. FewTransactions /\ Init => FewTransactions /\ IInv
  BY InitIInv
<1>2. (FewTransactions /\ IInv) /\ [Next]_vars => (FewTransactions /\ IInv)'
  BY NextIInv DEF FewTransactions
<1>3. FewTransactions /\ IInv => (ClockLasts => MineConfirmsPool)
  <2> DEFINE n == Cardinality(pool.txs)
             txs == Select(pool, state, NextHeight, n)
  <2> SUFFICES ASSUME FewTransactions, IInv, ClockLasts, NEW miner \in Miners,
                      n <= MaxBlockTransactions
               PROVE  LET template == Template(miner, n, TargetBlockSeconds) IN
                      /\ template.ok
                      /\ AddOutcome(chain, template.block) = "accepted"
                      /\ AddBlock(chain, template.block).tip = template.block
                      /\ Range(template.block.transactions) = pool.txs
    BY Zenon DEF MineConfirmsPool
  <2>1. StateSound(state, TipEntry(chain).supply) /\ state.confirmed \subseteq Txs
    BY TipSound DEF IInv, state
  <2>2. Queue(pool.txs, state, NextHeight)
    BY DEF IInv, Ready
  <2>3. /\ txs \in Seq(pool.txs) /\ Len(txs) = n /\ Range(txs) = pool.txs
        /\ ApplyTransactions(state, txs, NextHeight).ok
    BY <2>1, <2>2, SelectTakesAll
  <2> HIDE DEF txs, n
  <2>4. txs \in Seq(Txs) /\ \A i \in 1..Len(txs) : NamesAddresses(txs[i])
    <3>1. pool.txs \subseteq Txs /\ \A t \in pool.txs : NamesAddresses(t)
      BY <2>2, TxNamesAddresses DEF Queue
    <3> QED
      BY <2>3, <3>1
  <2> DEFINE time == chain.tip.timestamp + TargetBlockSeconds
  <2>5. time \in 0..U64Max /\ time > chain.tip.timestamp
    <3>1. chain.tip.timestamp \in 0..U64Max
      BY TipSound DEF IInv, ChainSound
    <3> QED
      BY <3>1, BlockTreeAssumption, LedgerAssumption
      DEF BlockTreeAssumption, LedgerAssumption, ClockLasts
  <2>6. miner \in Addresses
    BY NodeAssumption DEF NodeAssumption
  <2>7. Template(miner, n, TargetBlockSeconds) = BuildCandidate(chain, chain.tip, miner, txs, time)
    BY DEF Template, txs
  <2>8. ChainSound(chain) /\ TipEntry(chain).height + 1 <= U64Max
        /\ ApplyTransactions(TipEntry(chain).state, txs, TipEntry(chain).height + 1).ok
    BY <2>3 DEF IInv, ClockLasts, NextHeight, state
  <2> HIDE DEF time
  <2> QED
    BY <2>3, <2>4, <2>5, <2>6, <2>7, <2>8, TemplateAccepted
<1> QED
  BY <1>1, <1>2, <1>3, PTL DEF Spec
=============================================================================
