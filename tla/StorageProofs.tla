---------------------------- MODULE StorageProofs ----------------------------
(***************************************************************************)
(* What holds of the database of Storage for any number of nodes,          *)
(* validators and reindexers, any set of blocks and any number of damages. *)
(*                                                                         *)
(* First the replay of the rows: what a stored row adds to it, when two    *)
(* files replay to the same tree, and when the stored records agree with   *)
(* the replayed ones.  Then the inductive invariant: the file replays to a *)
(* sound tree, and every process holds a part of that tree.                *)
(***************************************************************************)
EXTENDS Storage, BlockTreeProofs

Fresh(d) == [ok |-> d.rows # <<>>, chain |-> EmptyChain]

(* run[k] is the replay of the first k rows. *)
IsReplay(run, d, check) ==
  /\ run[0] = Fresh(d)
  /\ \A k \in 1..Len(d.rows) : run[k] = ReplayRow(run[k - 1], d.rows[k], check)

LEMMA MaxFacts ==
  ASSUME NEW n \in Nat, NEW T \in SUBSET (1..n), T # {}
  PROVE  /\ Max(T) \in T /\ T \ {Max(T)} \in SUBSET (1..n)
         /\ IsFiniteSet(T)
         /\ Cardinality(T \ {Max(T)}) \in Nat
         /\ Cardinality(T) = Cardinality(T \ {Max(T)}) + 1
<1>1. IsFiniteSet(T)
  <2>1. IsFiniteSet(1..n)
    BY FS_Interval
  <2> QED
    BY <2>1, FS_Subset
<1> DEFINE D == {k \in Nat : \E x \in T : k = n - x}
<1>2. \A x \in T : x \in Nat /\ n - x \in D
  OBVIOUS
<1>3. PICK y \in D : \A z \in D : y <= z
  <2>1. D \in SUBSET Nat /\ D # {}
    BY <1>2
  <2> HIDE DEF D
  <2> QED
    BY <2>1, NatMin
<1>4. PICK x \in T : y = n - x
  BY <1>3
<1>5. \A z \in T : x >= z
  <2> SUFFICES ASSUME NEW z \in T PROVE x >= z
    OBVIOUS
  <2>1. n - z \in D /\ z \in Nat /\ x \in Nat
    BY <1>2
  <2>2. n - x <= n - z
    BY <1>3, <1>4, <2>1
  <2> HIDE DEF D
  <2> QED
    BY <2>1, <2>2
<1>6. Max(T) \in T
  BY <1>5 DEF Max
<1>7. T \ {Max(T)} \in SUBSET (1..n)
  OBVIOUS
<1>8. Cardinality(T) \in Nat /\ Cardinality(T \ {Max(T)}) = Cardinality(T) - 1
  BY <1>1, <1>6, FS_RemoveElement, FS_CardinalityType
<1>9. IsFiniteSet(T \ {Max(T)})
  BY <1>1, FS_Subset
<1>10. Cardinality(T \ {Max(T)}) \in Nat
  BY <1>9, FS_CardinalityType
<1> QED
  BY <1>1, <1>6, <1>7, <1>8, <1>10

LEMMA MaxOfInterval ==
  ASSUME NEW k \in Nat, k # 0
  PROVE  Max(1..k) = k /\ (1..k) \ {k} = 1..(k - 1)
<1>1. k \in 1..k /\ \A y \in 1..k : k >= y
  OBVIOUS
<1>2. \A x \in 1..k : (\A y \in 1..k : x >= y) => x = k
  BY <1>1
<1> QED
  BY <1>1, <1>2 DEF Max

(* The fold that Replay is, as a function on sets of row numbers. *)
IsFold(g, d, n, check) ==
  g = [T \in SUBSET (1..n) |->
         IF T = {} THEN Fresh(d)
         ELSE ReplayRow(g[T \ {Max(T)}], d.rows[Max(T)], check)]

LEMMA FoldExists ==
  ASSUME NEW d, NEW n \in Nat, NEW check
  PROVE  \E g : IsFold(g, d, n, check)
<1> DEFINE S == 1..n
           Body(g, T) == IF T = {} THEN Fresh(d)
                         ELSE ReplayRow(g[T \ {Max(T)}], d.rows[Max(T)], check)
           Upto(g, k) == \A T \in SUBSET S : Cardinality(T) <= k => g[T] = Body(g, T)
           H == {k \in Nat : \E g : g = [T \in SUBSET S |-> g[T]] /\ Upto(g, k)}
<1>0. IsFiniteSet(S)
  BY FS_Interval
<1>1. 0 \in H
  <2> DEFINE g == [T \in SUBSET S |-> Fresh(d)]
  <2>1. Upto(g, 0)
    <3> SUFFICES ASSUME NEW T \in SUBSET S, Cardinality(T) <= 0 PROVE g[T] = Body(g, T)
      OBVIOUS
    <3>1. T = {}
      BY <1>0, EmptyFacts
    <3> QED
      BY <3>1
  <2>2. g = [T \in SUBSET S |-> g[T]]
    OBVIOUS
  <2> QED
    BY <2>1, <2>2
<1>2. ASSUME NEW k \in Nat, k \in H PROVE k + 1 \in H
  <2>1. PICK g : g = [T \in SUBSET S |-> g[T]] /\ Upto(g, k)
    BY <1>2
  <2> DEFINE h == [T \in SUBSET S |-> IF Cardinality(T) <= k THEN g[T] ELSE Body(g, T)]
  <2>2. h = [T \in SUBSET S |-> h[T]]
    <3> HIDE DEF Body
    <3> QED
      OBVIOUS
  <2>3. Upto(h, k + 1)
    <3> SUFFICES ASSUME NEW T \in SUBSET S, Cardinality(T) <= k + 1
                 PROVE  h[T] = Body(h, T)
      OBVIOUS
    <3>1. h[T] = Body(g, T)
      BY <2>1
    <3>2. CASE T = {}
      BY <3>1, <3>2
    <3>3. CASE T # {}
      <4>1. T \ {Max(T)} \in SUBSET S /\ Cardinality(T \ {Max(T)}) <= k
        BY <3>3, MaxFacts
      <4>2. h[T \ {Max(T)}] = g[T \ {Max(T)}]
        <5> HIDE DEF Body, S
        <5> QED
          BY <4>1
      <4> HIDE DEF h
      <4> QED
        BY <3>1, <3>3, <4>2
    <3> QED
      BY <3>2, <3>3
  <2> HIDE DEF h, Upto
  <2> QED
    BY <2>2, <2>3
<1>3. Nat \subseteq H
  <2> HIDE DEF H
  <2> QED
    BY <1>1, <1>2, Induction
<1>4. Cardinality(S) \in Nat
  BY <1>0, FS_CardinalityType
<1>5. PICK g : g = [T \in SUBSET S |-> g[T]] /\ Upto(g, Cardinality(S))
  BY <1>3, <1>4
<1>6. \A T \in SUBSET S : g[T] = Body(g, T)
  <2> HIDE DEF Body
  <2> QED
    BY <1>0, <1>5, FS_Subset
<1>7. g = [T \in SUBSET S |-> Body(g, T)]
  <2> HIDE DEF Body, S
  <2> QED
    BY <1>5, <1>6
<1> QED
  BY <1>7 DEF IsFold

(* Replay runs through the rows in order. *)
LEMMA ReplaySteps ==
  ASSUME NEW d, d.rows \in Seq(Range(d.rows)), NEW check
  PROVE  \E run : IsReplay(run, d, check) /\ Replay(d, check) = run[Len(d.rows)]
<1> DEFINE n == Len(d.rows)
           Fold(g) == IsFold(g, d, n, check)
<1>1. n \in Nat /\ DOMAIN d.rows = 1..n
  OBVIOUS
<1>2. \E g : Fold(g)
  <2> HIDE DEF n
  <2>1. n \in Nat
    BY <1>1
  <2> QED
    BY <2>1, FoldExists
<1>3. \E g : Fold(g) /\ Replay(d, check) = g[1..n]
  BY <1>1, <1>2, ZenonT(40) DEF Replay, FoldLeft, MapThenFoldSet, AcceptanceOrder, Fresh, IsFold
<1>4. PICK g : Fold(g) /\ Replay(d, check) = g[1..n]
  BY <1>3
<1> DEFINE run == [k \in 0..n |-> g[1..k]]
<1>5. run[0] = Fresh(d)
  <2>1. 1..0 = {} /\ {} \in SUBSET (1..n) /\ 0 \in 0..n
    BY <1>1
  <2> QED
    BY <1>4, <2>1 DEF IsFold
<1>6. \A k \in 1..n : run[k] = ReplayRow(run[k - 1], d.rows[k], check)
  <2> SUFFICES ASSUME NEW k \in 1..n
               PROVE  run[k] = ReplayRow(run[k - 1], d.rows[k], check)
    OBVIOUS
  <2>1. 1..k \in SUBSET (1..n) /\ 1..k # {} /\ k \in 0..n /\ k - 1 \in 0..n
    <3> HIDE DEF n
    <3>1. k \in Nat /\ n \in Nat /\ 1 <= k /\ k <= n
      BY <1>1
    <3>2. k \in 1..k /\ k \in 0..n /\ k - 1 \in 0..n
      BY <3>1
    <3>3. \A x \in 1..k : x \in 1..n
      BY <3>1
    <3> QED
      BY <3>2, <3>3
  <2>2. Max(1..k) = k /\ (1..k) \ {k} = 1..(k - 1)
    BY <1>1, MaxOfInterval
  <2>3. g[1..k] = ReplayRow(g[1..(k - 1)], d.rows[k], check)
    BY <1>4, <2>1, <2>2 DEF IsFold
  <2> QED
    BY <2>1, <2>3
<1>7. run[n] = Replay(d, check)
  BY <1>1, <1>4
<1> HIDE DEF run, n
<1> QED
  BY <1>5, <1>6, <1>7 DEF IsReplay, n
-----------------------------------------------------------------------------
(***************************************************************************)
(* What the replay of one row does, and what it leaves for the next.       *)
(***************************************************************************)
IsOutcome(run) == run = [ok |-> run.ok, chain |-> run.chain]

LEMMA OutcomeFields ==
  ASSUME NEW run, NEW c, run = [ok |-> TRUE, chain |-> c]
  PROVE  run.ok /\ run.chain = c
OBVIOUS

LEMMA RowEffects ==
  ASSUME NEW run, IsOutcome(run), NEW row, NEW check, NEW next, next = ReplayRow(run, row, check)
  PROVE  /\ IsOutcome(next)
         /\ next.ok =>
              /\ run.ok
              /\ IF row.block = GenesisBlock
                   THEN next.chain = run.chain
                   ELSE /\ AddOutcome(run.chain, row.block) = "accepted"
                        /\ next.chain = AddBlock(run.chain, row.block)
              /\ check => row.record = Record(next.chain, row.block)
<1> DEFINE c == IF row.block = GenesisBlock THEN run.chain ELSE AddBlock(run.chain, row.block)
           good == /\ run.ok
                   /\ row.block = GenesisBlock \/ AddOutcome(run.chain, row.block) = "accepted"
                   /\ check => row.record = Record(c, row.block)
<1>1. next = IF good THEN [ok |-> TRUE, chain |-> c] ELSE [run EXCEPT !.ok = FALSE]
  BY DEF ReplayRow
<1>2. [run EXCEPT !.ok = FALSE] = [ok |-> FALSE, chain |-> run.chain]
  <2> DEFINE no == FALSE
  <2>1. DOMAIN run = {"ok", "chain"}
    BY DEF IsOutcome
  <2> HIDE DEF no
  <2>2. [run EXCEPT !.ok = no] = [k \in {"ok", "chain"} |-> IF k = "ok" THEN no ELSE run[k]]
    BY <2>1
  <2>3. [ok |-> no, chain |-> run.chain] =
          [k \in {"ok", "chain"} |-> IF k = "ok" THEN no ELSE run[k]]
    OBVIOUS
  <2> QED
    BY <2>2, <2>3 DEF no
<1>3. CASE good
  <2>1. next = [ok |-> TRUE, chain |-> c]
    BY <1>1, <1>3
  <2>2. next.chain = c
    BY <2>1
  <2> QED
    BY <1>3, <2>1, <2>2 DEF IsOutcome
<1>4. CASE ~good
  <2> HIDE DEF good, c
  <2>1. next = [ok |-> FALSE, chain |-> run.chain]
    BY <1>1, <1>2, <1>4
  <2> QED
    BY <2>1 DEF IsOutcome
<1> QED
  BY <1>3, <1>4

LEMMA StepsTyped ==
  ASSUME NEW d, d.rows \in Seq(Range(d.rows)), NEW check, NEW f, IsReplay(f, d, check)
  PROVE  \A k \in 0..Len(d.rows) : IsOutcome(f[k])
<1> DEFINE n == Len(d.rows)
           H == {k \in Nat : k <= n => IsOutcome(f[k])}
<1>1. 0 \in H
  BY DEF IsReplay, IsOutcome, Fresh
<1>2. ASSUME NEW k \in Nat, k \in H PROVE k + 1 \in H
  <2> SUFFICES ASSUME k + 1 <= n PROVE IsOutcome(f[k + 1])
    OBVIOUS
  <2>1. k + 1 \in 1..n /\ (k + 1) - 1 = k /\ IsOutcome(f[k])
    BY <1>2
  <2>2. f[k + 1] = ReplayRow(f[k], d.rows[k + 1], check)
    BY <2>1 DEF IsReplay
  <2> QED
    BY <2>1, <2>2, RowEffects
<1>3. Nat \subseteq H
  <2> HIDE DEF H
  <2> QED
    BY <1>1, <1>2, Induction
<1> QED
  BY <1>3

(* A replay that ends well went well all the way. *)
LEMMA OkBefore ==
  ASSUME NEW d, d.rows \in Seq(Range(d.rows)), NEW check, NEW f, IsReplay(f, d, check),
         f[Len(d.rows)].ok
  PROVE  \A k \in 0..Len(d.rows) : f[k].ok
<1> DEFINE n == Len(d.rows)
           H == {j \in Nat : j <= n => f[n - j].ok}
<1>0. n \in Nat
  OBVIOUS
<1>1. 0 \in H
  BY <1>0
<1>2. ASSUME NEW j \in Nat, j \in H PROVE j + 1 \in H
  <2> SUFFICES ASSUME j + 1 <= n PROVE f[n - (j + 1)].ok
    OBVIOUS
  <2> DEFINE k == n - j
  <2>1. k \in 1..n /\ k - 1 \in 0..n /\ n - (j + 1) = k - 1 /\ f[k].ok
    BY <1>0, <1>2
  <2> HIDE DEF k
  <2>2. f[k] = ReplayRow(f[k - 1], d.rows[k], check) /\ IsOutcome(f[k - 1])
    BY <2>1, StepsTyped DEF IsReplay
  <2> QED
    BY <2>1, <2>2, RowEffects
<1>3. Nat \subseteq H
  <2> HIDE DEF H
  <2> QED
    BY <1>1, <1>2, Induction
<1> SUFFICES ASSUME NEW k \in 0..n PROVE f[k].ok
  OBVIOUS
<1>4. n - k \in Nat /\ n - k <= n /\ n - (n - k) = k
  BY <1>0
<1> HIDE DEF n
<1> QED
  BY <1>3, <1>4

(* Rows that are treated alike lead to the same replay. *)
Alike(f, d, check, e, other, m) ==
  \A k \in 1..m :
    ReplayRow(f[k - 1], d.rows[k], check) = ReplayRow(f[k - 1], e.rows[k], other)

LEMMA SameSteps ==
  ASSUME NEW d, NEW check, NEW f, IsReplay(f, d, check), Len(d.rows) \in Nat,
         NEW e, NEW other, NEW g, IsReplay(g, e, other), Len(e.rows) \in Nat,
         Fresh(d) = Fresh(e), NEW m \in Nat, m <= Len(d.rows), m <= Len(e.rows),
         Alike(f, d, check, e, other, m)
  PROVE  g[m] = f[m]
<1> DEFINE H == {k \in Nat : k <= m => g[k] = f[k]}
<1>1. 0 \in H
  BY DEF IsReplay
<1>2. ASSUME NEW k \in Nat, k \in H PROVE k + 1 \in H
  <2> SUFFICES ASSUME k + 1 <= m PROVE g[k + 1] = f[k + 1]
    OBVIOUS
  <2>1. /\ k + 1 \in 1..m /\ k + 1 \in 1..Len(d.rows) /\ k + 1 \in 1..Len(e.rows)
        /\ (k + 1) - 1 = k /\ g[k] = f[k]
    BY <1>2
  <2>2. f[k + 1] = ReplayRow(f[k], d.rows[k + 1], check)
    BY <2>1 DEF IsReplay
  <2>3. g[k + 1] = ReplayRow(g[k], e.rows[k + 1], other)
    BY <2>1 DEF IsReplay
  <2>4. ReplayRow(f[k], d.rows[k + 1], check) = ReplayRow(f[k], e.rows[k + 1], other)
    BY <2>1 DEF Alike
  <2> QED
    BY <2>1, <2>2, <2>3, <2>4
<1>3. Nat \subseteq H
  <2> HIDE DEF H
  <2> QED
    BY <1>1, <1>2, Induction
<1> QED
  BY <1>3

(* One more row is one more step. *)
LEMMA ReplayAppend ==
  ASSUME NEW d, d.rows \in Seq(Range(d.rows)), d.rows # <<>>,
         NEW row, NEW e, e.rows = Append(d.rows, row), NEW check
  PROVE  /\ e.rows \in Seq(Range(e.rows)) /\ e.rows # <<>>
         /\ Replay(e, check) = ReplayRow(Replay(d, check), row, check)
<1> DEFINE n == Len(d.rows)
           S == Range(d.rows) \cup {row}
<1>0. /\ e.rows \in Seq(S) /\ Len(e.rows) = n + 1 /\ n \in Nat /\ e.rows[n + 1] = row
      /\ \A k \in 1..n : e.rows[k] = d.rows[k]
  <2>1. d.rows \in Seq(S) /\ row \in S
    BY DEF Range
  <2> HIDE DEF S
  <2> QED
    BY <2>1, AppendFacts
<1>1. e.rows \in Seq(Range(e.rows)) /\ e.rows # <<>>
  <2>1. \A k \in 1..Len(e.rows) : e.rows[k] \in Range(e.rows)
    <3>1. DOMAIN e.rows = 1..Len(e.rows)
      BY <1>0
    <3> QED
      BY <3>1, Zenon DEF Range
  <2>2. e.rows = [k \in 1..Len(e.rows) |-> e.rows[k]] /\ Len(e.rows) \in Nat /\ Len(e.rows) > 0
    <3> HIDE DEF S, n
    <3> QED
      BY <1>0
  <2> QED
    BY <2>1, <2>2
<1>2. PICK f : IsReplay(f, d, check) /\ Replay(d, check) = f[n]
  BY ReplaySteps
<1>3. PICK g : IsReplay(g, e, check) /\ Replay(e, check) = g[n + 1]
  BY <1>0, <1>1, ReplaySteps
<1> HIDE DEF n, S
<1>4. Fresh(d) = Fresh(e)
  BY <1>1 DEF Fresh
<1>5. g[n] = f[n]
  <2>1. Alike(f, d, check, e, check, n)
    BY <1>0 DEF Alike
  <2>2. n <= Len(d.rows) /\ n <= Len(e.rows) /\ Len(d.rows) \in Nat /\ Len(e.rows) \in Nat
    BY <1>0 DEF n
  <2> QED
    BY <1>0, <1>2, <1>3, <1>4, <2>1, <2>2, SameSteps
<1>6. n + 1 \in 1..Len(e.rows) /\ (n + 1) - 1 = n
  BY <1>0
<1>7. g[n + 1] = ReplayRow(g[n], row, check)
  BY <1>0, <1>3, <1>6 DEF IsReplay
<1> QED
  BY <1>1, <1>2, <1>3, <1>5, <1>7

(* A replay that does not look at the records sees only the blocks. *)
LEMMA ReplaySame ==
  ASSUME NEW d, d.rows \in Seq(Range(d.rows)), NEW e, e.rows \in Seq(Range(e.rows)),
         Len(e.rows) = Len(d.rows),
         \A k \in 1..Len(d.rows) : e.rows[k].block = d.rows[k].block
  PROVE  Replay(e, FALSE) = Replay(d, FALSE)
<1> DEFINE n == Len(d.rows)
           no == FALSE
<1> HIDE DEF no
<1>0. n \in Nat
  OBVIOUS
<1>1. PICK f : IsReplay(f, d, no) /\ Replay(d, no) = f[n]
  BY ReplaySteps
<1>2. PICK g : IsReplay(g, e, no) /\ Replay(e, no) = g[n]
  BY ReplaySteps
<1>3. Alike(f, d, no, e, no, n)
  BY DEF Alike, ReplayRow, no
<1>4. Fresh(d) = Fresh(e)
  BY DEF Fresh
<1>5. n <= Len(d.rows) /\ n <= Len(e.rows) /\ Len(d.rows) \in Nat /\ Len(e.rows) \in Nat
  BY <1>0
<1> HIDE DEF n
<1>6. g[n] = f[n]
  BY <1>0, <1>1, <1>2, <1>3, <1>4, <1>5, SameSteps
<1> QED
  BY <1>1, <1>2, <1>6 DEF no

(* Every tree on the way of a replay is sound, and a part of the last one,
   where the block of its own last row has the entry it will keep. *)
PrefixSound(f, d, k) ==
  /\ TreeSound(f[k].chain)
  /\ Within(f[k].chain, f[Len(d.rows)].chain)
  /\ k > 0 => d.rows[k].block \in Known(f[k].chain)

LEMMA ReplayPrefixes ==
  ASSUME NEW d, d.rows \in Seq(Range(d.rows)), NEW check, NEW f, IsReplay(f, d, check),
         f[Len(d.rows)].ok
  PROVE  \A k \in 0..Len(d.rows) : PrefixSound(f, d, k)
<1> DEFINE n == Len(d.rows)
           last == f[n].chain
           Up == {k \in Nat : k <= n => TreeSound(f[k].chain)}
           Down == {j \in Nat : j <= n => Within(f[n - j].chain, last)}
<1>0. n \in Nat
  OBVIOUS
<1>1. \A k \in 0..n : f[k].ok /\ IsOutcome(f[k])
  BY OkBefore, StepsTyped
<1>2. ASSUME NEW k \in 1..n, TreeSound(f[k - 1].chain)
      PROVE  /\ TreeSound(f[k].chain)
             /\ Within(f[k - 1].chain, f[k].chain)
             /\ d.rows[k].block \in Known(f[k].chain)
  <2> DEFINE b == d.rows[k].block
             c == f[k - 1].chain
  <2>1. k \in 0..n /\ k - 1 \in 0..n
    BY <1>0
  <2>2. f[k] = ReplayRow(f[k - 1], d.rows[k], check)
    BY DEF IsReplay
  <2>3. IF b = GenesisBlock THEN f[k].chain = c
        ELSE AddOutcome(c, b) = "accepted" /\ f[k].chain = AddBlock(c, b)
    BY <1>1, <2>1, <2>2, RowEffects
  <2>4. TreeSound(c) /\ EntriesTyped(c)
    BY <1>2 DEF TreeSound
  <2> HIDE DEF b, c
  <2>5. CASE b = GenesisBlock
    BY <2>3, <2>4, <2>5 DEF Within, EntriesTyped, b, c
  <2>6. CASE b # GenesisBlock
    <3>1. AddOutcome(c, b) = "accepted" /\ f[k].chain = AddBlock(c, b)
      BY <2>3, <2>6
    <3>2. TreeSound(AddBlock(c, b))
      BY <2>4, <3>1, AddKeepsSound
    <3>3. Within(c, AddBlock(c, b))
      BY <2>4, <3>1, AddIsWithin
    <3>4. b \in Known(AddBlock(c, b))
      BY <2>4, <3>1, AddEffects
    <3> QED
      BY <3>1, <3>2, <3>3, <3>4 DEF b, c
  <2> QED
    BY <2>5, <2>6
<1>3. 0 \in Up
  BY EmptyChainSound DEF IsReplay, Fresh
<1>4. ASSUME NEW k \in Nat, k \in Up PROVE k + 1 \in Up
  <2> SUFFICES ASSUME k + 1 <= n PROVE TreeSound(f[k + 1].chain)
    OBVIOUS
  <2>1. k + 1 \in 1..n /\ (k + 1) - 1 = k /\ TreeSound(f[k].chain)
    BY <1>0, <1>4
  <2> HIDE DEF n
  <2> QED
    BY <1>2, <2>1
<1>5. Nat \subseteq Up
  <2> HIDE DEF Up
  <2> QED
    BY <1>3, <1>4, Induction
<1>6. 0 \in Down
  BY <1>0 DEF Within
<1>7. ASSUME NEW j \in Nat, j \in Down PROVE j + 1 \in Down
  <2> SUFFICES ASSUME j + 1 <= n PROVE Within(f[n - (j + 1)].chain, last)
    OBVIOUS
  <2> DEFINE k == n - j
  <2>1. k \in 1..n /\ k - 1 \in Nat /\ k - 1 <= n /\ n - (j + 1) = k - 1 /\ Within(f[k].chain, last)
    BY <1>0, <1>7
  <2> HIDE DEF k, n, last
  <2>2. TreeSound(f[k - 1].chain)
    BY <1>5, <2>1
  <2>3. Within(f[k - 1].chain, f[k].chain)
    BY <1>2, <2>1, <2>2
  <2> QED
    BY <2>1, <2>3 DEF Within
<1>8. Nat \subseteq Down
  <2> HIDE DEF Down
  <2> QED
    BY <1>6, <1>7, Induction
<1>9. ASSUME NEW k \in 0..n
      PROVE  /\ TreeSound(f[k].chain) /\ Within(f[k].chain, last)
             /\ k > 0 => d.rows[k].block \in Known(f[k].chain)
  <2>1. k \in Nat /\ k <= n /\ n - k \in Nat /\ n - k <= n /\ n - (n - k) = k
    BY <1>0
  <2>2. k > 0 => k \in 1..n /\ k - 1 \in Nat /\ k - 1 <= n
    BY <1>0
  <2> HIDE DEF n, last
  <2>3. TreeSound(f[k].chain) /\ Within(f[k].chain, last)
    BY <1>5, <1>8, <2>1
  <2>4. k > 0 => TreeSound(f[k - 1].chain)
    BY <1>5, <2>2
  <2> QED
    BY <1>2, <2>2, <2>3, <2>4
<1> QED
  BY <1>9 DEF PrefixSound

(* A checked replay that succeeds is the unchecked one. *)
LEMMA CheckedReplay ==
  ASSUME NEW d, d.rows \in Seq(Range(d.rows)), Replay(d, TRUE).ok
  PROVE  Replay(d, TRUE) = Replay(d, FALSE)
<1> DEFINE n == Len(d.rows)
           yes == TRUE
           no == FALSE
<1> HIDE DEF yes, no
<1>0. n \in Nat
  OBVIOUS
<1>1. PICK f : IsReplay(f, d, yes) /\ Replay(d, yes) = f[n]
  BY ReplaySteps
<1>2. PICK g : IsReplay(g, d, no) /\ Replay(d, no) = g[n]
  BY ReplaySteps
<1>3. f[Len(d.rows)].ok /\ \A k \in 0..n : f[k].ok /\ IsOutcome(f[k])
  <2>1. f[Len(d.rows)].ok
    BY <1>1 DEF yes, no
  <2> QED
    BY <1>1, <2>1, OkBefore, StepsTyped
<1>4. Alike(f, d, yes, d, no, n)
  <2> SUFFICES ASSUME NEW k \in 1..n
               PROVE  ReplayRow(f[k - 1], d.rows[k], yes) = ReplayRow(f[k - 1], d.rows[k], no)
    BY DEF Alike
  <2>1. k \in 0..n /\ k - 1 \in 0..n
    BY <1>0
  <2>2. f[k] = ReplayRow(f[k - 1], d.rows[k], yes) /\ f[k].ok /\ IsOutcome(f[k - 1])
    BY <1>1, <1>3, <2>1 DEF IsReplay
  <2>3. /\ yes => d.rows[k].record = Record(f[k].chain, d.rows[k].block)
        /\ IF d.rows[k].block = GenesisBlock THEN f[k].chain = f[k - 1].chain
           ELSE f[k].chain = AddBlock(f[k - 1].chain, d.rows[k].block)
    BY <2>2, RowEffects
  <2> HIDE DEF n
  <2> QED
    BY <2>3 DEF ReplayRow, yes, no
<1>5. n <= Len(d.rows) /\ Len(d.rows) \in Nat
  BY <1>0
<1> HIDE DEF n
<1>6. g[n] = f[n]
  BY <1>0, <1>1, <1>2, <1>4, <1>5, SameSteps
<1> QED
  BY <1>1, <1>2, <1>6 DEF yes, no

(* Records that are those of the replayed tree pass every check. *)
LEMMA MatchingReplay ==
  ASSUME NEW d, d.rows \in Seq(Range(d.rows)), Replay(d, FALSE).ok,
         \A k \in 1..Len(d.rows) :
           d.rows[k].record = Record(Replay(d, FALSE).chain, d.rows[k].block)
  PROVE  Replay(d, TRUE) = Replay(d, FALSE)
<1> DEFINE n == Len(d.rows)
           yes == TRUE
           no == FALSE
<1> HIDE DEF yes, no
<1>0. n \in Nat
  OBVIOUS
<1>1. PICK f : IsReplay(f, d, no) /\ Replay(d, no) = f[n]
  BY ReplaySteps
<1>2. PICK g : IsReplay(g, d, yes) /\ Replay(d, yes) = g[n]
  BY ReplaySteps
<1>3. f[Len(d.rows)].ok /\ \A k \in 0..n : f[k].ok /\ IsOutcome(f[k])
  <2>1. f[Len(d.rows)].ok
    BY <1>1 DEF yes, no
  <2> QED
    BY <1>1, <2>1, OkBefore, StepsTyped
<1>4. Alike(f, d, no, d, yes, n)
  <2> SUFFICES ASSUME NEW k \in 1..n
               PROVE  ReplayRow(f[k - 1], d.rows[k], no) = ReplayRow(f[k - 1], d.rows[k], yes)
    BY DEF Alike
  <2> DEFINE b == d.rows[k].block
  <2>1. k \in 0..n /\ k - 1 \in 0..n /\ k > 0
    BY <1>0
  <2>2. f[k] = ReplayRow(f[k - 1], d.rows[k], no) /\ f[k].ok /\ IsOutcome(f[k - 1])
    BY <1>1, <1>3, <2>1 DEF IsReplay
  <2>3. IF b = GenesisBlock THEN f[k].chain = f[k - 1].chain
        ELSE f[k].chain = AddBlock(f[k - 1].chain, b)
    BY <2>2, RowEffects
  <2>4. Within(f[k].chain, f[n].chain) /\ b \in Known(f[k].chain)
    BY <1>1, <1>3, <2>1, ReplayPrefixes DEF PrefixSound
  <2>5. Record(f[k].chain, b) = Record(f[n].chain, b)
    BY <2>4 DEF Within, Record
  <2>6. d.rows[k].record = Record(f[k].chain, b)
    BY <1>1, <2>5 DEF no
  <2> HIDE DEF n
  <2> QED
    BY <2>3, <2>6 DEF ReplayRow, yes, no
<1>5. n <= Len(d.rows) /\ Len(d.rows) \in Nat
  BY <1>0
<1> HIDE DEF n
<1>6. g[n] = f[n]
  BY <1>0, <1>1, <1>2, <1>4, <1>5, SameSteps
<1> QED
  BY <1>1, <1>2, <1>6 DEF yes, no
-----------------------------------------------------------------------------
(***************************************************************************)
(* A sound file: its rows, in order, are accepted one after the other, and *)
(* each block is stored once.                                              *)
(***************************************************************************)
Tree(d) == Replay(d, FALSE).chain

(* Every entry is what executing its block on its branch yields. *)
Executed(c) == \A b \in Known(c) \ {GenesisBlock} : c.entries[b] = NewEntry(c, b)

RowsShaped(d) ==
  /\ d = [rows |-> d.rows, derived |-> d.derived]
  /\ d.rows \in Seq(Range(d.rows)) /\ d.rows # <<>>
  /\ \A i \in 1..Len(d.rows) :
       d.rows[i] = [block |-> d.rows[i].block, record |-> d.rows[i].record]

StoredOnce(d) ==
  \A i, j \in 1..Len(d.rows) : d.rows[i].block = d.rows[j].block => i = j

FileSound(d) ==
  /\ RowsShaped(d) /\ StoredOnce(d)
  /\ Replay(d, FALSE).ok /\ TreeSound(Tree(d)) /\ Executed(Tree(d))
  /\ Known(Tree(d)) = StoredBlocks(d)

(* The records and the derived tables are those of the replayed tree. *)
RecordsMatch(d) == \A i \in 1..Len(d.rows) : d.rows[i].record = Record(Tree(d), d.rows[i].block)
Intact(d) == RecordsMatch(d) /\ d.derived = Derived(Tree(d))

(* An intact file passes every check of load_chain. *)
LEMMA IntactIsHealthy ==
  ASSUME NEW d, FileSound(d), Intact(d)
  PROVE  Healthy(d)
<1>1. Replay(d, TRUE) = Replay(d, FALSE)
  BY MatchingReplay DEF FileSound, RowsShaped, Intact, RecordsMatch, Tree
<1> QED
  BY <1>1 DEF Healthy, FileSound, Intact, Tree

LEMMA ExecutedGrows ==
  ASSUME NEW c, TreeSound(c), Executed(c), NEW b, AddOutcome(c, b) = "accepted"
  PROVE  Executed(AddBlock(c, b))
<1> DEFINE d == AddBlock(c, b)
<1>1. EntriesTyped(c) /\ ParentsKnown(c)
  BY DEF TreeSound
<1>2. /\ Known(d) = Known(c) \cup {b} /\ b.prev \in Known(c)
      /\ \A k \in Known(c) : d.entries[k] = c.entries[k]
      /\ d.entries[b] = NewEntry(c, b)
  BY <1>1, AddEffects
<1>3. Within(c, d)
  BY <1>1, AddIsWithin
<1> HIDE DEF d
<1>4. NewEntry(c, b) = NewEntry(d, b)
  BY <1>2, <1>3, EntryWithin
<1>5. ASSUME NEW k \in Known(c) \ {GenesisBlock} PROVE d.entries[k] = NewEntry(d, k)
  <2>1. k.prev \in Known(c)
    BY <1>1 DEF ParentsKnown
  <2>2. NewEntry(c, k) = NewEntry(d, k)
    BY <1>3, <2>1, EntryWithin
  <2> QED
    BY <1>2, <2>2 DEF Executed
<1> QED
  BY <1>2, <1>4, <1>5 DEF Executed, d

(* The derived tables are those of the tip's branch. *)
LEMMA DerivedWithin ==
  ASSUME NEW c, TreeSound(c), NEW d, TreeSound(d), Within(c, d), c.tip = d.tip
  PROVE  Derived(c) = Derived(d)
<1>1. c.tip \in Known(c)
  BY DEF TreeSound, EntriesTyped
<1>2. Branch(c.entries, c.tip) = Branch(d.entries, d.tip)
  BY <1>1, BranchWithin
<1>3. TipEntry(c) = TipEntry(d)
  BY <1>1 DEF TipEntry, Within
<1> QED
  BY <1>2, <1>3 DEF Derived

(* _expected_previous_tip undoes the switch: it is the tip the update was
   computed from. *)
LEMMA PreviousTip ==
  ASSUME NEW c, TreeSound(c), NEW b, AddOutcome(c, b) = "accepted"
  PROVE  /\ UpdateFor(c, b).added = b
         /\ UpdateFor(c, b).becameActive = (AddBlock(c, b).tip = b)
         /\ ExpectedPreviousTip(UpdateFor(c, b)) = c.tip
<1> DEFINE u == UpdateFor(c, b)
           A == Branch(c.entries, c.tip)
           B == Branch(AddBlock(c, b).entries, b)
<1>1. CASE AddBlock(c, b).tip # b
  BY <1>1 DEF UpdateFor, UpdateBetween, SideBranchUpdate, ExpectedPreviousTip
<1>2. CASE AddBlock(c, b).tip = b
  <2>1. u.added = b /\ u.becameActive = TRUE
    BY <1>2 DEF UpdateFor, UpdateBetween, SwitchUpdate
  <2>2. Reports(u, A, B)
    BY <1>2, UpdateIsExact
  <2>3. IsBranch(A, c.tip, Known(c))
    BY BranchIsBranch DEF TreeSound, EntriesTyped
  <2> HIDE DEF u, A, B
  <2>4. A \in Seq(Known(c)) /\ Len(A) \in Nat /\ A[Len(A)] = c.tip
    BY <2>3 DEF IsBranch
  <2>5. PICK n \in 1..Len(A) : /\ u.ancestor = A[n]
                               /\ u.disconnected = Reverse(SubSeq(A, n + 1, Len(A)))
    BY <2>2 DEF Reports
  <2>6. CASE n = Len(A)
    <3>1. SubSeq(A, n + 1, Len(A)) = <<>> /\ Reverse(SubSeq(A, n + 1, Len(A))) = <<>>
      BY <2>4, <2>6, NoSuffix
    <3> QED
      BY <2>1, <1>2, <2>4, <2>5, <2>6, <3>1 DEF ExpectedPreviousTip, u
  <2>7. CASE n # Len(A)
    <3> DEFINE s == SubSeq(A, n + 1, Len(A))
    <3>1. /\ s \in Seq(Known(c)) /\ Len(s) = Len(A) - n /\ Len(s) \in 1..Len(s)
          /\ s[Len(s)] = A[Len(A)]
      BY <2>4, <2>7
    <3> HIDE DEF s
    <3>2. /\ Reverse(s) \in Seq(Known(c)) /\ Len(Reverse(s)) = Len(s)
          /\ \A i \in 1..Len(s) : Reverse(s)[i] = s[Len(s) - i + 1]
      BY <3>1, ReverseFacts
    <3>3. 1 \in 1..Len(s) /\ Len(s) - 1 + 1 = Len(s)
      BY <3>1
    <3>4. Reverse(s)[1] = c.tip /\ Reverse(s) # <<>>
      BY <2>4, <3>1, <3>2, <3>3
    <3>5. u.disconnected = Reverse(s)
      BY <2>5 DEF s
    <3> QED
      BY <1>2, <2>1, <3>4, <3>5 DEF ExpectedPreviousTip, u
  <2> QED
    BY <2>6, <2>7
<1> QED
  BY <1>1, <1>2

(* Rewriting what is not a block leaves the tree as it was. *)
LEMMA SameBlocksSound ==
  ASSUME NEW d, FileSound(d), NEW e, RowsShaped(e), Len(e.rows) = Len(d.rows),
         \A k \in 1..Len(d.rows) : e.rows[k].block = d.rows[k].block
  PROVE  FileSound(e) /\ Tree(e) = Tree(d) /\ StoredBlocks(e) = StoredBlocks(d)
<1>1. d.rows \in Seq(Range(d.rows)) /\ e.rows \in Seq(Range(e.rows))
  BY DEF FileSound, RowsShaped
<1>2. Replay(e, FALSE) = Replay(d, FALSE)
  BY <1>1, ReplaySame
<1>3. DOMAIN d.rows = 1..Len(d.rows) /\ DOMAIN e.rows = 1..Len(d.rows)
  BY <1>1
<1>4. StoredBlocks(e) = StoredBlocks(d)
  BY <1>3 DEF StoredBlocks
<1> QED
  BY <1>2, <1>4 DEF FileSound, StoredOnce, Tree

(* Appending the row of a block that some part of the tree accepts. *)
LEMMA AppendSound ==
  ASSUME NEW d, FileSound(d), NEW c, TreeSound(c), Within(c, Tree(d)),
         NEW b, AddOutcome(c, b) = "accepted", b \notin StoredBlocks(d),
         NEW e, RowsShaped(e), e.rows = Append(d.rows, Row(AddBlock(c, b), b))
  PROVE  /\ FileSound(e)
         /\ StoredBlocks(e) = StoredBlocks(d) \cup {b}
         /\ AddOutcome(Tree(d), b) = "accepted" /\ Tree(e) = AddBlock(Tree(d), b)
         /\ Within(AddBlock(c, b), Tree(e)) /\ Within(Tree(d), Tree(e))
         /\ RecordsMatch(d) => RecordsMatch(e)
<1> DEFINE R == Tree(d)
           n == Len(d.rows)
           row == Row(AddBlock(c, b), b)
<1>1. /\ TreeSound(R) /\ Executed(R) /\ EntriesTyped(R) /\ EntriesTyped(c)
      /\ Known(R) = StoredBlocks(d)
      /\ d.rows \in Seq(Range(d.rows)) /\ d.rows # <<>> /\ n \in Nat
      /\ DOMAIN d.rows = 1..n
  BY DEF FileSound, TreeSound, RowsShaped
<1>2. b.prev \in Known(c) /\ b \notin Known(c) /\ GenesisBlock \in Known(c)
  BY <1>1, AddEffects DEF EntriesTyped
<1>3. AddOutcome(R, b) = "accepted" /\ NewEntry(c, b) = NewEntry(R, b)
  <2>1. b \notin Known(R)
    BY <1>1
  <2> HIDE DEF R
  <2> QED
    BY <1>2, <2>1, VerdictWithin DEF R
<1>4. Replay(e, FALSE) = ReplayRow(Replay(d, FALSE), row, FALSE)
  <2> DEFINE no == FALSE
  <2> HIDE DEF no, row
  <2>1. Replay(e, no) = ReplayRow(Replay(d, no), row, no)
    BY <1>1, ReplayAppend DEF row
  <2> QED
    BY <2>1 DEF no
<1>5. row.block = b /\ row.record = Record(AddBlock(c, b), b)
  BY DEF Row
<1>6. Replay(e, FALSE).ok /\ Tree(e) = AddBlock(R, b)
  <2>1. Replay(d, FALSE).ok /\ Replay(d, FALSE).chain = R /\ b # GenesisBlock
    BY <1>2 DEF FileSound, Tree
  <2> HIDE DEF R, row
  <2>2. ReplayRow(Replay(d, FALSE), row, FALSE) = [ok |-> TRUE, chain |-> AddBlock(R, b)]
    BY <1>3, <1>5, <2>1 DEF ReplayRow
  <2>3. Replay(e, FALSE) = [ok |-> TRUE, chain |-> AddBlock(R, b)]
    BY <1>4, <2>2, Zenon
  <2>4. Replay(e, FALSE).ok /\ Replay(e, FALSE).chain = AddBlock(R, b)
    BY <2>3, OutcomeFields
  <2> QED
    BY <2>4 DEF Tree
<1>7. /\ Len(e.rows) = n + 1 /\ e.rows[n + 1] = row /\ DOMAIN e.rows = 1..(n + 1)
      /\ \A k \in 1..n : e.rows[k] = d.rows[k]
  <2> DEFINE S == Range(d.rows) \cup {row}
  <2>1. d.rows \in Seq(S) /\ row \in S
    BY <1>1 DEF Range
  <2> HIDE DEF S, row
  <2>2. /\ Append(d.rows, row) \in Seq(S) /\ Len(Append(d.rows, row)) = n + 1
        /\ Append(d.rows, row)[n + 1] = row
        /\ \A k \in 1..n : Append(d.rows, row)[k] = d.rows[k]
    BY <2>1, AppendFacts
  <2> QED
    BY <2>2 DEF row
<1> HIDE DEF R, row
<1>8. TreeSound(AddBlock(R, b)) /\ Executed(AddBlock(R, b)) /\ Within(R, AddBlock(R, b))
  BY <1>1, <1>3, AddKeepsSound, ExecutedGrows, AddIsWithin
<1>9. Known(AddBlock(R, b)) = Known(R) \cup {b} /\ AddBlock(R, b).entries[b] = NewEntry(R, b)
  BY <1>1, <1>3, AddEffects
<1>10. Within(AddBlock(c, b), AddBlock(R, b))
  <2>1. /\ Known(AddBlock(c, b)) = Known(c) \cup {b}
        /\ AddBlock(c, b).entries[b] = NewEntry(c, b)
        /\ \A k \in Known(c) : AddBlock(c, b).entries[k] = c.entries[k]
    BY <1>1, AddEffects
  <2>2. \A k \in Known(R) : AddBlock(R, b).entries[k] = R.entries[k]
    BY <1>8 DEF Within
  <2>3. Known(c) \subseteq Known(R) /\ \A k \in Known(c) : c.entries[k] = R.entries[k]
    BY DEF Within, R
  <2> QED
    BY <1>3, <1>9, <2>1, <2>2, <2>3 DEF Within
<1>11. StoredBlocks(e) = StoredBlocks(d) \cup {b}
  <2>1. \A k \in 1..(n + 1) : k \in 1..n \/ k = n + 1
    BY <1>1
  <2>2. n + 1 \in 1..(n + 1) /\ \A k \in 1..n : k \in 1..(n + 1)
    BY <1>1
  <2> HIDE DEF n
  <2> QED
    BY <1>1, <1>5, <1>7, <2>1, <2>2 DEF StoredBlocks
<1>12. StoredOnce(e)
  <2> SUFFICES ASSUME NEW i \in 1..(n + 1), NEW j \in 1..(n + 1),
                      e.rows[i].block = e.rows[j].block
               PROVE  i = j
    BY <1>7 DEF StoredOnce
  <2>1. \A k \in 1..(n + 1) : k \in 1..n \/ k = n + 1
    BY <1>1
  <2>2. \A k \in 1..n : d.rows[k].block \in StoredBlocks(d)
    BY <1>1 DEF StoredBlocks
  <2>3. \A k, l \in 1..n : d.rows[k].block = d.rows[l].block => k = l
    BY DEF FileSound, StoredOnce
  <2> HIDE DEF n
  <2> QED
    BY <1>5, <1>7, <2>1, <2>2, <2>3
<1>13. RecordsMatch(d) => RecordsMatch(e)
  <2> SUFFICES ASSUME RecordsMatch(d), NEW k \in 1..(n + 1)
               PROVE  e.rows[k].record = Record(AddBlock(R, b), e.rows[k].block)
    BY <1>6, <1>7 DEF RecordsMatch
  <2>1. CASE k = n + 1
    <3>1. b \in Known(AddBlock(c, b))
      BY <1>1, AddEffects
    <3>2. Record(AddBlock(c, b), b) = Record(AddBlock(R, b), b)
      BY <1>10, <3>1 DEF Within, Record
    <3> QED
      BY <1>5, <1>7, <2>1, <3>2
  <2>2. CASE k # n + 1
    <3>1. k \in 1..n
      BY <1>1, <2>2
    <3> DEFINE g == d.rows[k].block
    <3>2. e.rows[k] = d.rows[k] /\ d.rows[k].record = Record(R, g) /\ g \in Known(R)
      BY <1>1, <1>7, <3>1 DEF RecordsMatch, R, StoredBlocks
    <3> HIDE DEF g
    <3>3. Record(R, g) = Record(AddBlock(R, b), g)
      BY <1>8, <3>2 DEF Within, Record
    <3> QED
      BY <3>2, <3>3 DEF g
  <2> QED
    BY <2>1, <2>2
<1> QED
  BY <1>1, <1>3, <1>6, <1>8, <1>9, <1>10, <1>11, <1>12, <1>13 DEF FileSound, R

(* The derived tables that persist_chain_update leaves are those of the new
   tree when the stored tip is the one the update was computed from. *)
LEMMA DerivedKept ==
  ASSUME NEW c, TreeSound(c), NEW R, TreeSound(R), Within(c, R), R.tip = c.tip,
         NEW b, AddOutcome(c, b) = "accepted", AddOutcome(R, b) = "accepted",
         Within(AddBlock(c, b), AddBlock(R, b))
  PROVE  Derived(AddBlock(R, b)) =
           IF AddBlock(c, b).tip = b THEN Derived(AddBlock(c, b)) ELSE Derived(R)
<1> DEFINE C == AddBlock(c, b)
           D == AddBlock(R, b)
<1>1. /\ TreeSound(C) /\ TreeSound(D) /\ Within(R, D) /\ EntriesTyped(c) /\ EntriesTyped(R)
      /\ EntriesTyped(C)
  BY AddKeepsSound, AddIsWithin DEF TreeSound
<1>2. /\ b \in Known(C) /\ b \notin Known(c)
      /\ C.tip = IF C.entries[b].work > c.entries[c.tip].work THEN b ELSE c.tip
  BY <1>1, AddEffects
<1>3. D.tip = IF D.entries[b].work > R.entries[R.tip].work THEN b ELSE R.tip
  BY <1>1, AddEffects
<1>4. c.tip \in Known(c)
  BY <1>1 DEF EntriesTyped
<1> HIDE DEF C, D
<1>5. D.entries[b] = C.entries[b] /\ R.entries[c.tip] = c.entries[c.tip]
  BY <1>2, <1>4 DEF Within, C, D
<1>6. D.tip = C.tip
  BY <1>2, <1>3, <1>5
<1>7. CASE C.tip = b
  BY <1>1, <1>6, <1>7, DerivedWithin DEF C, D
<1>8. CASE C.tip # b
  <2>1. R.tip = D.tip
    BY <1>2, <1>6, <1>8
  <2>2. Derived(R) = Derived(D)
    BY <1>1, <2>1, DerivedWithin
  <2> QED
    BY <1>8, <2>2 DEF C, D
<1> QED
  BY <1>7, <1>8

LEMMA NewDatabaseSound ==
  /\ FileSound(NewDatabase) /\ Intact(NewDatabase)
  /\ StoredBlocks(NewDatabase) = {GenesisBlock}
  /\ Tree(NewDatabase) = EmptyChain
<1> DEFINE d == NewDatabase
           row == Row(EmptyChain, GenesisBlock)
           no == FALSE
<1>1. /\ d = [rows |-> d.rows, derived |-> d.derived] /\ d.rows = <<row>>
      /\ d.derived = Derived(EmptyChain)
  BY DEF NewDatabase
<1>2. row = [block |-> row.block, record |-> row.record] /\ row.block = GenesisBlock
      /\ row.record = Record(EmptyChain, GenesisBlock)
  BY DEF Row
<1> HIDE DEF d, row, no
<1>3. /\ d.rows \in Seq({row}) /\ Len(d.rows) = 1 /\ d.rows # <<>> /\ DOMAIN d.rows = 1..1
      /\ d.rows[1] = row /\ Range(d.rows) = {row}
  BY <1>1 DEF Range
<1>4. RowsShaped(d) /\ StoredOnce(d)
  BY <1>1, <1>2, <1>3 DEF RowsShaped, StoredOnce
<1>5. StoredBlocks(d) = {GenesisBlock}
  BY <1>2, <1>3 DEF StoredBlocks
<1>6. PICK f : IsReplay(f, d, no) /\ Replay(d, no) = f[1]
  BY <1>3, ReplaySteps
<1>7. f[1] = ReplayRow(f[0], row, no) /\ f[0] = [ok |-> TRUE, chain |-> EmptyChain]
  <2>1. 1 \in 1..Len(d.rows) /\ 1 - 1 = 0
    BY <1>3
  <2>2. Fresh(d) = [ok |-> TRUE, chain |-> EmptyChain]
    BY <1>3 DEF Fresh
  <2> QED
    BY <1>3, <1>6, <2>1, <2>2 DEF IsReplay
<1>8. f[1] = [ok |-> TRUE, chain |-> EmptyChain]
  BY <1>2, <1>7 DEF ReplayRow, no
<1>9. Replay(d, FALSE).ok /\ Tree(d) = EmptyChain
  <2>1. Replay(d, FALSE) = [ok |-> TRUE, chain |-> EmptyChain]
    BY <1>6, <1>8, Zenon DEF no
  <2>2. Replay(d, FALSE).ok /\ Replay(d, FALSE).chain = EmptyChain
    BY <2>1, OutcomeFields
  <2> QED
    BY <2>2 DEF Tree
<1>10. TreeSound(EmptyChain) /\ Known(EmptyChain) = {GenesisBlock}
  BY EmptyChainSound
<1>11. FileSound(d)
  BY <1>4, <1>5, <1>9, <1>10 DEF FileSound, Executed
<1>12. Intact(d)
  BY <1>1, <1>2, <1>3, <1>9 DEF Intact, RecordsMatch
<1> QED
  BY <1>5, <1>9, <1>11, <1>12 DEF d
-----------------------------------------------------------------------------
(***************************************************************************)
(* The inductive invariant.  The file is missing or sound, and intact as   *)
(* long as nothing spoiled it.  A process that has loaded the file holds a *)
(* part of the tree the file replays to, an update about to be persisted   *)
(* is one its tree accepts, and a reindexer either replayed every stored   *)
(* block or is going to notice that it did not.                            *)
(***************************************************************************)
Steps == {"down", "initialize", "replay", "compare", "ready", "persist", "publish",
          "rebuild", "rewrite", "done", "corrupt"}

ProcessSound(d, at, m, x) ==
  /\ at \notin {"down", "initialize"} => FileSound(d)
  /\ at \in {"compare", "ready", "persist", "publish"} => TreeSound(m) /\ Within(m, Tree(d))
  /\ at = "rewrite" => /\ Known(m) \subseteq StoredBlocks(d)
                       /\ StoredBlocks(d) \subseteq Known(m) => m = Tree(d)
  /\ at \in {"persist", "publish"} =>
       \E b \in Blocks :
         /\ AddOutcome(m, b) = "accepted"
         /\ x = [chain |-> AddBlock(m, b), update |-> UpdateFor(m, b)]
         /\ at = "publish" => b \in StoredBlocks(d) /\ Within(AddBlock(m, b), Tree(d))
  /\ at \notin {"persist", "publish"} => x = Idle

IInv ==
  /\ db = NoDatabase \/ FileSound(db)
  /\ StoredBlocks(db) \subseteq Blocks \cup {GenesisBlock}
  /\ damages \in 0..Damages /\ (HasSchema /\ damages = 0 => Intact(db))
  /\ pc \in [Procs -> Steps]
  /\ mem = [p \in Procs |-> mem[p]] /\ pending = [p \in Procs |-> pending[p]]
  /\ \A p \in Procs : ProcessSound(db, pc[p], mem[p], pending[p])

LEMMA SchemaIsSound == IInv => (HasSchema <=> FileSound(db))
<1>1. NoDatabase.rows = <<>>
  BY DEF NoDatabase
<1>2. FileSound(db) => db.rows # <<>>
  BY DEF FileSound, RowsShaped
<1> QED
  BY <1>1, <1>2 DEF IInv, HasSchema

(* What a commit may do to the file under the processes that have it open. *)
FileGrows(d, e) ==
  \/ e = d
  \/ /\ FileSound(e)
     /\ FileSound(d) => /\ Within(Tree(d), Tree(e))
                        /\ StoredBlocks(d) \subseteq StoredBlocks(e)
                        /\ StoredBlocks(e) \subseteq StoredBlocks(d) => Tree(e) = Tree(d)

LEMMA ProcessKept ==
  ASSUME NEW d, NEW e, FileGrows(d, e), NEW at, NEW m, NEW x, ProcessSound(d, at, m, x)
  PROVE  ProcessSound(e, at, m, x)
<1>1. CASE e = d
  BY <1>1
<1>2. CASE e # d /\ FileSound(d)
  <2>1. /\ FileSound(e) /\ Within(Tree(d), Tree(e))
        /\ StoredBlocks(d) \subseteq StoredBlocks(e)
        /\ StoredBlocks(e) \subseteq StoredBlocks(d) => Tree(e) = Tree(d)
    BY <1>2 DEF FileGrows
  <2>2. \A c : Within(c, Tree(d)) => Within(c, Tree(e))
    BY <2>1 DEF Within
  <2>3. at \in {"compare", "ready", "persist", "publish"} => TreeSound(m) /\ Within(m, Tree(e))
    BY <2>2 DEF ProcessSound
  <2>4. at = "rewrite" => /\ Known(m) \subseteq StoredBlocks(e)
                          /\ StoredBlocks(e) \subseteq Known(m) => m = Tree(e)
    BY <2>1 DEF ProcessSound
  <2>5. at \in {"persist", "publish"} =>
          \E b \in Blocks :
            /\ AddOutcome(m, b) = "accepted"
            /\ x = [chain |-> AddBlock(m, b), update |-> UpdateFor(m, b)]
            /\ at = "publish" => b \in StoredBlocks(e) /\ Within(AddBlock(m, b), Tree(e))
    <3> SUFFICES ASSUME at \in {"persist", "publish"}
                 PROVE  \E b \in Blocks :
                          /\ AddOutcome(m, b) = "accepted"
                          /\ x = [chain |-> AddBlock(m, b), update |-> UpdateFor(m, b)]
                          /\ at = "publish" =>
                               b \in StoredBlocks(e) /\ Within(AddBlock(m, b), Tree(e))
      OBVIOUS
    <3>1. PICK b \in Blocks :
            /\ AddOutcome(m, b) = "accepted"
            /\ x = [chain |-> AddBlock(m, b), update |-> UpdateFor(m, b)]
            /\ at = "publish" => b \in StoredBlocks(d) /\ Within(AddBlock(m, b), Tree(d))
      BY DEF ProcessSound
    <3>2. at = "publish" => b \in StoredBlocks(e) /\ Within(AddBlock(m, b), Tree(e))
      BY <2>1, <2>2, <3>1
    <3> QED
      BY <3>1, <3>2
  <2> QED
    BY <2>1, <2>3, <2>4, <2>5 DEF ProcessSound
<1>3. CASE e # d /\ ~FileSound(d)
  <2>1. at \in {"down", "initialize"} /\ x = Idle
    BY <1>3 DEF ProcessSound
  <2> QED
    BY <2>1 DEF ProcessSound
<1> QED
  BY <1>1, <1>2, <1>3

(* A step that leaves the file sound and intact, and every process either
   alone or sound, keeps the invariant. *)
FileStep ==
  /\ FileGrows(db, db')
  /\ StoredBlocks(db') \subseteq Blocks \cup {GenesisBlock}
  /\ damages' \in 0..Damages /\ (HasSchema' /\ damages' = 0 => Intact(db'))

LEMMA StepKeeps ==
  ASSUME IInv, FileStep, pc' \in [Procs -> Steps],
         mem' = [p \in Procs |-> mem'[p]], pending' = [p \in Procs |-> pending'[p]],
         \A p \in Procs :
           \/ pc'[p] = pc[p] /\ mem'[p] = mem[p] /\ pending'[p] = pending[p]
           \/ ProcessSound(db', pc'[p], mem'[p], pending'[p])
  PROVE  IInv'
<1>1. \A p \in Procs : ProcessSound(db', pc'[p], mem'[p], pending'[p])
  BY ProcessKept DEF IInv, FileStep
<1>2. db' = NoDatabase \/ FileSound(db')
  BY DEF IInv, FileStep, FileGrows
<1> QED
  BY <1>1, <1>2 DEF IInv, FileStep

(* The steps of one process. *)
LEMMA ProcessStep ==
  ASSUME IInv, FileStep, NEW p \in Procs, NEW at \in Steps, NEW m, NEW x,
         pc' = [pc EXCEPT ![p] = at],
         mem' = [mem EXCEPT ![p] = m], pending' = [pending EXCEPT ![p] = x],
         ProcessSound(db', at, m, x)
  PROVE  IInv'
<1>1. pc \in [Procs -> Steps] /\ DOMAIN mem = Procs /\ DOMAIN pending = Procs
  BY DEF IInv
<1>2. pc' \in [Procs -> Steps]
  BY <1>1
<1>3. mem' = [q \in Procs |-> mem'[q]] /\ pending' = [q \in Procs |-> pending'[q]]
  BY <1>1
<1>4. pc'[p] = at /\ mem'[p] = m /\ pending'[p] = x
  BY <1>1
<1>5. \A q \in Procs : q # p => pc'[q] = pc[q] /\ mem'[q] = mem[q] /\ pending'[q] = pending[q]
  BY <1>1
<1> QED
  BY <1>2, <1>3, <1>4, <1>5, StepKeeps

LEMMA SameFile == ASSUME IInv, UNCHANGED <<db, damages>> PROVE FileStep
BY DEF IInv, FileStep, FileGrows, HasSchema

LEMMA Unchanged1 ==
  ASSUME IInv, NEW p \in Procs
  PROVE  mem = [mem EXCEPT ![p] = mem[p]] /\ pending = [pending EXCEPT ![p] = pending[p]]
BY DEF IInv

LEMMA InitIInv == Init => IInv
<1> SUFFICES ASSUME Init PROVE IInv
  OBVIOUS
<1>1. db.rows = <<>>
  BY DEF Init, NoDatabase
<1>2. StoredBlocks(db) = {}
  BY <1>1 DEF StoredBlocks
<1>3. ~HasSchema
  BY <1>1 DEF HasSchema
<1>4. damages \in 0..Damages
  BY StorageAssumption DEF Init, StorageAssumption
<1> QED
  BY <1>2, <1>3, <1>4 DEF Init, IInv, Steps, ProcessSound

(***************************************************************************)
(* The steps that leave the file alone.                                    *)
(***************************************************************************)
LEMMA QuietSteps ==
  ASSUME IInv, NEW p \in Procs,
         \/ OpenMissing(p) \/ OpenExisting(p) \/ LoadReplay(p) \/ LoadCompare(p)
         \/ PersistFails(p) \/ Publish(p) \/ ReindexReplay(p) \/ ReindexFails(p) \/ Stop(p)
         \/ \E b \in Blocks : Validate(p, b)
  PROVE  IInv'
<1>0. /\ ProcessSound(db, pc[p], mem[p], pending[p]) /\ (HasSchema <=> FileSound(db))
      /\ mem = [mem EXCEPT ![p] = mem[p]] /\ pending = [pending EXCEPT ![p] = pending[p]]
  BY SchemaIsSound, Unchanged1 DEF IInv
<1>1. CASE OpenMissing(p)
  <2>1. pending[p] = Idle
    BY <1>0, <1>1 DEF OpenMissing, ProcessSound
  <2>2. ProcessSound(db, "initialize", mem[p], pending[p])
    BY <2>1 DEF ProcessSound
  <2>3. FileStep /\ db' = db
    BY <1>1, SameFile DEF OpenMissing
  <2>4. /\ pc' = [pc EXCEPT ![p] = "initialize"] /\ mem' = mem /\ pending' = pending
        /\ "initialize" \in Steps
    BY <1>1 DEF OpenMissing, Goto, Steps
  <2> QED
    BY <1>0, <2>2, <2>3, <2>4, ProcessStep
<1>2. CASE OpenExisting(p)
  <2> DEFINE at == IF p \in Reindexers THEN "rebuild" ELSE "replay"
  <2>1. pending[p] = Idle /\ FileSound(db)
    BY <1>0, <1>2 DEF OpenExisting, ProcessSound
  <2>2. ProcessSound(db, at, mem[p], pending[p]) /\ at \in Steps
    BY <2>1 DEF ProcessSound, Steps
  <2>3. FileStep /\ db' = db
    BY <1>2, SameFile DEF OpenExisting
  <2>4. pc' = [pc EXCEPT ![p] = at] /\ mem' = mem /\ pending' = pending
    BY <1>2 DEF OpenExisting, Goto
  <2> HIDE DEF at
  <2> QED
    BY <1>0, <2>2, <2>3, <2>4, ProcessStep
<1>3. CASE LoadReplay(p)
  <2> DEFINE run == Replay(db, TRUE)
             at == IF run.ok THEN "compare" ELSE "corrupt"
  <2>1. pending[p] = Idle /\ FileSound(db)
    BY <1>0, <1>3 DEF LoadReplay, ProcessSound
  <2>2. run.ok => run.chain = Tree(db) /\ TreeSound(run.chain)
    BY <2>1, CheckedReplay DEF FileSound, RowsShaped, Tree
  <2>3. FileStep /\ db' = db
    BY <1>3, SameFile DEF LoadReplay
  <2>4. /\ pc' = [pc EXCEPT ![p] = at] /\ mem' = [mem EXCEPT ![p] = run.chain]
        /\ pending' = pending
    BY <1>3 DEF LoadReplay, Goto
  <2> HIDE DEF run
  <2>5. ProcessSound(db, at, run.chain, pending[p]) /\ at \in Steps
    BY <2>1, <2>2 DEF ProcessSound, Steps, Within
  <2> HIDE DEF at
  <2> QED
    BY <1>0, <2>3, <2>4, <2>5, ProcessStep
<1>4. CASE LoadCompare(p)
  <2> DEFINE at == IF db.derived # Derived(mem[p]) THEN "corrupt"
                   ELSE IF p \in Nodes THEN "ready" ELSE "done"
  <2>1. /\ pending[p] = Idle /\ FileSound(db)
        /\ TreeSound(mem[p]) /\ Within(mem[p], Tree(db))
    BY <1>0, <1>4 DEF LoadCompare, ProcessSound
  <2>2. at \in {"corrupt", "ready", "done"}
    OBVIOUS
  <2>3. FileStep /\ db' = db
    BY <1>4, SameFile DEF LoadCompare
  <2>4. pc' = [pc EXCEPT ![p] = at] /\ mem' = mem /\ pending' = pending
    BY <1>4 DEF LoadCompare, Goto
  <2> HIDE DEF at
  <2>5. ProcessSound(db, at, mem[p], pending[p]) /\ at \in Steps
    BY <2>1, <2>2 DEF ProcessSound, Steps
  <2> QED
    BY <1>0, <2>3, <2>4, <2>5, ProcessStep
<1>5. CASE PersistFails(p)
  <2>1. FileSound(db) /\ TreeSound(mem[p]) /\ Within(mem[p], Tree(db))
    BY <1>0, <1>5 DEF PersistFails, ProcessSound
  <2>2. ProcessSound(db, "ready", mem[p], Idle) /\ "ready" \in Steps
    BY <2>1 DEF ProcessSound, Steps
  <2>3. FileStep /\ db' = db
    BY <1>5, SameFile DEF PersistFails
  <2>4. /\ pc' = [pc EXCEPT ![p] = "ready"] /\ mem' = mem
        /\ pending' = [pending EXCEPT ![p] = Idle]
    BY <1>5 DEF PersistFails, Goto, AfterRollback
  <2> QED
    BY <1>0, <2>2, <2>3, <2>4, ProcessStep
<1>6. CASE Publish(p)
  <2>1. /\ FileSound(db) /\ TreeSound(mem[p])
        /\ \E b \in Blocks : /\ AddOutcome(mem[p], b) = "accepted"
                             /\ pending[p].chain = AddBlock(mem[p], b)
                             /\ Within(AddBlock(mem[p], b), Tree(db))
    <3>1. pc[p] = "publish"
      BY <1>6 DEF Publish
    <3>2. PICK b \in Blocks :
            /\ AddOutcome(mem[p], b) = "accepted"
            /\ pending[p] = [chain |-> AddBlock(mem[p], b), update |-> UpdateFor(mem[p], b)]
            /\ Within(AddBlock(mem[p], b), Tree(db))
      BY <1>0, <3>1 DEF ProcessSound
    <3>3. pending[p].chain = AddBlock(mem[p], b)
      BY <3>2
    <3> QED
      BY <1>0, <3>1, <3>2, <3>3 DEF ProcessSound
  <2>2. TreeSound(pending[p].chain) /\ Within(pending[p].chain, Tree(db))
    BY <2>1, AddKeepsSound
  <2>3. ProcessSound(db, "ready", pending[p].chain, Idle) /\ "ready" \in Steps
    BY <2>1, <2>2 DEF ProcessSound, Steps
  <2>4. FileStep /\ db' = db
    BY <1>6, SameFile DEF Publish
  <2>5. /\ pc' = [pc EXCEPT ![p] = "ready"] /\ mem' = [mem EXCEPT ![p] = pending[p].chain]
        /\ pending' = [pending EXCEPT ![p] = Idle]
    BY <1>6 DEF Publish, Goto
  <2> QED
    BY <2>3, <2>4, <2>5, ProcessStep
<1>7. CASE ReindexReplay(p)
  <2> DEFINE at == IF Replay(db, FALSE).ok THEN "rewrite" ELSE "corrupt"
  <2>1. pending[p] = Idle /\ FileSound(db)
    BY <1>0, <1>7 DEF ReindexReplay, ProcessSound
  <2>2. at = "rewrite" /\ Known(Tree(db)) = StoredBlocks(db)
    BY <2>1 DEF FileSound
  <2>3. FileStep /\ db' = db
    BY <1>7, SameFile DEF ReindexReplay
  <2>4. /\ pc' = [pc EXCEPT ![p] = "rewrite"] /\ mem' = [mem EXCEPT ![p] = Tree(db)]
        /\ pending' = pending
    BY <1>7, <2>2 DEF ReindexReplay, Goto, Tree
  <2>5. ProcessSound(db, "rewrite", Tree(db), pending[p]) /\ "rewrite" \in Steps
    BY <2>1, <2>2 DEF ProcessSound, Steps
  <2> QED
    BY <1>0, <2>3, <2>4, <2>5, ProcessStep
<1>8. CASE ReindexFails(p) \/ Stop(p)
  <2>1. ProcessSound(db, "down", EmptyChain, Idle) /\ "down" \in Steps
    BY DEF ProcessSound, Steps
  <2>2. FileStep /\ db' = db
    BY <1>8, SameFile DEF ReindexFails, Stop
  <2>3. /\ pc' = [pc EXCEPT ![p] = "down"] /\ mem' = [mem EXCEPT ![p] = EmptyChain]
        /\ pending' = [pending EXCEPT ![p] = Idle]
    BY <1>8 DEF ReindexFails, Stop, Goto, Forget
  <2> QED
    BY <2>1, <2>2, <2>3, ProcessStep
<1>9. ASSUME NEW b \in Blocks, Validate(p, b) PROVE IInv'
  <2> DEFINE x == [chain |-> AddBlock(mem[p], b), update |-> UpdateFor(mem[p], b)]
  <2>1. /\ FileSound(db) /\ TreeSound(mem[p]) /\ Within(mem[p], Tree(db))
        /\ AddOutcome(mem[p], b) = "accepted"
    BY <1>0, <1>9 DEF Validate, ProcessSound
  <2>2. ProcessSound(db, "persist", mem[p], x) /\ "persist" \in Steps
    BY <2>1 DEF ProcessSound, Steps
  <2>3. FileStep /\ db' = db
    BY <1>9, SameFile DEF Validate
  <2>4. /\ pc' = [pc EXCEPT ![p] = "persist"] /\ mem' = mem
        /\ pending' = [pending EXCEPT ![p] = x]
    BY <1>9 DEF Validate, Goto
  <2> HIDE DEF x
  <2> QED
    BY <1>0, <2>2, <2>3, <2>4, ProcessStep
<1> QED
  BY <1>1, <1>2, <1>3, <1>4, <1>5, <1>6, <1>7, <1>8, <1>9
(***************************************************************************)
(* The steps that write the file.                                          *)
(***************************************************************************)
LEMMA CreateStep == ASSUME IInv, NEW p \in Procs, Initialize(p) PROVE IInv'
<1>0. /\ ProcessSound(db, pc[p], mem[p], pending[p])
      /\ mem = [mem EXCEPT ![p] = mem[p]] /\ pending = [pending EXCEPT ![p] = pending[p]]
  BY Unchanged1 DEF IInv
<1>1. pending[p] = Idle /\ mem' = mem /\ pending' = pending /\ damages' = damages
  BY <1>0 DEF Initialize, ProcessSound
<1>2. CASE HasSchema
  <2>1. ProcessSound(db, "down", mem[p], pending[p]) /\ "down" \in Steps
    BY <1>1 DEF ProcessSound, Steps
  <2>2. pc' = [pc EXCEPT ![p] = "down"] /\ db' = db
    BY <1>2 DEF Initialize, Goto
  <2>3. FileStep
    BY <1>1, <2>2, SameFile
  <2> QED
    BY <1>0, <1>1, <2>1, <2>2, <2>3, ProcessStep
<1>3. CASE ~HasSchema
  <2>1. pc' = [pc EXCEPT ![p] = "replay"] /\ db' = NewDatabase
    BY <1>3 DEF Initialize, Goto
  <2>2. ~FileSound(db)
    BY <1>3, SchemaIsSound
  <2>3. FileGrows(db, db')
    BY <2>1, <2>2, NewDatabaseSound DEF FileGrows
  <2>4. FileStep
    BY <1>1, <2>1, <2>3, NewDatabaseSound DEF FileStep, IInv
  <2>5. ProcessSound(db', "replay", mem[p], pending[p]) /\ "replay" \in Steps
    BY <1>1, <2>1, NewDatabaseSound DEF ProcessSound, Steps
  <2> QED
    BY <1>0, <1>1, <2>1, <2>4, <2>5, ProcessStep
<1> QED
  BY <1>2, <1>3

LEMMA AppendShaped ==
  ASSUME NEW d, RowsShaped(d), NEW row, row = [block |-> row.block, record |-> row.record],
         NEW x, NEW e, e = [rows |-> Append(d.rows, row), derived |-> x]
  PROVE  RowsShaped(e) /\ e.rows = Append(d.rows, row) /\ e.derived = x
<1> DEFINE n == Len(d.rows)
           S == Range(d.rows) \cup {row}
<1>1. e.rows = Append(d.rows, row) /\ e.derived = x
  OBVIOUS
<1>2. /\ d.rows \in Seq(S) /\ row \in S /\ n \in Nat /\ d.rows \in Seq(Range(d.rows))
      /\ d.rows # <<>>
      /\ \A i \in 1..n : d.rows[i] = [block |-> d.rows[i].block, record |-> d.rows[i].record]
  BY DEF Range, RowsShaped
<1> HIDE DEF S
<1>3. e.rows \in Seq(Range(e.rows)) /\ e.rows # <<>>
  <2> DEFINE no == FALSE
  <2> HIDE DEF no
  <2> QED
    BY <1>1, <1>2, ReplayAppend
<1>4. /\ Len(e.rows) = n + 1 /\ e.rows[n + 1] = row
      /\ \A k \in 1..n : e.rows[k] = d.rows[k]
  BY <1>1, <1>2, AppendFacts
<1>5. \A i \in 1..(n + 1) : i \in 1..n \/ i = n + 1
  BY <1>2
<1>6. \A i \in 1..Len(e.rows) : e.rows[i] = [block |-> e.rows[i].block, record |-> e.rows[i].record]
  <2> HIDE DEF n
  <2> QED
    BY <1>2, <1>4, <1>5
<1> QED
  BY <1>1, <1>3, <1>6 DEF RowsShaped

(* What a node is about to persist. *)
LEMMA PendingBlock ==
  ASSUME IInv, NEW p \in Procs, pc[p] = "persist"
  PROVE  /\ FileSound(db) /\ TreeSound(mem[p]) /\ Within(mem[p], Tree(db))
         /\ \E b \in Blocks : /\ AddOutcome(mem[p], b) = "accepted"
                              /\ pending[p] = [chain  |-> AddBlock(mem[p], b),
                                               update |-> UpdateFor(mem[p], b)]
                              /\ pending[p].chain = AddBlock(mem[p], b)
                              /\ pending[p].update = UpdateFor(mem[p], b)
                              /\ pending[p].update.added = b
<1>1. ProcessSound(db, pc[p], mem[p], pending[p])
  BY DEF IInv
<1>2. FileSound(db) /\ TreeSound(mem[p]) /\ Within(mem[p], Tree(db))
  BY <1>1 DEF ProcessSound
<1>3. PICK b \in Blocks :
        /\ AddOutcome(mem[p], b) = "accepted"
        /\ pending[p] = [chain |-> AddBlock(mem[p], b), update |-> UpdateFor(mem[p], b)]
  BY <1>1 DEF ProcessSound
<1>4. pending[p].chain = AddBlock(mem[p], b) /\ pending[p].update = UpdateFor(mem[p], b)
  BY <1>3
<1>5. UpdateFor(mem[p], b).added = b
  BY <1>2, <1>3, PreviousTip
<1> QED
  BY <1>2, <1>3, <1>4, <1>5

(* What the transaction of persist_chain_update commits. *)
LEMMA PersistEffects ==
  ASSUME IInv, NEW p \in Procs, PersistNew(p)
  PROVE  \E b \in Blocks :
           /\ AddOutcome(mem[p], b) = "accepted"
           /\ pending[p] = [chain |-> AddBlock(mem[p], b), update |-> UpdateFor(mem[p], b)]
           /\ b \notin StoredBlocks(db) /\ b \in StoredBlocks(db')
           /\ StoredBlocks(db') = StoredBlocks(db) \cup {b}
           /\ FileSound(db) /\ FileSound(db')
           /\ AddOutcome(Tree(db), b) = "accepted" /\ Tree(db') = AddBlock(Tree(db), b)
           /\ Within(AddBlock(mem[p], b), Tree(db')) /\ Within(Tree(db), Tree(db'))
           /\ TreeSound(mem[p]) /\ Within(mem[p], Tree(db))
           /\ Intact(db) => Intact(db')
<1> DEFINE c == mem[p]
           R == Tree(db)
<1>1. pc[p] = "persist"
  BY DEF PersistNew
<1>2. PICK b \in Blocks :
        /\ AddOutcome(c, b) = "accepted"
        /\ pending[p] = [chain |-> AddBlock(c, b), update |-> UpdateFor(c, b)]
        /\ pending[p].chain = AddBlock(c, b) /\ pending[p].update = UpdateFor(c, b)
        /\ pending[p].update.added = b
  BY <1>1, PendingBlock
<1>3. FileSound(db) /\ TreeSound(c) /\ Within(c, R)
  BY <1>1, PendingBlock
<1> DEFINE u == UpdateFor(c, b)
           d == AddBlock(c, b)
           row == Row(d, b)
<1>4. /\ u.added = b /\ u.becameActive = (d.tip = b) /\ ExpectedPreviousTip(u) = c.tip
  BY <1>2, <1>3, PreviousTip
<1>5. /\ b \notin StoredBlocks(db) /\ db.derived.tip = c.tip
      /\ db' = [rows |-> Append(db.rows, row),
                derived |-> IF u.becameActive THEN Derived(d) ELSE db.derived]
  <2> HIDE DEF u, d
  <2> QED
    BY <1>2, <1>4 DEF PersistNew, IsNew, TipUnchanged, Persisted, row, u, d
<1>6. row = [block |-> row.block, record |-> row.record]
  BY DEF Row
<1> HIDE DEF row, u
<1>7. /\ RowsShaped(db') /\ db'.rows = Append(db.rows, row)
      /\ db'.derived = IF u.becameActive THEN Derived(d) ELSE db.derived
  <2>1. RowsShaped(db)
    BY <1>3 DEF FileSound
  <2> DEFINE y == IF u.becameActive THEN Derived(d) ELSE db.derived
  <2>2. db' = [rows |-> Append(db.rows, row), derived |-> y]
    BY <1>5
  <2> HIDE DEF y, d
  <2>3. RowsShaped(db') /\ db'.rows = Append(db.rows, row) /\ db'.derived = y
    BY <1>6, <2>1, <2>2, AppendShaped
  <2> QED
    BY <2>3 DEF y
<1>8. /\ FileSound(db') /\ StoredBlocks(db') = StoredBlocks(db) \cup {b}
      /\ AddOutcome(R, b) = "accepted" /\ Tree(db') = AddBlock(R, b)
      /\ Within(d, Tree(db')) /\ Within(R, Tree(db'))
      /\ RecordsMatch(db) => RecordsMatch(db')
  <2> HIDE DEF c
  <2>1. db'.rows = Append(db.rows, Row(AddBlock(c, b), b))
    BY <1>7 DEF row
  <2>2. /\ FileSound(db) /\ TreeSound(c) /\ Within(c, Tree(db)) /\ RowsShaped(db')
        /\ AddOutcome(c, b) = "accepted" /\ b \notin StoredBlocks(db)
    BY <1>2, <1>3, <1>5, <1>7
  <2>3. /\ FileSound(db') /\ StoredBlocks(db') = StoredBlocks(db) \cup {b}
        /\ AddOutcome(Tree(db), b) = "accepted" /\ Tree(db') = AddBlock(Tree(db), b)
        /\ Within(AddBlock(c, b), Tree(db')) /\ Within(Tree(db), Tree(db'))
        /\ RecordsMatch(db) => RecordsMatch(db')
    BY <2>1, <2>2, AppendSound
  <2> QED
    BY <2>3
<1>9. ASSUME Intact(db) PROVE Intact(db')
  <2>1. db.derived = Derived(R) /\ RecordsMatch(db)
    BY <1>9 DEF Intact
  <2>2. R.tip = c.tip
    BY <1>5, <2>1 DEF Derived
  <2>3. TreeSound(R) /\ Within(AddBlock(c, b), AddBlock(R, b))
    BY <1>3, <1>8 DEF FileSound
  <2> HIDE DEF c, R
  <2>4. Derived(AddBlock(R, b)) = IF AddBlock(c, b).tip = b THEN Derived(AddBlock(c, b)) ELSE Derived(R)
    BY <1>2, <1>3, <1>8, <2>2, <2>3, DerivedKept
  <2>5. db'.derived = Derived(Tree(db'))
    BY <1>4, <1>7, <1>8, <2>1, <2>4
  <2> QED
    BY <1>8, <2>1, <2>5 DEF Intact
<1> QED
  BY <1>2, <1>3, <1>5, <1>8, <1>9

LEMMA PersistNewStep == ASSUME IInv, NEW p \in Procs, PersistNew(p) PROVE IInv'
<1>1. PICK b \in Blocks :
           /\ AddOutcome(mem[p], b) = "accepted"
           /\ pending[p] = [chain |-> AddBlock(mem[p], b), update |-> UpdateFor(mem[p], b)]
           /\ b \notin StoredBlocks(db) /\ b \in StoredBlocks(db')
           /\ StoredBlocks(db') = StoredBlocks(db) \cup {b}
           /\ FileSound(db) /\ FileSound(db')
           /\ Within(AddBlock(mem[p], b), Tree(db')) /\ Within(Tree(db), Tree(db'))
           /\ TreeSound(mem[p]) /\ Within(mem[p], Tree(db))
           /\ Intact(db) => Intact(db')
  BY PersistEffects
<1>2. /\ pc' = [pc EXCEPT ![p] = "publish"] /\ mem' = mem /\ pending' = pending
      /\ damages' = damages
  BY DEF PersistNew, Goto
<1>3. FileStep
  <2>1. FileGrows(db, db')
    BY <1>1 DEF FileGrows
  <2>2. HasSchema
    BY <1>1, SchemaIsSound
  <2> QED
    BY <1>1, <1>2, <2>1, <2>2 DEF FileStep, IInv
<1>4. ProcessSound(db', "publish", mem[p], pending[p]) /\ "publish" \in Steps
  <2>1. Within(mem[p], Tree(db'))
    BY <1>1 DEF Within
  <2> QED
    BY <1>1, <2>1 DEF ProcessSound, Steps
<1>5. mem = [mem EXCEPT ![p] = mem[p]] /\ pending = [pending EXCEPT ![p] = pending[p]]
  BY Unchanged1
<1> QED
  BY <1>2, <1>3, <1>4, <1>5, ProcessStep

LEMMA PersistExistingStep == ASSUME IInv, NEW p \in Procs, PersistExisting(p) PROVE IInv'
<1> DEFINE c == mem[p]
           R == Tree(db)
<1>1. pc[p] = "persist"
  BY DEF PersistExisting
<1>2. PICK b \in Blocks :
        /\ AddOutcome(c, b) = "accepted"
        /\ pending[p] = [chain |-> AddBlock(c, b), update |-> UpdateFor(c, b)]
        /\ pending[p].chain = AddBlock(c, b) /\ pending[p].update = UpdateFor(c, b)
        /\ pending[p].update.added = b
  BY <1>1, PendingBlock
<1>3. FileSound(db) /\ TreeSound(c) /\ Within(c, R) /\ EntriesTyped(c)
  BY <1>1, PendingBlock DEF TreeSound
<1>4. b \in StoredBlocks(db)
  <2>1. Row(AddBlock(c, b), b) \in Range(db.rows)
    BY <1>2 DEF PersistExisting
  <2>2. PICK i \in DOMAIN db.rows : db.rows[i] = Row(AddBlock(c, b), b)
    BY <2>1 DEF Range
  <2>3. db.rows[i].block = b
    BY <2>2 DEF Row
  <2> QED
    BY <2>3 DEF StoredBlocks
<1>5. Within(AddBlock(c, b), R)
  <2> HIDE DEF c, R
  <2>1. /\ b.prev \in Known(c) /\ b # GenesisBlock
        /\ Known(AddBlock(c, b)) = Known(c) \cup {b}
        /\ AddBlock(c, b).entries[b] = NewEntry(c, b)
        /\ \A k \in Known(c) : AddBlock(c, b).entries[k] = c.entries[k]
    BY <1>2, <1>3, AddEffects DEF EntriesTyped
  <2>2. NewEntry(c, b) = NewEntry(R, b)
    BY <1>3, <2>1, EntryWithin
  <2>3. Executed(R) /\ Known(R) = StoredBlocks(db)
    BY <1>3 DEF FileSound, R
  <2>4. b \in Known(R) /\ R.entries[b] = NewEntry(R, b)
    BY <1>4, <2>1, <2>3 DEF Executed
  <2> QED
    BY <1>3, <2>1, <2>2, <2>4 DEF Within
<1>6. /\ pc' = [pc EXCEPT ![p] = "publish"] /\ mem' = mem /\ pending' = pending /\ db' = db
  BY DEF PersistExisting, Goto
<1>7. FileStep
  BY SameFile DEF PersistExisting
<1>8. ProcessSound(db', "publish", mem[p], pending[p]) /\ "publish" \in Steps
  BY <1>2, <1>3, <1>4, <1>5, <1>6 DEF ProcessSound, Steps
<1>9. mem = [mem EXCEPT ![p] = mem[p]] /\ pending = [pending EXCEPT ![p] = pending[p]]
  BY Unchanged1
<1> QED
  BY <1>6, <1>7, <1>8, <1>9, ProcessStep

(* What a committed reindex leaves: the same rows, intact. *)
LEMMA RewriteEffects ==
  ASSUME IInv, NEW p \in Procs, ReindexRewrite(p)
  PROVE  /\ FileSound(db) /\ FileSound(db') /\ Intact(db')
         /\ Tree(db') = Tree(db) /\ StoredBlocks(db') = StoredBlocks(db)
         /\ db'.derived = Derived(Tree(db)) /\ Len(db'.rows) = Len(db.rows)
         /\ \A i \in 1..Len(db.rows) : db'.rows[i] = Row(Tree(db), db.rows[i].block)
<1> DEFINE R == Tree(db)
           n == Len(db.rows)
<1>1. FileSound(db) /\ mem[p] = R
  <2>1. ProcessSound(db, pc[p], mem[p], pending[p])
    BY DEF IInv
  <2>2. StoredBlocks(db) \subseteq Known(mem[p]) /\ pc[p] = "rewrite"
    BY DEF ReindexRewrite, RowsReplayed
  <2> QED
    BY <2>1, <2>2 DEF ProcessSound
<1>2. /\ RowsShaped(db) /\ Known(R) = StoredBlocks(db)
      /\ DOMAIN db.rows = 1..n /\ n \in Nat /\ n > 0
  BY <1>1 DEF FileSound, RowsShaped
<1>3. \A i \in 1..n : db.rows[i].block \in Known(R)
  BY <1>2 DEF StoredBlocks
<1> DEFINE rows == [i \in 1..n |-> Row(R, db.rows[i].block)]
<1>4. db' = [rows |-> rows, derived |-> Derived(R)]
  <2>1. [i \in 1..n |-> IF db.rows[i].block \in Known(R)
                          THEN Row(R, db.rows[i].block) ELSE db.rows[i]] = rows
    BY <1>3
  <2>2. db' = [rows    |-> [i \in DOMAIN db.rows |->
                              IF db.rows[i].block \in Known(mem[p])
                                THEN Row(mem[p], db.rows[i].block) ELSE db.rows[i]],
               derived |-> Derived(mem[p])]
    BY DEF ReindexRewrite
  <2> HIDE DEF R, n, rows
  <2> QED
    BY <1>1, <1>2, <2>1, <2>2
<1>5. /\ db'.rows = rows /\ db'.derived = Derived(R)
      /\ db' = [rows |-> db'.rows, derived |-> db'.derived]
  BY <1>4
<1> HIDE DEF R
<1>6. /\ rows = [i \in 1..n |-> rows[i]]
      /\ \A i \in 1..n : /\ rows[i].block = db.rows[i].block
                         /\ rows[i].record = Record(R, db.rows[i].block)
                         /\ rows[i] = Row(R, db.rows[i].block)
                         /\ rows[i] = [block |-> rows[i].block, record |-> rows[i].record]
  BY DEF Row
<1> HIDE DEF rows, n
<1>7. rows \in Seq(Range(rows)) /\ Len(rows) = n /\ rows # <<>>
  <2>1. DOMAIN rows = 1..n /\ \A i \in 1..n : rows[i] \in Range(rows)
    BY <1>6 DEF Range
  <2>2. rows \in [1..n -> Range(rows)]
    BY <1>6, <2>1
  <2>3. rows \in Seq(Range(rows))
    BY <1>2, <2>2
  <2> QED
    BY <1>2, <2>1, <2>3
<1>8. RowsShaped(db')
  BY <1>5, <1>6, <1>7 DEF RowsShaped
<1>9. FileSound(db') /\ Tree(db') = R /\ StoredBlocks(db') = StoredBlocks(db)
  BY <1>1, <1>5, <1>6, <1>7, <1>8, SameBlocksSound DEF n, R
<1>10. Intact(db')
  BY <1>5, <1>6, <1>7, <1>9 DEF Intact, RecordsMatch
<1> QED
  BY <1>1, <1>5, <1>6, <1>7, <1>9, <1>10 DEF R, n

LEMMA RewriteStep == ASSUME IInv, NEW p \in Procs, ReindexRewrite(p) PROVE IInv'
<1>1. /\ FileSound(db) /\ FileSound(db') /\ Intact(db')
      /\ Tree(db') = Tree(db) /\ StoredBlocks(db') = StoredBlocks(db)
  BY RewriteEffects
<1>2. /\ pc' = [pc EXCEPT ![p] = "replay"] /\ mem' = mem /\ pending' = pending
      /\ damages' = damages
  BY DEF ReindexRewrite, Goto
<1>3. FileStep
  <2>1. FileGrows(db, db')
    BY <1>1 DEF FileGrows, Within
  <2> QED
    BY <1>1, <1>2, <2>1 DEF FileStep, IInv
<1>4. pending[p] = Idle
  BY DEF ReindexRewrite, IInv, ProcessSound
<1>5. ProcessSound(db', "replay", mem[p], pending[p]) /\ "replay" \in Steps
  BY <1>1, <1>4 DEF ProcessSound, Steps
<1>6. mem = [mem EXCEPT ![p] = mem[p]] /\ pending = [pending EXCEPT ![p] = pending[p]]
  BY Unchanged1
<1> QED
  BY <1>2, <1>3, <1>5, <1>6, ProcessStep

(* Whatever is spoiled, the blocks are not. *)
LEMMA DamageEffects ==
  ASSUME IInv, Damage
  PROVE  FileSound(db) /\ FileSound(db') /\ Tree(db') = Tree(db) /\ StoredBlocks(db') = StoredBlocks(db)
<1> DEFINE n == Len(db.rows)
<1>1. FileSound(db) /\ RowsShaped(db)
  BY SchemaIsSound DEF Damage, FileSound
<1>2. /\ db = [rows |-> db.rows, derived |-> db.derived] /\ DOMAIN db.rows = 1..n
      /\ db.rows \in Seq(Range(db.rows)) /\ db.rows # <<>> /\ n \in Nat
      /\ \A k \in 1..n : db.rows[k] = [block |-> db.rows[k].block, record |-> db.rows[k].record]
  BY <1>1 DEF RowsShaped
<1> HIDE DEF n
<1>3. ASSUME NEW x, db' = [db EXCEPT !.derived = x] PROVE RowsShaped(db') /\ db'.rows = db.rows
  <2>1. db' = [rows |-> db.rows, derived |-> x]
    BY <1>2, <1>3
  <2>2. db'.rows = db.rows /\ db' = [rows |-> db'.rows, derived |-> db'.derived]
    BY <2>1
  <2> QED
    BY <1>2, <2>2 DEF RowsShaped, n
<1>4. ASSUME NEW i \in DOMAIN db.rows, db' = [db EXCEPT !.rows[i].record.work = @ + 1]
      PROVE  /\ RowsShaped(db') /\ Len(db'.rows) = n
             /\ \A k \in 1..n : db'.rows[k].block = db.rows[k].block
  <2> DEFINE rec == [db.rows[i].record EXCEPT !.work = @ + 1]
             row == [block |-> db.rows[i].block, record |-> rec]
             rows == [db.rows EXCEPT ![i] = row]
  <2>1. db' = [rows |-> rows, derived |-> db.derived]
    <3> HIDE DEF rec
    <3>1. [db.rows[i] EXCEPT !.record = rec] = row
      <4> DEFINE r == db.rows[i]
      <4>1. r = [block |-> r.block, record |-> r.record]
        BY <1>2
      <4> HIDE DEF r
      <4>2. DOMAIN r = {"block", "record"}
        BY <4>1
      <4>3. [r EXCEPT !.record = rec] =
              [k \in {"block", "record"} |-> IF k = "record" THEN rec ELSE r[k]]
        BY <4>2
      <4>4. [block |-> r.block, record |-> rec] =
              [k \in {"block", "record"} |-> IF k = "record" THEN rec ELSE r[k]]
        OBVIOUS
      <4> QED
        BY <4>3, <4>4 DEF r
    <3>2. db' = [db EXCEPT !.rows = [db.rows EXCEPT ![i] = [db.rows[i] EXCEPT !.record = rec]]]
      BY <1>4 DEF rec
    <3> HIDE DEF row
    <3>3. db' = [db EXCEPT !.rows = rows]
      BY <3>1, <3>2
    <3> HIDE DEF rows
    <3> QED
      BY <1>2, <3>3
  <2> HIDE DEF rec
  <2>2. row.block = db.rows[i].block /\ row = [block |-> row.block, record |-> row.record]
    OBVIOUS
  <2> HIDE DEF row
  <2>3. /\ rows = [k \in 1..n |-> rows[k]]
        /\ \A k \in 1..n : rows[k] = IF k = i THEN row ELSE db.rows[k]
    BY <1>2
  <2> HIDE DEF rows
  <2>4. rows \in Seq(Range(rows)) /\ Len(rows) = n /\ rows # <<>>
    <3>1. DOMAIN rows = 1..n /\ \A k \in 1..n : rows[k] \in Range(rows)
      BY <2>3 DEF Range
    <3>2. rows \in [1..n -> Range(rows)]
      BY <2>3, <3>1
    <3>3. rows \in Seq(Range(rows)) /\ Len(rows) = n
      BY <1>2, <3>1, <3>2
    <3>4. n > 0
      BY <1>2 DEF n
    <3> QED
      BY <3>3, <3>4
  <2>5. /\ db'.rows = rows /\ db' = [rows |-> db'.rows, derived |-> db'.derived]
    BY <2>1
  <2>6. \A k \in 1..n : /\ rows[k].block = db.rows[k].block
                        /\ rows[k] = [block |-> rows[k].block, record |-> rows[k].record]
    BY <1>2, <2>2, <2>3
  <2> QED
    BY <2>4, <2>5, <2>6 DEF RowsShaped
<1>5. /\ RowsShaped(db') /\ Len(db'.rows) = n
      /\ \A k \in 1..n : db'.rows[k].block = db.rows[k].block
  <2>1. CASE db' = [db EXCEPT !.derived.accounts = EmptyState.accounts]
    <3>1. db' = [db EXCEPT !.derived = [db.derived EXCEPT !.accounts = EmptyState.accounts]]
      BY <2>1
    <3> QED
      BY <1>3, <3>1 DEF n
  <2>2. ASSUME NEW b \in StoredBlocks(db), db' = [db EXCEPT !.derived.tip = b]
        PROVE  /\ RowsShaped(db') /\ Len(db'.rows) = n
               /\ \A k \in 1..n : db'.rows[k].block = db.rows[k].block
    <3>1. db' = [db EXCEPT !.derived = [db.derived EXCEPT !.tip = b]]
      BY <2>2
    <3> QED
      BY <1>3, <3>1 DEF n
  <2> QED
    BY <1>4, <2>1, <2>2 DEF Damage
<1> QED
  BY <1>1, <1>5, SameBlocksSound DEF n

LEMMA DamageStep == ASSUME IInv, Damage PROVE IInv'
<1>1. /\ FileSound(db) /\ FileSound(db')
      /\ Tree(db') = Tree(db) /\ StoredBlocks(db') = StoredBlocks(db)
  BY DamageEffects
<1>2. /\ pc' = pc /\ mem' = mem /\ pending' = pending /\ damages' = damages + 1
      /\ damages < Damages
  BY DEF Damage
<1>3. FileStep
  <2>1. FileGrows(db, db')
    BY <1>1 DEF FileGrows, Within
  <2>2. damages' \in 0..Damages /\ damages' # 0
    BY <1>2, StorageAssumption DEF IInv, StorageAssumption
  <2> QED
    BY <1>1, <2>1, <2>2 DEF FileStep, IInv
<1>4. pc' \in [Procs -> Steps] /\ mem' = [p \in Procs |-> mem'[p]] /\ pending' = [p \in Procs |-> pending'[p]]
  BY <1>2 DEF IInv
<1> QED
  BY <1>2, <1>3, <1>4, StepKeeps

LEMMA NextIInv == IInv /\ [Next]_vars => IInv'
<1> SUFFICES ASSUME IInv, [Next]_vars PROVE IInv'
  OBVIOUS
<1>1. CASE UNCHANGED vars
  <2>1. FileStep
    BY <1>1, SameFile DEF vars
  <2>2. pc' \in [Procs -> Steps] /\ mem' = [p \in Procs |-> mem'[p]] /\ pending' = [p \in Procs |-> pending'[p]]
    BY <1>1 DEF IInv, vars
  <2> QED
    BY <1>1, <2>1, <2>2, StepKeeps DEF vars
<1>2. CASE Damage
  BY <1>2, DamageStep
<1>3. ASSUME NEW p \in Procs,
             \/ Initialize(p) \/ PersistNew(p) \/ PersistExisting(p) \/ ReindexRewrite(p)
      PROVE  IInv'
  BY <1>3, CreateStep, PersistNewStep, PersistExistingStep, RewriteStep
<1> QED
  BY <1>1, <1>2, <1>3, QuietSteps DEF Next

(* The inductive invariant holds in every reachable state of the file and its
   processes. *)
THEOREM StorageInvariance == Spec => []IInv
BY InitIInv, NextIInv, PTL DEF Spec
-----------------------------------------------------------------------------
(* The processes are at one of their steps and hold an update exactly while
   they persist or publish it, and every submitted block has one row: no
   sequence of transactions stores a block twice (PRIMARY KEY block_hash). *)
THEOREM StorageTypeOK == Spec => []TypeOK
<1>1. IInv => TypeOK
  <2> SUFFICES ASSUME IInv PROVE TypeOK
    OBVIOUS
  <2>1. ASSUME NEW p \in Procs
        PROVE  pc[p] \in Steps /\ ((pending[p] = Idle) <=> (pc[p] \notin {"persist", "publish"}))
    <3>1. ProcessSound(db, pc[p], mem[p], pending[p]) /\ pc[p] \in Steps
      BY DEF IInv
    <3>2. ASSUME pc[p] \in {"persist", "publish"} PROVE pending[p] # Idle
      <4>1. PICK b \in Blocks :
              /\ AddOutcome(mem[p], b) = "accepted"
              /\ pending[p] = [chain |-> AddBlock(mem[p], b), update |-> UpdateFor(mem[p], b)]
        BY <3>1, <3>2 DEF ProcessSound
      <4>2. EntriesTyped(mem[p])
        BY <3>1, <3>2 DEF ProcessSound, TreeSound
      <4>3. /\ b \notin Known(mem[p]) /\ GenesisBlock \in Known(mem[p])
            /\ b \in Known(AddBlock(mem[p], b))
        BY <4>1, <4>2, AddEffects DEF EntriesTyped
      <4>4. Known(EmptyChain) = {GenesisBlock}
        BY EmptyChainSound
      <4>5. AddBlock(mem[p], b) # EmptyChain
        BY <4>3, <4>4
      <4>6. pending[p].chain = AddBlock(mem[p], b) /\ Idle.chain = EmptyChain
        BY <4>1 DEF Idle
      <4> QED
        BY <4>5, <4>6
    <3>3. pc[p] \notin {"persist", "publish"} => pending[p] = Idle
      BY <3>1 DEF ProcessSound
    <3> QED
      BY <3>1, <3>2, <3>3
  <2>2. Cardinality(StoredBlocks(db)) = Len(db.rows)
    <3>1. CASE db = NoDatabase
      <4>1. db.rows = <<>>
        BY <3>1 DEF NoDatabase
      <4>2. StoredBlocks(db) = {} /\ Len(db.rows) = 0
        BY <4>1 DEF StoredBlocks
      <4> QED
        BY <4>2, FS_EmptySet
    <3>2. CASE FileSound(db)
      <4> DEFINE n == Len(db.rows)
                 at == [i \in 1..n |-> db.rows[i].block]
      <4>1. n \in Nat /\ DOMAIN db.rows = 1..n /\ StoredOnce(db)
        BY <3>2 DEF FileSound, RowsShaped
      <4>2. at \in Bijection(1..n, StoredBlocks(db))
        <5>1. \A i, j \in 1..n : at[i] = at[j] => i = j
          BY <4>1 DEF StoredOnce
        <5>2. /\ at \in [1..n -> StoredBlocks(db)]
              /\ \A b \in StoredBlocks(db) : \E i \in 1..n : at[i] = b
          BY <4>1 DEF StoredBlocks
        <5> HIDE DEF at, n
        <5> QED
          BY <5>1, <5>2 DEF Bijection, Injection, Surjection, IsInjective
      <4>3. ExistsBijection(1..n, StoredBlocks(db))
        BY <4>2 DEF ExistsBijection
      <4>4. IsFiniteSet(1..n) /\ Cardinality(1..n) = n
        <5> HIDE DEF n
        <5> QED
          BY <4>1, FS_Interval
      <4> QED
        BY <4>3, <4>4, FS_Bijection
    <3> QED
      BY <3>1, <3>2 DEF IInv
  <2> QED
    BY <2>1, <2>2 DEF TypeOK, IInv, Steps
<1> QED
  BY <1>1, StorageInvariance, PTL

(* Whatever the transactions committed and wherever processes were killed, an
   undamaged file passes every check of load_chain. *)
THEOREM StoredReplaysTheorem == Spec => []StoredReplays
<1>1. IInv => StoredReplays
  BY SchemaIsSound, IntactIsHealthy DEF IInv, StoredReplays
<1> QED
  BY <1>1, StorageInvariance, PTL

(* No crash loses a block that a node has shown: every block of its tree is
   stored and replays to the very same entry, whatever derived data was spoiled
   and however many processes write (submit_block persists, then publishes). *)
THEOREM VisibleIsStoredTheorem == Spec => []VisibleIsStored
<1>1. IInv => VisibleIsStored
  <2> SUFFICES ASSUME IInv, NEW p \in Serving
               PROVE  LET stored == Replay(db, FALSE).chain.entries IN
                      \A b \in Known(mem[p]) : b \in DOMAIN stored /\ mem[p].entries[b] = stored[b]
    BY DEF VisibleIsStored
  <2>1. p \in Procs /\ pc[p] \in {"ready", "persist", "publish"}
    BY DEF Serving, Procs
  <2>2. Within(mem[p], Tree(db))
    BY <2>1 DEF IInv, ProcessSound
  <2> QED
    BY <2>2 DEF Within, Tree, Known
<1> QED
  BY <1>1, StorageInvariance, PTL

(* A reindexer's commit is the only step from its rewrite to its validation. *)
LEMMA RewriteOnly ==
  ASSUME IInv, [Next]_vars, NEW p \in Reindexers, pc[p] = "rewrite", pc'[p] = "replay"
  PROVE  ReindexRewrite(p)
<1>1. p \in Procs /\ pc \in [Procs -> Steps]
  BY DEF Procs, IInv
<1>2. CASE UNCHANGED vars
  BY <1>2 DEF vars
<1>3. CASE Damage
  BY <1>3 DEF Damage
<1>4. ASSUME NEW q \in Procs, NEW at, pc' = [pc EXCEPT ![q] = at] PROVE q = p /\ at = "replay"
  BY <1>1, <1>4
<1>5. ASSUME NEW q \in Procs,
             \/ OpenMissing(q) \/ Initialize(q) \/ OpenExisting(q)
             \/ LoadReplay(q) \/ LoadCompare(q)
      PROVE  FALSE
  <2>1. pc[q] # "rewrite"
    BY <1>5 DEF OpenMissing, Initialize, OpenExisting, LoadReplay, LoadCompare
  <2>2. \E at : pc' = [pc EXCEPT ![q] = at]
    BY <1>5 DEF OpenMissing, Initialize, OpenExisting, LoadReplay, LoadCompare, Goto
  <2> QED
    BY <1>4, <2>1, <2>2
<1>6. ASSUME NEW q \in Procs,
             \/ PersistNew(q) \/ PersistExisting(q) \/ PersistFails(q) \/ Publish(q)
             \/ ReindexReplay(q) \/ \E b \in Blocks : Validate(q, b)
      PROVE  FALSE
  <2>1. pc[q] # "rewrite"
    BY <1>6 DEF PersistNew, PersistExisting, PersistFails, Publish, ReindexReplay, Validate
  <2>2. \E at : pc' = [pc EXCEPT ![q] = at]
    BY <1>6 DEF PersistNew, PersistExisting, PersistFails, Publish, ReindexReplay, Validate, Goto
  <2> QED
    BY <1>4, <2>1, <2>2
<1>7. ASSUME NEW q \in Procs, ReindexFails(q) \/ Stop(q) PROVE FALSE
  BY <1>4, <1>7 DEF ReindexFails, Stop, Goto
<1>8. ASSUME NEW q \in Procs, ReindexRewrite(q) PROVE q = p
  BY <1>4, <1>8 DEF ReindexRewrite, Goto
<1> QED
  BY <1>2, <1>3, <1>5, <1>6, <1>7, <1>8 DEF Next

(* A committed reindex leaves a file that passes every check of load_chain,
   whatever derived data was spoiled before and whatever a node committed
   between the reindexer's replay and its transaction. *)
THEOREM ReindexRepairsTheorem == Spec => ReindexRepairs
<1>1. IInv /\ [Next]_vars =>
        [\A p \in Reindexers : pc[p] = "rewrite" /\ pc'[p] = "replay" =>
           \A d \in {db'} : Healthy(d)]_vars
  <2> SUFFICES ASSUME IInv, [Next]_vars, NEW p \in Reindexers,
                      pc[p] = "rewrite", pc'[p] = "replay"
               PROVE  \A d \in {db'} : Healthy(d)
    OBVIOUS
  <2>1. ReindexRewrite(p) /\ p \in Procs
    BY RewriteOnly DEF Procs
  <2>2. FileSound(db') /\ Intact(db')
    BY <2>1, RewriteEffects
  <2> QED
    BY <2>2, IntactIsHealthy
<1> QED
  BY <1>1, StorageInvariance, PTL DEF Spec, ReindexRepairs

(***************************************************************************)
(* Refinement.  While nothing spoils the file, it stands for the tree it   *)
(* replays to; a new row is a Learn step and every other step stutters.    *)
(***************************************************************************)
StoredTree == IF HasSchema THEN Tree(db) ELSE EmptyChain

LEMMA StoredView ==
  ASSUME IInv, damages = 0
  PROVE  /\ TreeSound(StoredTree)
         /\ StoredBlocks(db) \cup {GenesisBlock} = Known(StoredTree)
         /\ StoredWeight = [b \in Known(StoredTree) |-> StoredTree.entries[b].work]
         /\ (IF HasSchema THEN db.derived.tip ELSE GenesisBlock) = StoredTree.tip
<1>1. CASE ~HasSchema
  <2>1. StoredTree = EmptyChain /\ db.rows = <<>>
    BY <1>1 DEF StoredTree, HasSchema
  <2>2. StoredBlocks(db) = {}
    BY <2>1 DEF StoredBlocks
  <2>3. /\ TreeSound(EmptyChain) /\ Known(EmptyChain) = {GenesisBlock}
        /\ EmptyChain.tip = GenesisBlock
        /\ EmptyChain.entries[GenesisBlock].work = WorkForTarget(InitialTarget)
    BY EmptyChainSound DEF EmptyChain
  <2>4. StoredWeight = [b \in {GenesisBlock} |-> WorkForTarget(InitialTarget)]
    BY <1>1, <2>2 DEF StoredWeight
  <2> QED
    BY <1>1, <2>1, <2>2, <2>3, <2>4
<1>2. CASE HasSchema
  <2> DEFINE R == Tree(db)
             n == Len(db.rows)
  <2>1. StoredTree = R /\ FileSound(db) /\ Intact(db)
    BY <1>2, SchemaIsSound DEF StoredTree, IInv
  <2>2. /\ TreeSound(R) /\ Known(R) = StoredBlocks(db) /\ GenesisBlock \in Known(R)
        /\ DOMAIN db.rows = 1..n
    BY <2>1 DEF FileSound, RowsShaped, TreeSound, EntriesTyped
  <2>3. ASSUME NEW b \in StoredBlocks(db)
        PROVE  (LET i == CHOOSE i \in DOMAIN db.rows : db.rows[i].block = b
                IN  db.rows[i].record.work) = R.entries[b].work
    <3> DEFINE i == CHOOSE i \in DOMAIN db.rows : db.rows[i].block = b
    <3>1. i \in DOMAIN db.rows /\ db.rows[i].block = b
      BY DEF StoredBlocks
    <3>2. db.rows[i].record = Record(R, b)
      BY <2>1, <2>2, <3>1 DEF Intact, RecordsMatch
    <3> QED
      BY <3>2 DEF Record
  <2>4. StoredWeight = [b \in Known(R) |-> R.entries[b].work]
    <3>1. StoredBlocks(db) \cup {GenesisBlock} = StoredBlocks(db)
      BY <2>2
    <3> DEFINE at(b) == CHOOSE i \in DOMAIN db.rows : db.rows[i].block = b
    <3>2. StoredWeight = [b \in StoredBlocks(db) |-> db.rows[at(b)].record.work]
      BY <1>2, <3>1 DEF StoredWeight
    <3>3. \A b \in StoredBlocks(db) : db.rows[at(b)].record.work = R.entries[b].work
      BY <2>3
    <3> HIDE DEF R, at
    <3> QED
      BY <2>2, <3>2, <3>3
  <2>5. db.derived.tip = R.tip
    BY <2>1 DEF Intact, Derived
  <2> QED
    BY <1>2, <2>1, <2>2, <2>4, <2>5
<1> QED
  BY <1>1, <1>2

Undamaged == IInv /\ damages = 0

Viewed ==
  /\ StoredBlocks(db) \cup {GenesisBlock} = Known(StoredTree)
  /\ StoredWeight = [b \in Known(StoredTree) |-> StoredTree.entries[b].work]
  /\ (IF HasSchema THEN db.derived.tip ELSE GenesisBlock) = StoredTree.tip

LEMMA StoredViewNext == Undamaged' => Viewed'
<1>1. Undamaged => Viewed
  BY StoredView DEF Undamaged, Viewed
<1> QED
  BY <1>1, PTL

(* Only a new row changes the tree that the file stands for. *)
LEMMA TreeSteps ==
  ASSUME IInv, [Next]_vars, damages = 0, damages' = 0
  PROVE  \/ StoredTree' = StoredTree
         \/ \E b \in Blocks : /\ AddOutcome(StoredTree, b) = "accepted"
                              /\ StoredTree' = AddBlock(StoredTree, b)
<1>1. CASE db' = db
  BY <1>1 DEF StoredTree, HasSchema
<1>2. ASSUME NEW p \in Procs, Initialize(p), db' # db PROVE StoredTree' = StoredTree
  <2>1. ~HasSchema /\ db' = NewDatabase
    BY <1>2 DEF Initialize
  <2>2. FileSound(db') /\ Tree(db') = EmptyChain
    BY <2>1, NewDatabaseSound
  <2>3. HasSchema'
    BY <2>2 DEF FileSound, RowsShaped, HasSchema
  <2> QED
    BY <2>1, <2>2, <2>3 DEF StoredTree
<1>3. ASSUME NEW p \in Procs, PersistNew(p)
      PROVE  \E b \in Blocks : /\ AddOutcome(StoredTree, b) = "accepted"
                               /\ StoredTree' = AddBlock(StoredTree, b)
  <2>1. PICK b \in Blocks : /\ FileSound(db) /\ FileSound(db')
                            /\ AddOutcome(Tree(db), b) = "accepted"
                            /\ Tree(db') = AddBlock(Tree(db), b)
    BY <1>3, PersistEffects
  <2>2. StoredTree = Tree(db) /\ StoredTree' = Tree(db')
    BY <2>1 DEF FileSound, RowsShaped, HasSchema, StoredTree
  <2> QED
    BY <2>1, <2>2
<1>4. ASSUME NEW p \in Procs, ReindexRewrite(p) PROVE StoredTree' = StoredTree
  <2>1. FileSound(db) /\ FileSound(db') /\ Tree(db') = Tree(db)
    BY <1>4, RewriteEffects
  <2> QED
    BY <2>1 DEF FileSound, RowsShaped, HasSchema, StoredTree
<1>5. CASE Damage
  BY <1>5 DEF Damage
<1>6. ASSUME NEW p \in Procs,
             \/ OpenMissing(p) \/ OpenExisting(p) \/ LoadReplay(p) \/ LoadCompare(p)
             \/ PersistExisting(p) \/ PersistFails(p) \/ Publish(p)
             \/ ReindexReplay(p) \/ ReindexFails(p) \/ Stop(p)
             \/ \E b \in Blocks : Validate(p, b)
      PROVE  db' = db
  BY <1>6 DEF OpenMissing, OpenExisting, LoadReplay, LoadCompare, PersistExisting,
              PersistFails, Publish, ReindexReplay, ReindexFails, Stop, Validate
<1>7. CASE UNCHANGED vars
  BY <1>1, <1>7 DEF vars
<1> QED
  BY <1>1, <1>2, <1>3, <1>4, <1>5, <1>6, <1>7 DEF Next

(* Between two undamaged files the abstract fork choice takes at most a step. *)
LEMMA TreeLearns ==
  ASSUME IInv, IInv', [Next]_vars, damages = 0, damages' = 0
  PROVE  [FC!Learn]_(FC!vars)
<1>1. /\ TreeSound(StoredTree)
      /\ StoredBlocks(db) \cup {GenesisBlock} = Known(StoredTree)
      /\ StoredWeight = [b \in Known(StoredTree) |-> StoredTree.entries[b].work]
      /\ (IF HasSchema THEN db.derived.tip ELSE GenesisBlock) = StoredTree.tip
  BY StoredView
<1>2. /\ (StoredBlocks(db) \cup {GenesisBlock})' = Known(StoredTree')
      /\ StoredWeight' = [b \in Known(StoredTree') |-> StoredTree'.entries[b].work]
      /\ (IF HasSchema THEN db.derived.tip ELSE GenesisBlock)' = StoredTree'.tip
  BY StoredViewNext DEF Undamaged, Viewed
<1>3. CASE StoredTree' = StoredTree
  BY <1>1, <1>2, <1>3 DEF FC!vars
<1>4. ASSUME NEW b \in Blocks, AddOutcome(StoredTree, b) = "accepted",
             StoredTree' = AddBlock(StoredTree, b)
      PROVE  FC!Learn
  <2> DEFINE c == StoredTree
             d == AddBlock(c, b)
             K == StoredBlocks(db) \cup {GenesisBlock}
             L == (StoredBlocks(db) \cup {GenesisBlock})'
             w == StoredWeight
             v == StoredWeight'
             t == IF HasSchema THEN db.derived.tip ELSE GenesisBlock
             s == (IF HasSchema THEN db.derived.tip ELSE GenesisBlock)'
  <2>1. EntriesTyped(c) /\ EntriesTyped(d)
    BY <1>1, <1>4, AddKeepsSound DEF TreeSound
  <2>2. /\ b \notin Known(c) /\ b.prev \in Known(c) /\ b.target \in 1..MaxTarget
        /\ Known(d) = Known(c) \cup {b}
        /\ \A k \in Known(c) : d.entries[k] = c.entries[k]
        /\ d.entries[b].work = c.entries[b.prev].work + WorkForTarget(b.target)
        /\ d.tip = IF d.entries[b].work > c.entries[c.tip].work THEN b ELSE c.tip
    BY <1>4, <2>1, AddEffects
  <2>3. WorkForTarget(b.target) \in Nat \ {0}
    BY <2>2, WorkIsPositive
  <2>4. /\ K = Known(c) /\ w = [k \in Known(c) |-> c.entries[k].work] /\ t = c.tip
        /\ L = Known(d) /\ v = [k \in Known(d) |-> d.entries[k].work] /\ s = d.tip
    BY <1>1, <1>2, <1>4
  <2>5. /\ \A k \in Known(c) : c.entries[k].work \in Nat /\ d.entries[k].work \in Nat
        /\ d.entries[b].work \in Nat /\ c.tip \in Known(c)
    BY <2>1, <2>2 DEF EntriesTyped
  <2> HIDE DEF c, d, K, L, w, v, t, s
  <2>6. /\ b \in L \ K /\ L = K \cup {b} /\ b.prev \in K
        /\ \A k \in K : v[k] = w[k]
        /\ v \in [L -> Nat]
    BY <2>2, <2>4, <2>5
  <2>7. v[b] > w[b.prev]
    BY <2>2, <2>3, <2>4, <2>5
  <2>8. b.prev \in K => v[b.prev] = w[b.prev]
    BY <2>6
  <2>9. s = IF v[b] > w[t] THEN b ELSE t
    BY <2>2, <2>4, <2>5
  <2>10. \E k \in L \ K : /\ L = K \cup {k} /\ k.prev \in K /\ v \in [L -> Nat]
                          /\ \A j \in K : v[j] = w[j]
                          /\ v[k] > w[k.prev]
                          /\ s = IF v[k] > w[t] THEN k ELSE t
    BY <2>6, <2>7, <2>9
  <2> QED
    BY <2>10 DEF FC!Learn, K, L, w, v, t, s
<1> QED
  BY <1>3, <1>4, TreeSteps

LEMMA NeverDamaged == ASSUME Damages = 0, IInv PROVE damages = 0
BY DEF IInv

(* Where nothing spoils the file, the stored chain implements the abstract fork
   choice, however many nodes write and whichever are killed: rows are never
   lost or re-weighed and the stored tip moves only to a strictly heavier
   block. *)
THEOREM StorageImplementsForkChoice == Damages = 0 => (Spec => ImplementsForkChoice)
<1> SUFFICES ASSUME Damages = 0 PROVE Spec => ImplementsForkChoice
  OBVIOUS
<1>1. Init => FC!Init
  <2> SUFFICES ASSUME Init PROVE FC!Init
    OBVIOUS
  <2>1. IInv /\ damages = 0
    BY InitIInv DEF Init
  <2>2. ~HasSchema
    BY DEF Init, NoDatabase, HasSchema
  <2>3. StoredTree = EmptyChain
    BY <2>2 DEF StoredTree
  <2>4. /\ Known(EmptyChain) = {GenesisBlock} /\ EmptyChain.tip = GenesisBlock
        /\ EmptyChain.entries[GenesisBlock].work \in Nat \ {0}
    BY EmptyChainSound DEF TreeSound, EntriesTyped
  <2>5. /\ StoredBlocks(db) \cup {GenesisBlock} = {GenesisBlock}
        /\ StoredWeight = [b \in {GenesisBlock} |-> EmptyChain.entries[b].work]
        /\ (IF HasSchema THEN db.derived.tip ELSE GenesisBlock) = GenesisBlock
    BY <2>1, <2>3, <2>4, StoredView
  <2>6. StoredWeight \in [{GenesisBlock} -> Nat \ {0}]
    BY <2>4, <2>5
  <2> QED
    BY <2>5, <2>6 DEF FC!Init
<1>2. IInv /\ IInv' /\ [Next]_vars => [FC!Learn]_(FC!vars)
  <2> SUFFICES ASSUME IInv, IInv', [Next]_vars PROVE [FC!Learn]_(FC!vars)
    OBVIOUS
  <2>1. damages = 0 /\ damages' = 0
    <3>1. damages \in 0..Damages /\ damages' \in 0..Damages
      BY DEF IInv
    <3> QED
      BY <3>1
  <2> QED
    BY <2>1, TreeLearns
<1> QED
  BY <1>1, <1>2, StorageInvariance, PTL DEF Spec, FC!Spec, ImplementsForkChoice

-----------------------------------------------------------------------------
(***************************************************************************)
(* One node on the file.  Only a node adds rows, so the tree that the rows *)
(* replay to is at every moment the one node's, or the one it is about to  *)
(* publish: the rows are in the order in which it accepted the blocks.     *)
(***************************************************************************)
OneNode == \A p, q \in Nodes : p = q

HoldsTree(d, at, m, x) ==
  /\ at \in {"compare", "ready", "persist"} => m = Tree(d)
  /\ at = "publish" => x.chain = Tree(d)

LoneIInv ==
  /\ IInv
  /\ \A p \in Procs : pc[p] \in {"ready", "persist", "publish"} => p \in Nodes
  /\ \A p \in Nodes : HoldsTree(db, pc[p], mem[p], pending[p])

(* A process changes nothing of another one. *)
LEMMA StepIsOwn ==
  ASSUME IInv, NEW p \in Procs,
         \/ OpenMissing(p) \/ Initialize(p) \/ OpenExisting(p) \/ LoadReplay(p) \/ LoadCompare(p)
         \/ PersistNew(p) \/ PersistExisting(p) \/ PersistFails(p) \/ Publish(p)
         \/ ReindexReplay(p) \/ ReindexRewrite(p) \/ ReindexFails(p) \/ Stop(p)
         \/ \E b \in Blocks : Validate(p, b),
         NEW q \in Procs, q # p
  PROVE  pc'[q] = pc[q] /\ mem'[q] = mem[q] /\ pending'[q] = pending[q]
<1>1. pc \in [Procs -> Steps] /\ DOMAIN mem = Procs /\ DOMAIN pending = Procs
  BY DEF IInv
<1>2. \A at : pc' = [pc EXCEPT ![p] = at] => pc'[q] = pc[q]
  BY <1>1
<1>3. \A m : mem' = [mem EXCEPT ![p] = m] => mem'[q] = mem[q]
  BY <1>1
<1>4. \A x : pending' = [pending EXCEPT ![p] = x] => pending'[q] = pending[q]
  BY <1>1
<1>5. CASE OpenMissing(p) \/ Initialize(p) \/ OpenExisting(p) \/ LoadReplay(p) \/ LoadCompare(p)
  BY <1>2, <1>3, <1>4, <1>5 DEF OpenMissing, Initialize, OpenExisting, LoadReplay, LoadCompare, Goto
<1>6. CASE PersistNew(p) \/ PersistExisting(p) \/ PersistFails(p) \/ Publish(p)
  BY <1>2, <1>3, <1>4, <1>6 DEF PersistNew, PersistExisting, PersistFails, Publish, Goto, AfterRollback
<1>7. CASE ReindexReplay(p) \/ ReindexRewrite(p) \/ ReindexFails(p) \/ Stop(p)
  BY <1>2, <1>3, <1>4, <1>7 DEF ReindexReplay, ReindexRewrite, ReindexFails, Stop, Goto, Forget
<1>8. CASE \E b \in Blocks : Validate(p, b)
  BY <1>2, <1>4, <1>8 DEF Validate, Goto
<1> QED
  BY <1>5, <1>6, <1>7, <1>8

(* Under a process that has loaded the file, only a new row changes the tree. *)
LEMMA OnlyRowsGrow ==
  ASSUME IInv, FileSound(db), NEW p \in Procs,
         \/ OpenMissing(p) \/ Initialize(p) \/ OpenExisting(p) \/ LoadReplay(p) \/ LoadCompare(p)
         \/ PersistExisting(p) \/ PersistFails(p) \/ Publish(p)
         \/ ReindexReplay(p) \/ ReindexRewrite(p) \/ ReindexFails(p) \/ Stop(p)
         \/ \E b \in Blocks : Validate(p, b)
  PROVE  Tree(db') = Tree(db)
<1>1. CASE Initialize(p)
  BY <1>1, SchemaIsSound DEF Initialize
<1>2. CASE ReindexRewrite(p)
  BY <1>2, RewriteEffects
<1>3. CASE ~Initialize(p) /\ ~ReindexRewrite(p)
  BY <1>3 DEF OpenMissing, OpenExisting, LoadReplay, LoadCompare, PersistExisting, PersistFails,
              Publish, ReindexReplay, ReindexFails, Stop, Validate
<1> QED
  BY <1>1, <1>2, <1>3

(* What a step of the node leaves it with. *)
LEMMA OwnStep ==
  ASSUME LoneIInv, IInv', NEW p \in Nodes,
         \/ OpenMissing(p) \/ Initialize(p) \/ OpenExisting(p) \/ LoadReplay(p) \/ LoadCompare(p)
         \/ PersistNew(p) \/ PersistExisting(p) \/ PersistFails(p) \/ Publish(p)
         \/ ReindexReplay(p) \/ ReindexRewrite(p) \/ ReindexFails(p) \/ Stop(p)
         \/ \E b \in Blocks : Validate(p, b)
  PROVE  HoldsTree(db', pc'[p], mem'[p], pending'[p])
<1>0. p \in Procs /\ IInv /\ HoldsTree(db, pc[p], mem[p], pending[p])
  BY DEF LoneIInv, Procs
<1>1. pc \in [Procs -> Steps] /\ DOMAIN mem = Procs /\ DOMAIN pending = Procs
  BY <1>0 DEF IInv
<1>2. \A at : pc' = [pc EXCEPT ![p] = at] => pc'[p] = at
  BY <1>0, <1>1
<1>3. \A m : mem' = [mem EXCEPT ![p] = m] => mem'[p] = m
  BY <1>0, <1>1
<1>4. \A x : pending' = [pending EXCEPT ![p] = x] => pending'[p] = x
  BY <1>0, <1>1
<1>5. ASSUME pc'[p] \notin {"compare", "ready", "persist", "publish"}
      PROVE  HoldsTree(db', pc'[p], mem'[p], pending'[p])
  BY <1>5 DEF HoldsTree
<1>6. CASE OpenMissing(p) \/ Initialize(p) \/ OpenExisting(p)
  BY <1>2, <1>5, <1>6 DEF OpenMissing, Initialize, OpenExisting, Goto
<1>7. CASE ReindexReplay(p) \/ ReindexRewrite(p) \/ ReindexFails(p) \/ Stop(p)
  BY <1>2, <1>5, <1>7 DEF ReindexReplay, ReindexRewrite, ReindexFails, Stop, Goto
<1>8. CASE LoadReplay(p)
  <2> DEFINE run == Replay(db, TRUE)
  <2>1. FileSound(db)
    BY <1>0, <1>8 DEF LoadReplay, IInv, ProcessSound
  <2>2. run.ok => run.chain = Tree(db)
    BY <2>1, CheckedReplay DEF FileSound, RowsShaped, Tree
  <2>3. /\ pc' = [pc EXCEPT ![p] = IF run.ok THEN "compare" ELSE "corrupt"]
        /\ mem' = [mem EXCEPT ![p] = run.chain] /\ db' = db
    BY <1>8 DEF LoadReplay, Goto
  <2> HIDE DEF run
  <2> QED
    BY <1>2, <1>3, <2>2, <2>3 DEF HoldsTree
<1>9. CASE LoadCompare(p)
  <2>1. /\ pc[p] = "compare" /\ mem' = mem /\ db' = db
        /\ pc' = [pc EXCEPT ![p] = IF db.derived # Derived(mem[p]) THEN "corrupt"
                                   ELSE IF p \in Nodes THEN "ready" ELSE "done"]
    BY <1>9 DEF LoadCompare, Goto
  <2>2. pc'[p] \in {"corrupt", "ready", "done"} /\ mem[p] = Tree(db)
    BY <1>0, <1>2, <2>1 DEF HoldsTree
  <2> QED
    BY <2>1, <2>2 DEF HoldsTree
<1>10. CASE PersistNew(p)
  <2>1. PICK b \in Blocks :
          /\ pending[p] = [chain |-> AddBlock(mem[p], b), update |-> UpdateFor(mem[p], b)]
          /\ Tree(db') = AddBlock(Tree(db), b)
    BY <1>0, <1>10, PersistEffects
  <2>2. pc[p] = "persist" /\ pc'[p] = "publish" /\ pending' = pending
    BY <1>2, <1>10 DEF PersistNew, Goto
  <2>3. pending[p].chain = AddBlock(mem[p], b) /\ mem[p] = Tree(db)
    BY <1>0, <2>1, <2>2 DEF HoldsTree
  <2> QED
    BY <2>1, <2>2, <2>3 DEF HoldsTree
<1>11. CASE PersistExisting(p)
  <2>1. pc[p] = "persist"
    BY <1>11 DEF PersistExisting
  <2>2. PICK b \in Blocks : AddOutcome(mem[p], b) = "accepted" /\ pending[p].update.added = b
    BY <1>0, <2>1, PendingBlock
  <2>3. FileSound(db) /\ EntriesTyped(mem[p]) /\ mem[p] = Tree(db)
    BY <1>0, <2>1, PendingBlock DEF TreeSound, HoldsTree
  <2>4. PICK i \in DOMAIN db.rows : db.rows[i] = Row(pending[p].chain, b)
    BY <1>11, <2>2 DEF PersistExisting, Range
  <2>5. b \in StoredBlocks(db)
    BY <2>4 DEF Row, StoredBlocks
  <2>6. b \notin Known(mem[p])
    BY <2>2, <2>3, AddEffects
  <2> QED
    BY <2>3, <2>5, <2>6 DEF FileSound
<1>12. CASE PersistFails(p)
  <2>1. pc[p] = "persist" /\ pc'[p] = "ready" /\ mem' = mem /\ db' = db
    BY <1>2, <1>12 DEF PersistFails, Goto, AfterRollback
  <2> QED
    BY <1>0, <2>1 DEF HoldsTree
<1>13. CASE Publish(p)
  <2>1. pc[p] = "publish" /\ pc'[p] = "ready" /\ mem'[p] = pending[p].chain /\ db' = db
    BY <1>2, <1>3, <1>13 DEF Publish, Goto
  <2> QED
    BY <1>0, <2>1 DEF HoldsTree
<1>14. ASSUME NEW b \in Blocks, Validate(p, b) PROVE HoldsTree(db', pc'[p], mem'[p], pending'[p])
  <2>1. pc[p] = "ready" /\ pc'[p] = "persist" /\ mem' = mem /\ db' = db
    BY <1>2, <1>14 DEF Validate, Goto
  <2> QED
    BY <1>0, <2>1 DEF HoldsTree
<1> QED
  BY <1>6, <1>7, <1>8, <1>9, <1>10, <1>11, <1>12, <1>13, <1>14

LEMMA NextLone == OneNode /\ LoneIInv /\ [Next]_vars => LoneIInv'
<1> SUFFICES ASSUME OneNode, LoneIInv, [Next]_vars PROVE LoneIInv'
  OBVIOUS
<1>1. IInv /\ IInv'
  BY NextIInv DEF LoneIInv
<1>2. \A p \in Procs : pc[p] \in {"ready", "persist", "publish"} => p \in Nodes
  BY DEF LoneIInv
<1>3. \A p \in Nodes : p \in Procs /\ HoldsTree(db, pc[p], mem[p], pending[p])
  BY DEF LoneIInv, Procs
<1>4. ASSUME NEW p \in Nodes, pc'[p] = pc[p], mem'[p] = mem[p], pending'[p] = pending[p],
             FileSound(db) => Tree(db') = Tree(db)
      PROVE  HoldsTree(db', pc'[p], mem'[p], pending'[p])
  <2>1. ~FileSound(db) => pc[p] \in {"down", "initialize"}
    BY <1>1, <1>3 DEF IInv, ProcessSound
  <2> QED
    BY <1>3, <1>4, <2>1 DEF HoldsTree
<1>5. ASSUME NEW p \in Procs, PersistNew(p) PROVE LoneIInv'
  <2>1. p \in Nodes
    BY <1>2, <1>5 DEF PersistNew
  <2>2. HoldsTree(db', pc'[p], mem'[p], pending'[p])
    BY <1>1, <1>5, <2>1, OwnStep
  <2>3. \A q \in Nodes : q = p
    BY <2>1 DEF OneNode
  <2>4. \A q \in Procs : q # p => pc'[q] = pc[q]
    BY <1>1, <1>5, StepIsOwn
  <2> QED
    BY <1>1, <1>2, <2>1, <2>2, <2>3, <2>4 DEF LoneIInv
<1>6. ASSUME NEW p \in Procs,
         \/ OpenMissing(p) \/ Initialize(p) \/ OpenExisting(p) \/ LoadReplay(p) \/ LoadCompare(p)
         \/ PersistExisting(p) \/ PersistFails(p) \/ Publish(p)
         \/ ReindexReplay(p) \/ ReindexRewrite(p) \/ ReindexFails(p) \/ Stop(p)
         \/ \E b \in Blocks : Validate(p, b)
      PROVE  LoneIInv'
  <2>1. \A q \in Procs : q # p => pc'[q] = pc[q] /\ mem'[q] = mem[q] /\ pending'[q] = pending[q]
    BY <1>1, <1>6, StepIsOwn
  <2>2. FileSound(db) => Tree(db') = Tree(db)
    BY <1>1, <1>6, OnlyRowsGrow
  <2>3. p \in Nodes => HoldsTree(db', pc'[p], mem'[p], pending'[p])
    BY <1>1, <1>6, OwnStep
  <2>4. \A q \in Nodes : HoldsTree(db', pc'[q], mem'[q], pending'[q])
    BY <1>3, <1>4, <2>1, <2>2, <2>3
  <2>5. pc'[p] \in {"ready", "persist", "publish"} => p \in Nodes
    <3>1. pc \in [Procs -> Steps]
      BY <1>1 DEF IInv
    <3>2. \A at : pc' = [pc EXCEPT ![p] = at] => pc'[p] = at
      BY <3>1
    <3>3. CASE pc[p] \in {"ready", "persist", "publish"}
      BY <1>2, <3>3
    <3>4. CASE pc[p] \notin {"ready", "persist", "publish"} /\ p \notin Nodes
      BY <1>6, <3>2, <3>4 DEF OpenMissing, Initialize, OpenExisting, LoadReplay, LoadCompare,
           PersistExisting, PersistFails, Publish, ReindexReplay, ReindexRewrite, ReindexFails,
           Stop, Validate, Goto
    <3> QED
      BY <3>3, <3>4
  <2> QED
    BY <1>1, <1>2, <2>1, <2>4, <2>5 DEF LoneIInv
<1>7. CASE Damage
  <2>1. pc' = pc /\ mem' = mem /\ pending' = pending /\ Tree(db') = Tree(db)
    BY <1>1, <1>7, DamageEffects DEF Damage
  <2> QED
    BY <1>1, <1>2, <1>4, <2>1 DEF LoneIInv
<1>8. CASE UNCHANGED vars
  <2>1. pc' = pc /\ mem' = mem /\ pending' = pending /\ Tree(db') = Tree(db)
    BY <1>8 DEF vars
  <2> QED
    BY <1>1, <1>2, <1>4, <2>1 DEF LoneIInv
<1> QED
  BY <1>5, <1>6, <1>7, <1>8 DEF Next

(* With one node on the file a restart at any idle moment finds the very tree
   that the node has in memory, with the same tip among equal branches, whatever
   derived data was spoiled, and whoever validated or reindexed meanwhile. *)
THEOREM RestartKeepsTreeTheorem == OneNode /\ Spec => []RestartKeepsTree
<1>1. Init => LoneIInv
  BY InitIInv DEF Init, LoneIInv, HoldsTree, Procs
<1>2. LoneIInv => RestartKeepsTree
  BY DEF LoneIInv, HoldsTree, RestartKeepsTree, Tree
<1>3. CASE OneNode
  <2>1. LoneIInv /\ [Next]_vars => LoneIInv'
    BY <1>3, NextLone
  <2> QED
    BY <1>1, <1>2, <2>1, PTL DEF Spec
<1> QED
  BY <1>3
=============================================================================
