---------------------------- MODULE PeerSyncProofs ----------------------------
(***************************************************************************)
(* Proofs about PeerSync, for every set of nodes and blocks, every tree    *)
(* and every bound: what travels on a stream is well formed, requests,     *)
(* responses and summaries balance on every connection, and the work a     *)
(* node claims never falls.                                                *)
(***************************************************************************)
EXTENDS PeerSync, FiniteSetTheorems, WellFoundedInduction, TLAPS

(* A set of natural numbers that is not empty has a least element. *)
LEMMA NatMin ==
  ASSUME NEW T \in SUBSET Nat, T # {}
  PROVE  \E x \in T : \A y \in T : x <= y
<1>1. \E R : IsWellFoundedOn(R, Nat) /\ \A x, y \in Nat : x < y => <<x, y>> \in R
  <2>1. IsWellFoundedOn(OpToRel(<, Nat), Nat)
    BY NatLessThanWellFounded, Zenon
  <2>2. \A x, y \in Nat : x < y => <<x, y>> \in OpToRel(<, Nat)
    BY Zenon DEF OpToRel
  <2> QED
    BY <2>1, <2>2, Zenon
<1>2. PICK R : IsWellFoundedOn(R, Nat) /\ \A x, y \in Nat : x < y => <<x, y>> \in R
  BY <1>1
<1>3. \E x \in T : \A y \in T : ~(<<y, x>> \in R)
  <2>1. IsWellFoundedOn(R, Nat)
    BY <1>2
  <2>2. T \subseteq Nat /\ T # {}
    OBVIOUS
  <2> QED
    BY <2>1, <2>2, WFMin
<1>4. PICK x \in T : \A y \in T : ~(<<y, x>> \in R)
  BY <1>3
<1>5. \A y \in T : ~(y < x)
  BY <1>2, <1>4
<1>6. \A y \in T : x <= y
  BY <1>5
<1> QED
  BY <1>6

(* Induction: a set that contains 0, and n + 1 with n, contains every natural
   number. *)
LEMMA Induction ==
  ASSUME NEW H, 0 \in H, \A n \in Nat : n \in H => n + 1 \in H
  PROVE  Nat \subseteq H
<1> SUFFICES ASSUME Nat \ H # {} PROVE FALSE
  OBVIOUS
<1>1. PICK n \in Nat \ H : \A m \in Nat \ H : n <= m
  BY NatMin
<1>2. n # 0 /\ n - 1 \in Nat
  BY <1>1
<1>3. n - 1 \in H
  BY <1>1, <1>2
<1> QED
  BY <1>1, <1>2, <1>3

-----------------------------------------------------------------------------
(***************************************************************************)
(* How many elements of a stream have a type.                              *)
(***************************************************************************)
Places(w, type) == {i \in DOMAIN w : w[i].type = type}
Counted(w, type) == Cardinality(Places(w, type))
One(f, type) == IF f.type = type THEN 1 ELSE 0

LEMMA CountIsNatural ==
  ASSUME NEW S, NEW w \in Seq(S), NEW type
  PROVE  IsFiniteSet(Places(w, type)) /\ Counted(w, type) \in Nat
<1>1. IsFiniteSet(1..Len(w)) /\ Places(w, type) \in SUBSET (1..Len(w))
  BY FS_Interval DEF Places
<1>2. IsFiniteSet(Places(w, type))
  BY <1>1, FS_Subset
<1> QED
  BY <1>2, FS_CardinalityType DEF Counted

LEMMA CountEmpty == \A type : Counted(<<>>, type) = 0
<1>1. \A type : Places(<<>>, type) = {}
  BY DEF Places
<1> QED
  BY <1>1, FS_EmptySet DEF Counted

LEMMA CountAppend ==
  ASSUME NEW S, NEW w \in Seq(S), NEW f \in S, NEW type
  PROVE  Counted(Append(w, f), type) = Counted(w, type) + One(f, type)
<1> DEFINE v == Append(w, f)
           n == Len(w) + 1
           P == Places(w, type)
<1>1. /\ DOMAIN v = 1..n /\ v[n] = f /\ \A i \in 1..Len(w) : v[i] = w[i]
      /\ DOMAIN w = 1..Len(w) /\ n \notin 1..Len(w) /\ 1..n = (1..Len(w)) \cup {n}
  OBVIOUS
<1> HIDE DEF v, n
<1>2. IsFiniteSet(P) /\ n \notin P /\ Cardinality(P) \in Nat
  BY <1>1, CountIsNatural DEF Places, Counted
<1>3. Places(v, type) = IF f.type = type THEN P \cup {n} ELSE P
  BY <1>1 DEF Places
<1>4. Cardinality(P \cup {n}) = Cardinality(P) + 1
  BY <1>2, FS_AddElement
<1> QED
  BY <1>2, <1>3, <1>4 DEF Counted, One, v

LEMMA CountTail ==
  ASSUME NEW S, NEW w \in Seq(S), w # <<>>, NEW type
  PROVE  Counted(Tail(w), type) = Counted(w, type) - One(Head(w), type)
<1> DEFINE v == Tail(w)
           P == Places(w, type) \ {1}
           Q == Places(v, type)
           shift == [i \in P |-> i - 1]
<1>1. /\ DOMAIN w = 1..Len(w) /\ Len(w) \in Nat /\ Len(w) >= 1 /\ Head(w) = w[1]
      /\ DOMAIN v = 1..(Len(w) - 1) /\ \A i \in 1..(Len(w) - 1) : v[i] = w[i + 1]
  OBVIOUS
<1> HIDE DEF v
<1>2. P \subseteq 2..Len(w) /\ Q \subseteq 1..(Len(w) - 1)
  BY <1>1 DEF Places
<1>3. \A i \in P : i - 1 \in Q
  BY <1>1, <1>2 DEF Places
<1>4. \A j \in Q : j + 1 \in P
  BY <1>1, <1>2 DEF Places
<1>5. shift \in Bijection(P, Q)
  <2> HIDE DEF P, Q
  <2>1. shift \in [P -> Q]
    BY <1>3
  <2>2. \A i, j \in P : shift[i] = shift[j] => i = j
    BY <1>2
  <2>3. \A j \in Q : \E i \in P : shift[i] = j
    <3> SUFFICES ASSUME NEW j \in Q PROVE \E i \in P : shift[i] = j
      OBVIOUS
    <3>1. j + 1 \in P /\ (j + 1) - 1 = j
      BY <1>2, <1>4
    <3> QED
      BY <3>1
  <2> HIDE DEF shift
  <2> QED
    BY <2>1, <2>2, <2>3 DEF Bijection, Injection, Surjection, IsInjective
<1>6. IsFiniteSet(Places(w, type)) /\ Counted(w, type) \in Nat
  BY CountIsNatural
<1>7. /\ IsFiniteSet(P)
      /\ Cardinality(P) = IF 1 \in Places(w, type) THEN Counted(w, type) - 1 ELSE Counted(w, type)
  BY <1>6, FS_RemoveElement DEF Counted
<1>8. 1 \in Places(w, type) <=> Head(w).type = type
  BY <1>1 DEF Places
<1>9. Cardinality(Q) = Cardinality(P)
  <2> HIDE DEF P, Q
  <2>1. ExistsBijection(P, Q)
    BY <1>5 DEF ExistsBijection
  <2> QED
    BY <1>7, <2>1, FS_Bijection
<1> QED
  BY <1>6, <1>7, <1>8, <1>9 DEF Counted, One, v

-----------------------------------------------------------------------------
(***************************************************************************)
(* Branches.  Every block weighs more than its parent, so that the branch  *)
(* of a block can be computed from the branches of the lighter ones.       *)
(***************************************************************************)
BranchBody(g, b) == IF b = Genesis THEN <<b>> ELSE Append(g[Parent[b]], b)

(* g has the branches of the blocks that weigh at most n. *)
UpTo(g, n) == \A b \in AllBlocks : Work[b] <= n => g[b] = BranchBody(g, b)

LEMMA BlockFacts ==
  /\ Genesis \in AllBlocks /\ Genesis \notin Blocks
  /\ \A b \in AllBlocks : Work[b] \in Nat
  /\ \A b \in AllBlocks : b # Genesis => /\ b \in Blocks /\ Parent[b] \in AllBlocks
                                        /\ Work[Parent[b]] < Work[b]
BY PeerSyncAssumption DEF PeerSyncAssumption, AllBlocks

LEMMA UpToExists == \A n \in Nat : \E g \in [AllBlocks -> Seq(AllBlocks)] : UpTo(g, n)
<1> DEFINE H == {n \in Nat : \E g \in [AllBlocks -> Seq(AllBlocks)] : UpTo(g, n)}
           start == [b \in AllBlocks |-> <<Genesis>>]
<1>1. start \in [AllBlocks -> Seq(AllBlocks)]
  BY BlockFacts
<1>2. 0 \in H
  <2>1. \A b \in AllBlocks : Work[b] # 0
    BY PeerSyncAssumption DEF PeerSyncAssumption, AllBlocks
  <2>2. \A b \in AllBlocks : ~(Work[b] <= 0)
    BY <2>1, BlockFacts
  <2>3. UpTo(start, 0)
    BY <2>2 DEF UpTo
  <2> HIDE DEF start
  <2> QED
    BY <1>1, <2>3
<1>3. ASSUME NEW n \in Nat, n \in H PROVE n + 1 \in H
  <2>1. PICK g \in [AllBlocks -> Seq(AllBlocks)] : UpTo(g, n)
    BY <1>3
  <2> DEFINE h == [b \in AllBlocks |-> IF Work[b] <= n THEN g[b] ELSE BranchBody(g, b)]
  <2>2. ASSUME NEW b \in AllBlocks
        PROVE  BranchBody(g, b) \in Seq(AllBlocks)
    BY BlockFacts DEF BranchBody
  <2>3. h \in [AllBlocks -> Seq(AllBlocks)]
    BY <2>2
  <2>4. ASSUME NEW b \in AllBlocks, Work[b] <= n + 1
        PROVE  h[b] = BranchBody(h, b)
    <3>1. h[b] = BranchBody(g, b)
      BY <2>1 DEF UpTo
    <3>2. CASE b = Genesis
      BY <3>1, <3>2 DEF BranchBody
    <3>3. CASE b # Genesis
      <4>1. Parent[b] \in AllBlocks /\ Work[Parent[b]] <= n
        BY <2>4, <3>3, BlockFacts
      <4>2. h[Parent[b]] = g[Parent[b]]
        BY <4>1
      <4> HIDE DEF h
      <4> QED
        BY <3>1, <3>3, <4>2 DEF BranchBody
    <3> QED
      BY <3>2, <3>3
  <2> HIDE DEF h
  <2>5. UpTo(h, n + 1)
    BY <2>4 DEF UpTo
  <2> QED
    BY <2>3, <2>5
<1>4. Nat \subseteq H
  <2> HIDE DEF H
  <2> QED
    BY <1>2, <1>3, Induction
<1> QED
  BY <1>4

(* Branch is what its recursion says. *)
LEMMA BranchUnfolds ==
  \A b \in AllBlocks : Branch[b] = IF b = Genesis THEN <<b>> ELSE Append(Branch[Parent[b]], b)
<1> DEFINE part == [n \in Nat |-> CHOOSE g \in [AllBlocks -> Seq(AllBlocks)] : UpTo(g, n)]
           f == [b \in AllBlocks |-> part[Work[b]][b]]
<1>1. \A n \in Nat : UpTo(part[n], n)
  BY UpToExists
<1> HIDE DEF part
<1>2. ASSUME NEW m \in Nat, NEW n \in Nat
      PROVE  \A b \in AllBlocks : Work[b] <= m /\ Work[b] <= n => part[m][b] = part[n][b]
  <2> DEFINE Bad == {Work[b] : b \in {x \in AllBlocks : /\ Work[x] <= m /\ Work[x] <= n
                                                        /\ part[m][x] # part[n][x]}}
  <2> SUFFICES ASSUME Bad # {} PROVE FALSE
    OBVIOUS
  <2>1. Bad \in SUBSET Nat
    BY BlockFacts
  <2>2. PICK w \in Bad : \A v \in Bad : w <= v
    <3> HIDE DEF Bad
    <3> QED
      BY <2>1, NatMin
  <2>3. PICK b \in AllBlocks : /\ Work[b] = w /\ Work[b] <= m /\ Work[b] <= n
                               /\ part[m][b] # part[n][b]
    BY <2>2
  <2>4. part[m][b] = BranchBody(part[m], b) /\ part[n][b] = BranchBody(part[n], b)
    BY <1>1, <2>3 DEF UpTo
  <2>5. b # Genesis
    BY <2>3, <2>4 DEF BranchBody
  <2>6. part[m][Parent[b]] # part[n][Parent[b]]
    BY <2>3, <2>4, <2>5 DEF BranchBody
  <2>7. /\ Parent[b] \in AllBlocks /\ Work[Parent[b]] < Work[b]
        /\ Work[Parent[b]] \in Nat /\ Work[b] \in Nat
    BY <2>5, BlockFacts
  <2>8. Work[Parent[b]] <= m /\ Work[Parent[b]] <= n
    BY <2>3, <2>7
  <2>9. Work[Parent[b]] \in Bad
    BY <2>6, <2>7, <2>8
  <2> HIDE DEF Bad
  <2> QED
    BY <2>2, <2>3, <2>7, <2>9
<1>3. ASSUME NEW b \in AllBlocks PROVE f[b] = BranchBody(f, b)
  <2>1. f[b] = BranchBody(part[Work[b]], b)
    BY <1>1, BlockFacts DEF UpTo
  <2>2. CASE b = Genesis
    BY <2>1, <2>2 DEF BranchBody
  <2>3. CASE b # Genesis
    <3>1. /\ Parent[b] \in AllBlocks /\ Work[Parent[b]] < Work[b]
          /\ Work[Parent[b]] \in Nat /\ Work[b] \in Nat
      BY <2>3, BlockFacts
    <3>2. f[Parent[b]] = part[Work[b]][Parent[b]]
      BY <1>2, <3>1
    <3> HIDE DEF f
    <3> QED
      BY <2>1, <2>3, <3>2 DEF BranchBody
  <2> QED
    BY <2>2, <2>3
<1>4. f = [b \in AllBlocks |-> f[b]]
  OBVIOUS
<1> HIDE DEF f
<1>5. f = [b \in AllBlocks |-> IF b = Genesis THEN <<b>> ELSE Append(f[Parent[b]], b)]
  BY <1>3, <1>4 DEF BranchBody
<1>6. \E g : g = [b \in AllBlocks |-> IF b = Genesis THEN <<b>> ELSE Append(g[Parent[b]], b)]
  BY <1>5
<1>7. Branch = [b \in AllBlocks |-> IF b = Genesis THEN <<b>> ELSE Append(Branch[Parent[b]], b)]
  BY <1>6, Zenon DEF Branch
<1> QED
  BY <1>7

(* A branch starts at genesis, and genesis is nowhere else on it. *)
BranchShaped(s) ==
  s \in Seq(AllBlocks) /\ Len(s) >= 1 /\ s[1] = Genesis /\ \A i \in 2..Len(s) : s[i] \in Blocks

LEMMA BranchTyped == \A b \in AllBlocks : BranchShaped(Branch[b])
<1> DEFINE Bad == {Work[b] : b \in {x \in AllBlocks : ~BranchShaped(Branch[x])}}
<1> SUFFICES ASSUME Bad # {} PROVE FALSE
  OBVIOUS
<1>1. Bad \in SUBSET Nat
  BY BlockFacts
<1>2. PICK w \in Bad : \A v \in Bad : w <= v
  <2> HIDE DEF Bad
  <2> QED
    BY <1>1, NatMin
<1>3. PICK b \in AllBlocks : Work[b] = w /\ ~BranchShaped(Branch[b])
  BY <1>2
<1>4. CASE b = Genesis
  <2>1. Branch[b] = <<Genesis>>
    BY <1>4, BranchUnfolds
  <2>2. BranchShaped(<<Genesis>>)
    BY BlockFacts DEF BranchShaped
  <2> QED
    BY <1>3, <2>1, <2>2
<1>5. CASE b # Genesis
  <2>1. /\ b \in Blocks /\ Parent[b] \in AllBlocks /\ Work[Parent[b]] < Work[b]
        /\ Work[Parent[b]] \in Nat /\ Work[b] \in Nat
    BY <1>5, BlockFacts
  <2>2. BranchShaped(Branch[Parent[b]])
    BY <1>2, <1>3, <2>1
  <2>3. Branch[b] = Append(Branch[Parent[b]], b)
    BY <1>5, BranchUnfolds
  <2> DEFINE s == Branch[Parent[b]]
             t == Append(s, b)
  <2> HIDE DEF s
  <2>4. /\ t \in Seq(AllBlocks) /\ Len(t) = Len(s) + 1 /\ Len(s) \in Nat /\ t[Len(s) + 1] = b
        /\ \A i \in 1..Len(s) : t[i] = s[i]
    BY <2>2 DEF s, BranchShaped
  <2> HIDE DEF t
  <2>5. BranchShaped(t)
    BY <2>1, <2>2, <2>4, SMTT(20) DEF BranchShaped, s
  <2> QED
    BY <1>3, <2>3, <2>5 DEF s, t
<1> QED
  BY <1>4, <1>5

-----------------------------------------------------------------------------
(***************************************************************************)
(* Locators and responses.                                                 *)
(***************************************************************************)
IsWalk(walk, active) ==
  walk = [i \in 0..LocatorMax |->
            IF i = 0 THEN [at |-> Len(active), step |-> 1, hashes |-> <<>>]
            ELSE LET w == walk[i - 1]
                     s == IF i >= LocatorDense THEN 2 * w.step ELSE w.step
                 IN  IF w.at <= 1 THEN w
                     ELSE [at     |-> IF w.at > s THEN w.at - s ELSE 1,
                           step   |-> s,
                           hashes |-> Append(w.hashes, active[w.at])]]

LEMMA WalkExists ==
  ASSUME NEW b
  PROVE  \E walk : IsWalk(walk, Branch[b]) /\ SparseAncestors(b) = walk[LocatorMax].hashes
<1> DEFINE active == Branch[b]
           first == [at |-> Len(active), step |-> 1, hashes |-> <<>>]
           Step(w, i) == LET s == IF i >= LocatorDense THEN 2 * w.step ELSE w.step
                         IN  IF w.at <= 1 THEN w
                             ELSE [at     |-> IF w.at > s THEN w.at - s ELSE 1,
                                   step   |-> s,
                                   hashes |-> Append(w.hashes, active[w.at])]
           Body(g, i) == IF i = 0 THEN first ELSE Step(g[i - 1], i)
           H == {n \in Nat : \E g : g = [i \in 0..n |-> Body(g, i)]}
<1>1. 0 \in H
  <2> DEFINE g == [i \in 0..0 |-> first]
  <2> HIDE DEF first, Step
  <2>1. g = [i \in 0..0 |-> Body(g, i)]
    OBVIOUS
  <2> QED
    BY <2>1
<1>2. ASSUME NEW n \in Nat, n \in H PROVE n + 1 \in H
  <2> HIDE DEF first, Step
  <2>1. PICK g : g = [i \in 0..n |-> Body(g, i)]
    BY <1>2
  <2> DEFINE h == [i \in 0..(n + 1) |-> IF i <= n THEN g[i] ELSE Step(g[n], n + 1)]
  <2>2. (\A i \in 0..n : h[i] = g[i]) /\ h[n + 1] = Step(h[n], n + 1)
    OBVIOUS
  <2>3. \A i \in 0..n : g[i] = Body(g, i)
    <3> HIDE DEF Body
    <3> QED
      BY <2>1
  <2>4. h = [i \in 0..(n + 1) |-> h[i]]
    OBVIOUS
  <2> HIDE DEF h
  <2>5. \A i \in 0..n : h[i] = Body(h, i)
    <3>1. \A i \in 0..n : i # 0 => i - 1 \in 0..n
      OBVIOUS
    <3> QED
      BY <2>2, <2>3, <3>1
  <2>6. \A i \in 0..(n + 1) : h[i] = Body(h, i)
    <3>1. h[n + 1] = Body(h, n + 1)
      BY <2>2
    <3>2. \A i \in 0..(n + 1) : i \in 0..n \/ i = n + 1
      OBVIOUS
    <3> HIDE DEF Body
    <3> QED
      BY <2>5, <3>1, <3>2
  <2> HIDE DEF Body
  <2>7. h = [i \in 0..(n + 1) |-> Body(h, i)]
    BY <2>4, <2>6
  <2> QED
    BY <2>7
<1>3. Nat \subseteq H
  <2> HIDE DEF H
  <2> QED
    BY <1>1, <1>2, Induction
<1>4. \E g : g = [i \in 0..LocatorMax |-> Body(g, i)]
  <2> HIDE DEF Body
  <2> QED
    BY <1>3, PeerSyncAssumption DEF PeerSyncAssumption
<1> QED
  BY <1>4, Zenon DEF IsWalk, SparseAncestors

LEMMA LocatorTyped ==
  ASSUME NEW b \in AllBlocks
  PROVE  Locator(b) \in Seq(AllBlocks) /\ Genesis \in Range(Locator(b))
<1> DEFINE active == Branch[b]
           T == [at : 1..Len(active), step : Nat, hashes : Seq(AllBlocks)]
<1>1. PICK walk : IsWalk(walk, active) /\ SparseAncestors(b) = walk[LocatorMax].hashes
  BY WalkExists
<1>2. active \in Seq(AllBlocks) /\ Len(active) \in Nat /\ Len(active) >= 1
  BY BranchTyped DEF BranchShaped
<1>3. LocatorMax \in Nat
  BY PeerSyncAssumption DEF PeerSyncAssumption
<1> HIDE DEF active
<1> DEFINE H == {i \in Nat : i <= LocatorMax => walk[i] \in T}
<1>4. 0 \in H
  <2>1. walk[0] = [at |-> Len(active), step |-> 1, hashes |-> <<>>]
    BY <1>1, <1>3 DEF IsWalk
  <2>2. Len(active) \in 1..Len(active) /\ 1 \in Nat /\ <<>> \in Seq(AllBlocks)
    BY <1>2
  <2>3. walk[0] \in T
    BY <2>1, <2>2
  <2> QED
    BY <2>3
<1>5. ASSUME NEW i \in Nat, i \in H PROVE i + 1 \in H
  <2> SUFFICES ASSUME i + 1 <= LocatorMax PROVE walk[i + 1] \in T
    OBVIOUS
  <2> DEFINE w == walk[i]
             s == IF i + 1 >= LocatorDense THEN 2 * w.step ELSE w.step
  <2>1. w \in T
    BY <1>3, <1>5
  <2>2. walk[i + 1] = IF w.at <= 1 THEN w
                      ELSE [at     |-> IF w.at > s THEN w.at - s ELSE 1,
                            step   |-> s,
                            hashes |-> Append(w.hashes, active[w.at])]
    <3>1. i + 1 \in 0..LocatorMax /\ i + 1 # 0 /\ (i + 1) - 1 = i
      BY <1>3
    <3> QED
      BY <1>1, <3>1 DEF IsWalk
  <2> HIDE DEF w
  <2>3. s \in Nat
    BY <2>1
  <2> HIDE DEF s
  <2>4. w.at \in 1..Len(active) /\ active[w.at] \in AllBlocks /\ w.hashes \in Seq(AllBlocks)
    BY <1>2, <2>1
  <2>5. (IF w.at > s THEN w.at - s ELSE 1) \in 1..Len(active)
    BY <1>2, <2>3, <2>4
  <2> QED
    BY <2>1, <2>2, <2>3, <2>4, <2>5
<1>6. Nat \subseteq H
  <2> HIDE DEF H
  <2> QED
    BY <1>4, <1>5, Induction
<1>7. SparseAncestors(b) \in Seq(AllBlocks)
  BY <1>1, <1>3, <1>6
<1> DEFINE l == SparseAncestors(b)
<1> HIDE DEF l
<1>8. /\ Append(l, Genesis) \in Seq(AllBlocks)
      /\ Append(l, Genesis)[Len(l) + 1] = Genesis /\ Len(l) + 1 \in DOMAIN Append(l, Genesis)
  BY <1>7, BlockFacts DEF l
<1> QED
  BY <1>8 DEF Locator, l, Range

(* A response to a locator with genesis in it starts after genesis. *)
LEMMA BatchTyped ==
  ASSUME NEW b \in AllBlocks, NEW l \in Seq(AllBlocks), Genesis \in Range(l)
  PROVE  BatchFor(b, l) \in Seq(Blocks)
<1> DEFINE active == Branch[b]
           common == {i \in DOMAIN l : \E k \in DOMAIN active : active[k] = l[i]}
           first == CHOOSE i \in common : \A j \in common : i <= j
           at == CommonIndex(active, l)
           last == IF at + MaxBlocksPerResponse < Len(active)
                     THEN at + MaxBlocksPerResponse ELSE Len(active)
<1>1. /\ active \in Seq(AllBlocks) /\ Len(active) \in Nat /\ Len(active) >= 1
      /\ active[1] = Genesis /\ \A i \in 2..Len(active) : active[i] \in Blocks
  BY BranchTyped DEF BranchShaped
<1> HIDE DEF active
<1>2. PICK i \in DOMAIN l : l[i] = Genesis
  BY DEF Range
<1>3. i \in common /\ common \in SUBSET Nat
  BY <1>1, <1>2
<1>4. \E x \in common : \A y \in common : x <= y
  <2> HIDE DEF common
  <2> QED
    BY <1>3, NatMin
<1>5. first \in common
  BY <1>4
<1>6. \E k \in DOMAIN active : active[k] = l[first]
  BY <1>5
<1>7. at \in 1..Len(active)
  <2>1. at = CHOOSE k \in DOMAIN active : active[k] = l[first]
    BY DEF CommonIndex
  <2> HIDE DEF at, first
  <2>2. at \in DOMAIN active
    BY <1>6, <2>1
  <2> QED
    BY <1>1, <2>2
<1>8. MaxBlocksPerResponse \in Nat
  BY PeerSyncAssumption DEF PeerSyncAssumption
<1> HIDE DEF at, common, first
<1>9. at + 1 \in 2..(Len(active) + 1) /\ last \in Nat /\ last <= Len(active)
  BY <1>1, <1>7, <1>8
<1> HIDE DEF last
<1>10. SubSeq(active, at + 1, last) \in Seq(Blocks)
  <2> DEFINE n == IF at + 1 <= last THEN last - at ELSE 0
             t == [j \in 1..n |-> active[at + j]]
  <2>1. n \in Nat /\ \A j \in 1..n : at + j \in 2..Len(active)
    BY <1>1, <1>7, <1>9
  <2>2. \A j \in 1..n : active[at + j] \in Blocks
    BY <1>1, <2>1
  <2>3. SubSeq(active, at + 1, last) = t
    BY <1>1, <1>7, <1>9
  <2> HIDE DEF n
  <2>4. t \in [1..n -> Blocks]
    BY <2>2
  <2>5. t \in Seq(Blocks)
    BY <2>1, <2>4
  <2> QED
    BY <2>3, <2>5
<1> QED
  BY <1>10 DEF BatchFor, at, last, active

-----------------------------------------------------------------------------
(***************************************************************************)
(* Streams.                                                                *)
(***************************************************************************)
(* The frames of correct nodes: a locator names genesis, so that every
   request finds a common block. *)
Locators == {l \in Seq(AllBlocks) : Genesis \in Range(l)}
SoundFrames ==
  [type : {"HELLO", "SYNC_COMPLETE"}, tip : AllBlocks]
  \cup [type : {"BLOCK"}, block : Blocks]
  \cup [type : {"GET_BLOCKS"}, locator : Locators]
  \cup {EndOfStream}

Streams == [Pairs -> Seq(SoundFrames)]

LEMMA FramesMade ==
  /\ \A b \in AllBlocks : /\ HelloFrame(b) \in SoundFrames /\ HelloFrame(b).type = "HELLO"
                          /\ SyncCompleteFrame(b) \in SoundFrames
                          /\ SyncCompleteFrame(b).type = "SYNC_COMPLETE"
                          /\ GetBlocksFrame(Locator(b)) \in SoundFrames
                          /\ GetBlocksFrame(Locator(b)).type = "GET_BLOCKS"
  /\ \A b \in Blocks : BlockFrame(b) \in SoundFrames /\ BlockFrame(b).type = "BLOCK"
  /\ EndOfStream \in SoundFrames /\ EndOfStream.type = "EOF"
<1>1. \A b \in AllBlocks : Locator(b) \in Locators
  BY LocatorTyped DEF Locators
<1> QED
  BY <1>1 DEF SoundFrames, HelloFrame, SyncCompleteFrame, GetBlocksFrame, BlockFrame, EndOfStream

LEMMA FramesRead ==
  ASSUME NEW f \in SoundFrames
  PROVE  /\ f.type \in {"HELLO", "SYNC_COMPLETE"} => f.tip \in AllBlocks
         /\ f.type = "BLOCK" => f.block \in Blocks
         /\ f.type = "GET_BLOCKS" => f.locator \in Locators
BY DEF SoundFrames, EndOfStream

LEMMA FramesTyped == Seq(SoundFrames) \subseteq Seq(Frames)
<1>1. SoundFrames \subseteq Frames
  BY DEF SoundFrames, Frames, Locators
<1> SUFFICES ASSUME NEW w \in Seq(SoundFrames) PROVE w \in Seq(Frames)
  OBVIOUS
<1>2. Len(w) \in Nat /\ w \in [1..Len(w) -> SoundFrames]
  OBVIOUS
<1>3. w \in [1..Len(w) -> Frames]
  BY <1>1, <1>2
<1> HIDE DEF SoundFrames, Frames
<1> QED
  BY <1>2, <1>3

LEMMA PairFacts ==
  ASSUME NEW n, NEW m, <<n, m>> \in Pairs
  PROVE  n \in Nodes /\ m \in Nodes /\ n # m /\ <<m, n>> \in Pairs /\ <<n, m>> # <<m, n>>
BY DEF Pairs

(* Every operation writes at most one frame. *)
Few(fs) == fs = <<>> \/ \E f \in SoundFrames : fs = <<f>>
Sum(fs, type) == IF fs = <<>> THEN 0 ELSE One(fs[1], type)
Bit(x) == IF x THEN 1 ELSE 0

LEMMA WrittenEffects ==
  ASSUME NEW w \in Streams, NEW n, NEW m, <<n, m>> \in Pairs, NEW fs, Few(fs),
         NEW v, v = Written(w, n, m, fs)
  PROVE  /\ v \in Streams
         /\ \A x \in Pairs : x # <<n, m>> => v[x] = w[x]
         /\ phase[<<m, n>>] = "closed" => v = w
         /\ phase[<<m, n>>] # "closed" =>
              \A type : Counted(v[<<n, m>>], type) = Counted(w[<<n, m>>], type) + Sum(fs, type)
<1> DEFINE s == w[<<n, m>>]
<1>1. s \in Seq(SoundFrames)
  BY DEF Streams
<1>2. CASE phase[<<m, n>>] = "closed"
  BY <1>2 DEF Written
<1>3. CASE phase[<<m, n>>] # "closed" /\ fs = <<>>
  <2>1. s \o fs = s
    BY <1>1, <1>3
  <2>2. v = w
    BY <1>3, <2>1 DEF Written, Streams
  <2>3. \A type : Counted(s, type) \in Nat
    BY <1>1, CountIsNatural
  <2> HIDE DEF s
  <2> QED
    BY <1>3, <2>2, <2>3 DEF Sum, s
<1>4. ASSUME phase[<<m, n>>] # "closed", NEW f \in SoundFrames, fs = <<f>>
      PROVE  /\ v \in Streams
             /\ \A x \in Pairs : x # <<n, m>> => v[x] = w[x]
             /\ \A type : Counted(v[<<n, m>>], type) = Counted(s, type) + Sum(fs, type)
  <2> HIDE DEF s
  <2>1. s \o fs = Append(s, f) /\ Append(s, f) \in Seq(SoundFrames)
    BY <1>1, <1>4
  <2>2. v = [w EXCEPT ![<<n, m>>] = Append(s, f)]
    BY <1>4, <2>1 DEF Written, s
  <2>3. fs # <<>> /\ fs[1] = f
    BY <1>4
  <2>4. v \in Streams /\ v[<<n, m>>] = Append(s, f) /\ \A x \in Pairs : x # <<n, m>> => v[x] = w[x]
    BY <2>1, <2>2 DEF Streams
  <2>5. \A type : Counted(Append(s, f), type) = Counted(s, type) + One(f, type)
    BY <1>1, <1>4, CountAppend
  <2> QED
    BY <2>3, <2>4, <2>5 DEF Sum
<1> QED
  BY <1>2, <1>3, <1>4 DEF Few

(* What is left on the streams when the end takes a frame or none. *)
Moved(n, m, w, took) ==
  \/ w = wire /\ took = "none"
  \/ wire[<<m, n>>] # <<>> /\ w = Taken(n, m) /\ took = Head(wire[<<m, n>>]).type

LEMMA MovedEffects ==
  ASSUME wire \in Streams, NEW n, NEW m, <<n, m>> \in Pairs,
         NEW w, NEW took, Moved(n, m, w, took)
  PROVE  /\ w \in Streams
         /\ \A x \in Pairs : x # <<m, n>> => w[x] = wire[x]
         /\ took = "none" => w = wire
         /\ \A type \in {"GET_BLOCKS", "SYNC_COMPLETE"} :
              Counted(w[<<m, n>>], type) = Counted(wire[<<m, n>>], type) - Bit(took = type)
<1> DEFINE s == wire[<<m, n>>]
<1>1. s \in Seq(SoundFrames) /\ <<m, n>> \in Pairs
  BY PairFacts DEF Streams
<1>2. \A type : Counted(s, type) \in Nat
  BY <1>1, CountIsNatural
<1>3. CASE w = wire /\ took = "none"
  BY <1>2, <1>3 DEF Bit
<1>4. CASE s # <<>> /\ w = Taken(n, m) /\ took = Head(s).type
  <2>1. w = [wire EXCEPT ![<<m, n>>] = Tail(s)]
    BY <1>4 DEF Taken
  <2> HIDE DEF s
  <2>2. Tail(s) \in Seq(SoundFrames) /\ Head(s) \in SoundFrames
    BY <1>1, <1>4
  <2>3. w \in Streams /\ w[<<m, n>>] = Tail(s) /\ \A x \in Pairs : x # <<m, n>> => w[x] = wire[x]
    BY <1>1, <2>1, <2>2 DEF Streams
  <2>4. \A type : Counted(Tail(s), type) = Counted(s, type) - One(Head(s), type)
    BY <1>1, <1>4, CountTail
  <2>5. took # "none"
    BY <1>4, <2>2 DEF SoundFrames, EndOfStream
  <2> QED
    BY <1>4, <2>3, <2>4, <2>5 DEF Bit, One, s
<1> QED
  BY <1>3, <1>4 DEF Moved, s
-----------------------------------------------------------------------------
(***************************************************************************)
(* The invariant.  An end that is not ready has asked for nothing and      *)
(* answers nothing, nothing is on its way to an end that is closed, and    *)
(* while both ends are open the request of either is accounted for: it is  *)
(* a question, a response in progress or a summary.                        *)
(***************************************************************************)
Phases   == {"closed", "started", "greeted", "ready"}
Requests == [outstanding : BOOLEAN, accepted : Nat, startWork : Nat]
Batches  == [active : BOOLEAN, blocks : Seq(Blocks)]
Relays   == Seq([block : Blocks, via : Nodes \cup {NoNode}])

NodesTyped ==
  /\ network \in Network
  /\ known \in [Nodes -> SUBSET AllBlocks] /\ tip \in [Nodes -> AllBlocks]
  /\ penalized \subseteq Pairs
  /\ dials \in 0..network.maxDials /\ drops \in 0..network.maxDrops
  /\ relay \in [Pairs -> Relays]

EndsTyped ==
  /\ phase \in [Pairs -> Phases]
  /\ peerTip \in [Pairs -> AllBlocks \cup {NoBlock}]
  /\ request \in [Pairs -> Requests]
  /\ batch \in [Pairs -> Batches]
  /\ wire \in Streams

Clean ==
  \A n, m \in Nodes : <<n, m>> \in Pairs =>
    /\ phase[<<n, m>>] # "ready" =>
         request[<<n, m>>] = NoRequest /\ batch[<<n, m>>] = NoBatch
    /\ phase[<<n, m>>] = "closed" => wire[<<m, n>>] = <<>>

Open(n, m) == phase[<<n, m>>] # "closed" /\ phase[<<m, n>>] # "closed"

Accounted(n, m) ==
  Counted(wire[<<n, m>>], "GET_BLOCKS") + Bit(batch[<<m, n>>].active)
    + Counted(wire[<<m, n>>], "SYNC_COMPLETE")
  = Bit(request[<<n, m>>].outstanding)

Balanced == \A n, m \in Nodes : <<n, m>> \in Pairs /\ Open(n, m) => Accounted(n, m)

IInv == NodesTyped /\ EndsTyped /\ Clean /\ Balanced

LEMMA NothingTyped ==
  NoRequest \in Requests /\ ~NoRequest.outstanding /\ NoBatch \in Batches /\ ~NoBatch.active
BY DEF NoRequest, Requests, NoBatch, Batches

LEMMA InitIInv == Init => IInv
<1> SUFFICES ASSUME Init PROVE IInv
  OBVIOUS
<1>1. network \in Network
  BY PeerSyncAssumption DEF Init, PeerSyncAssumption
<1>2. NodesTyped
  <2>1. known \in [Nodes -> SUBSET AllBlocks]
    BY <1>1 DEF Init, Network, AllBlocks
  <2>2. dials \in 0..network.maxDials /\ drops \in 0..network.maxDrops
    BY <1>1 DEF Init, Network
  <2>3. relay \in [Pairs -> Relays]
    BY DEF Init, Relays
  <2> QED
    BY <1>1, <2>1, <2>2, <2>3 DEF Init, NodesTyped
<1>3. EndsTyped
  BY NothingTyped DEF Init, EndsTyped, Phases, Streams
<1>4. Clean
  BY PairFacts DEF Init, Clean
<1>5. Balanced
  BY DEF Init, Balanced, Open
<1> QED
  BY <1>2, <1>3, <1>4, <1>5 DEF IInv

(* A step of the end of n towards m that does not open or close it: it takes at
   most one frame, writes at most one, and keeps its accounts.  at, q and bt
   are its new phase, request and response. *)
EndMoves(n, m, at, q, bt, w, took, fs) ==
  /\ <<n, m>> \in Pairs
  /\ at \in Phases /\ q \in Requests /\ bt \in Batches
  /\ phase'   = [phase   EXCEPT ![<<n, m>>] = at]
  /\ request' = [request EXCEPT ![<<n, m>>] = q]
  /\ batch'   = [batch   EXCEPT ![<<n, m>>] = bt]
  /\ wire'    = Written(w, n, m, fs)
  /\ peerTip' \in [Pairs -> AllBlocks \cup {NoBlock}]
  /\ Moved(n, m, w, took) /\ Few(fs)
  /\ at = "closed" <=> phase[<<n, m>>] = "closed"
  /\ at = "closed" => took = "none"
  /\ at # "ready" => q = NoRequest /\ bt = NoBatch
  /\ Open(n, m) =>
       /\ Bit(q.outstanding) + Bit(took = "SYNC_COMPLETE") =
            Bit(request[<<n, m>>].outstanding) + Sum(fs, "GET_BLOCKS")
       /\ Bit(bt.active) + Sum(fs, "SYNC_COMPLETE") =
            Bit(batch[<<n, m>>].active) + Bit(took = "GET_BLOCKS")

LEMMA EndStep ==
  ASSUME IInv, NEW n, NEW m, NEW at, NEW q, NEW bt, NEW w, NEW took, NEW fs,
         EndMoves(n, m, at, q, bt, w, took, fs)
  PROVE  EndsTyped' /\ Clean' /\ Balanced'
<1> USE DEF EndMoves
<1>1. /\ n \in Nodes /\ m \in Nodes /\ n # m /\ <<m, n>> \in Pairs /\ <<n, m>> # <<m, n>>
  BY PairFacts
<1>2. wire \in Streams
  BY DEF IInv, EndsTyped
<1>3. /\ w \in Streams
      /\ \A x \in Pairs : x # <<m, n>> => w[x] = wire[x]
      /\ took = "none" => w = wire
      /\ \A type \in {"GET_BLOCKS", "SYNC_COMPLETE"} :
           Counted(w[<<m, n>>], type) = Counted(wire[<<m, n>>], type) - Bit(took = type)
  BY <1>2, MovedEffects
<1>4. /\ wire' \in Streams
      /\ \A x \in Pairs : x # <<n, m>> => wire'[x] = w[x]
      /\ phase[<<m, n>>] = "closed" => wire' = w
      /\ phase[<<m, n>>] # "closed" =>
           \A type : Counted(wire'[<<n, m>>], type) = Counted(w[<<n, m>>], type) + Sum(fs, type)
  BY <1>3, WrittenEffects
<1>5. /\ phase'[<<n, m>>] = at /\ \A x \in Pairs : x # <<n, m>> => phase'[x] = phase[x]
      /\ request'[<<n, m>>] = q /\ \A x \in Pairs : x # <<n, m>> => request'[x] = request[x]
      /\ batch'[<<n, m>>] = bt /\ \A x \in Pairs : x # <<n, m>> => batch'[x] = batch[x]
  BY DEF IInv, EndsTyped
<1>6. \A x \in Pairs : x # <<n, m>> /\ x # <<m, n>> => wire'[x] = wire[x]
  BY <1>3, <1>4
<1>7. EndsTyped'
  BY <1>4 DEF IInv, EndsTyped
<1>8. Clean'
  <2> SUFFICES ASSUME NEW i \in Nodes, NEW j \in Nodes, <<i, j>> \in Pairs
               PROVE  /\ phase'[<<i, j>>] # "ready" =>
                           request'[<<i, j>>] = NoRequest /\ batch'[<<i, j>>] = NoBatch
                      /\ phase'[<<i, j>>] = "closed" => wire'[<<j, i>>] = <<>>
    BY DEF Clean
  <2>1. <<j, i>> \in Pairs
    BY PairFacts
  <2>2. /\ phase[<<i, j>>] # "ready" =>
             request[<<i, j>>] = NoRequest /\ batch[<<i, j>>] = NoBatch
        /\ phase[<<i, j>>] = "closed" => wire[<<j, i>>] = <<>>
    BY DEF IInv, Clean
  <2>3. CASE i = n /\ j = m
    <3>1. at = "closed" => wire'[<<m, n>>] = wire[<<m, n>>]
      BY <1>1, <1>3, <1>4
    <3> QED
      BY <1>5, <2>2, <2>3, <3>1
  <2>4. CASE i = m /\ j = n
    <3>1. phase[<<m, n>>] = "closed" => wire'[<<n, m>>] = wire[<<n, m>>]
      BY <1>1, <1>3, <1>4
    <3> QED
      BY <1>1, <1>5, <2>2, <2>4, <3>1
  <2>5. CASE <<i, j>> # <<n, m>> /\ <<i, j>> # <<m, n>>
    <3>1. <<j, i>> # <<n, m>> /\ <<j, i>> # <<m, n>>
      BY <2>5
    <3> QED
      BY <1>5, <1>6, <2>1, <2>2, <2>5, <3>1
  <2> QED
    BY <2>3, <2>4, <2>5
<1>9. Balanced'
  <2> SUFFICES ASSUME NEW i \in Nodes, NEW j \in Nodes, <<i, j>> \in Pairs, Open(i, j)'
               PROVE  Accounted(i, j)'
    BY DEF Balanced
  <2>1. <<j, i>> \in Pairs
    BY PairFacts
  <2>2. Open(i, j)
    BY <1>1, <1>5, <2>1 DEF Open
  <2>3. Accounted(i, j)
    BY <2>2 DEF IInv, Balanced
  <2>4. /\ Counted(wire[<<n, m>>], "GET_BLOCKS") \in Nat
        /\ Counted(wire[<<n, m>>], "SYNC_COMPLETE") \in Nat
        /\ Counted(wire[<<m, n>>], "GET_BLOCKS") \in Nat
        /\ Counted(wire[<<m, n>>], "SYNC_COMPLETE") \in Nat
    <3>1. wire[<<n, m>>] \in Seq(SoundFrames) /\ wire[<<m, n>>] \in Seq(SoundFrames)
      BY <1>1, <1>2 DEF Streams
    <3> QED
      BY <3>1, CountIsNatural
  <2>5. \A x : Bit(x) \in {0, 1}
    BY DEF Bit
  <2>6. \A type : Sum(fs, type) \in {0, 1}
    BY DEF Sum, One
  <2>7. CASE i = n /\ j = m
    <3>1. Open(n, m) /\ phase[<<m, n>>] # "closed"
      BY <2>2, <2>7 DEF Open
    <3>2. Counted(wire'[<<n, m>>], "GET_BLOCKS")
            = Counted(wire[<<n, m>>], "GET_BLOCKS") + Sum(fs, "GET_BLOCKS")
      BY <1>1, <1>3, <1>4, <3>1
    <3>3. Counted(wire'[<<m, n>>], "SYNC_COMPLETE")
            = Counted(wire[<<m, n>>], "SYNC_COMPLETE") - Bit(took = "SYNC_COMPLETE")
      BY <1>1, <1>3, <1>4
    <3>4. batch'[<<m, n>>] = batch[<<m, n>>] /\ request'[<<n, m>>] = q
      BY <1>1, <1>5
    <3>5. Bit(q.outstanding) + Bit(took = "SYNC_COMPLETE") =
            Bit(request[<<n, m>>].outstanding) + Sum(fs, "GET_BLOCKS")
      BY <3>1
    <3>6. Counted(wire[<<n, m>>], "GET_BLOCKS") + Bit(batch[<<m, n>>].active)
            + Counted(wire[<<m, n>>], "SYNC_COMPLETE") = Bit(request[<<n, m>>].outstanding)
      BY <2>3, <2>7 DEF Accounted
    <3> DEFINE A == Counted(wire[<<n, m>>], "GET_BLOCKS")
               B == Counted(wire[<<m, n>>], "SYNC_COMPLETE")
               C == Bit(batch[<<m, n>>].active)
               D == Bit(request[<<n, m>>].outstanding)
               CC == Bit(batch'[<<m, n>>].active)
               DD == Bit(request'[<<n, m>>].outstanding)
    <3>7. /\ A \in Nat /\ B \in Nat /\ C \in {0, 1} /\ D \in {0, 1} /\ CC \in {0, 1} /\ DD \in {0, 1}
          /\ A + C + B = D
      BY <2>4, <2>5, <3>6
    <3> DEFINE g == Sum(fs, "GET_BLOCKS")
               t == Bit(took = "SYNC_COMPLETE")
    <3>8. CC = C /\ DD + t = D + g /\ g \in {0, 1} /\ t \in {0, 1}
      BY <2>5, <2>6, <3>4, <3>5
    <3> HIDE DEF A, B, C, D, CC, DD, g, t
    <3>9. (A + g) + CC + (B - t) = DD
      BY <3>7, <3>8
    <3> QED
      BY <2>7, <3>2, <3>3, <3>9 DEF Accounted, A, B, CC, DD, g, t
  <2>8. CASE i = m /\ j = n
    <3>1. Open(n, m) /\ phase[<<m, n>>] # "closed"
      BY <2>2, <2>8 DEF Open
    <3>2. Counted(wire'[<<n, m>>], "SYNC_COMPLETE")
            = Counted(wire[<<n, m>>], "SYNC_COMPLETE") + Sum(fs, "SYNC_COMPLETE")
      BY <1>1, <1>3, <1>4, <3>1
    <3>3. Counted(wire'[<<m, n>>], "GET_BLOCKS")
            = Counted(wire[<<m, n>>], "GET_BLOCKS") - Bit(took = "GET_BLOCKS")
      BY <1>1, <1>3, <1>4
    <3>4. batch'[<<n, m>>] = bt /\ request'[<<m, n>>] = request[<<m, n>>]
      BY <1>1, <1>5
    <3>5. Bit(bt.active) + Sum(fs, "SYNC_COMPLETE") =
            Bit(batch[<<n, m>>].active) + Bit(took = "GET_BLOCKS")
      BY <3>1
    <3>6. Counted(wire[<<m, n>>], "GET_BLOCKS") + Bit(batch[<<n, m>>].active)
            + Counted(wire[<<n, m>>], "SYNC_COMPLETE") = Bit(request[<<m, n>>].outstanding)
      BY <2>3, <2>8 DEF Accounted
    <3> DEFINE A == Counted(wire[<<m, n>>], "GET_BLOCKS")
               B == Counted(wire[<<n, m>>], "SYNC_COMPLETE")
               C == Bit(batch[<<n, m>>].active)
               D == Bit(request[<<m, n>>].outstanding)
               CC == Bit(batch'[<<n, m>>].active)
               DD == Bit(request'[<<m, n>>].outstanding)
    <3>7. /\ A \in Nat /\ B \in Nat /\ C \in {0, 1} /\ D \in {0, 1} /\ CC \in {0, 1} /\ DD \in {0, 1}
          /\ A + C + B = D
      BY <2>4, <2>5, <3>6
    <3> DEFINE g == Sum(fs, "SYNC_COMPLETE")
               t == Bit(took = "GET_BLOCKS")
    <3>8. DD = D /\ CC + g = C + t /\ g \in {0, 1} /\ t \in {0, 1}
      BY <2>5, <2>6, <3>4, <3>5
    <3> HIDE DEF A, B, C, D, CC, DD, g, t
    <3>9. (A - t) + CC + (B + g) = DD
      BY <3>7, <3>8
    <3> QED
      BY <2>8, <3>2, <3>3, <3>9 DEF Accounted, A, B, CC, DD, g, t
  <2>9. CASE <<i, j>> # <<n, m>> /\ <<i, j>> # <<m, n>>
    <3>1. <<j, i>> # <<n, m>> /\ <<j, i>> # <<m, n>>
      BY <2>9
    <3>2. /\ wire'[<<i, j>>] = wire[<<i, j>>] /\ wire'[<<j, i>>] = wire[<<j, i>>]
          /\ batch'[<<j, i>>] = batch[<<j, i>>] /\ request'[<<i, j>>] = request[<<i, j>>]
      BY <1>5, <1>6, <2>1, <2>9, <3>1
    <3> QED
      BY <2>3, <3>2 DEF Accounted
  <2> QED
    BY <2>7, <2>8, <2>9
<1> QED
  BY <1>7, <1>8, <1>9

(* An end that closes. *)
LEMMA CloseStep ==
  ASSUME IInv, NEW n, NEW m, <<n, m>> \in Pairs,
         NEW w, NEW took, Moved(n, m, w, took), Close(n, m, w)
  PROVE  EndsTyped' /\ Clean' /\ Balanced' /\ relay' \in [Pairs -> Relays]
<1> DEFINE v == Written(w, n, m, <<EndOfStream>>)
<1>1. /\ n \in Nodes /\ m \in Nodes /\ n # m /\ <<m, n>> \in Pairs /\ <<n, m>> # <<m, n>>
  BY PairFacts
<1>2. /\ w \in Streams /\ \A x \in Pairs : x # <<m, n>> => w[x] = wire[x]
  <2>1. wire \in Streams
    BY DEF IInv, EndsTyped
  <2>2. /\ w \in Streams
        /\ \A x \in Pairs : x # <<m, n>> => w[x] = wire[x]
        /\ took = "none" => w = wire
        /\ \A type \in {"GET_BLOCKS", "SYNC_COMPLETE"} :
             Counted(w[<<m, n>>], type) = Counted(wire[<<m, n>>], type) - Bit(took = type)
    BY <2>1, MovedEffects
  <2> QED
    BY <2>2
<1>3. /\ v \in Streams /\ \A x \in Pairs : x # <<n, m>> => v[x] = w[x]
      /\ phase[<<m, n>>] = "closed" => v = w
  <2>1. Few(<<EndOfStream>>)
    BY FramesMade DEF Few
  <2> QED
    BY <1>2, <2>1, WrittenEffects
<1>4. wire' = [v EXCEPT ![<<m, n>>] = <<>>]
  BY DEF Close, ClosedEnd
<1> HIDE DEF v
<1>5. /\ wire' \in Streams /\ wire'[<<m, n>>] = <<>>
      /\ \A x \in Pairs : x # <<n, m>> /\ x # <<m, n>> => wire'[x] = wire[x]
      /\ phase[<<m, n>>] = "closed" => wire'[<<n, m>>] = wire[<<n, m>>]
  BY <1>1, <1>2, <1>3, <1>4 DEF Streams
<1>6. /\ phase'[<<n, m>>] = "closed" /\ \A x \in Pairs : x # <<n, m>> => phase'[x] = phase[x]
      /\ request'[<<n, m>>] = NoRequest
      /\ \A x \in Pairs : x # <<n, m>> => request'[x] = request[x]
      /\ batch'[<<n, m>>] = NoBatch /\ \A x \in Pairs : x # <<n, m>> => batch'[x] = batch[x]
  BY DEF Close, IInv, EndsTyped
<1>7. EndsTyped' /\ relay' \in [Pairs -> Relays]
  <2>1. phase' \in [Pairs -> Phases] /\ peerTip' \in [Pairs -> AllBlocks \cup {NoBlock}]
    BY DEF Close, IInv, EndsTyped, Phases
  <2>2. request' \in [Pairs -> Requests] /\ batch' \in [Pairs -> Batches]
    BY NothingTyped DEF Close, IInv, EndsTyped
  <2>3. relay' \in [Pairs -> Relays]
    <3>1. <<>> \in Relays
      BY DEF Relays
    <3> QED
      BY <3>1 DEF Close, IInv, NodesTyped
  <2> QED
    BY <1>5, <2>1, <2>2, <2>3 DEF EndsTyped
<1>8. Clean'
  <2> SUFFICES ASSUME NEW i \in Nodes, NEW j \in Nodes, <<i, j>> \in Pairs
               PROVE  /\ phase'[<<i, j>>] # "ready" =>
                           request'[<<i, j>>] = NoRequest /\ batch'[<<i, j>>] = NoBatch
                      /\ phase'[<<i, j>>] = "closed" => wire'[<<j, i>>] = <<>>
    BY DEF Clean
  <2>1. <<j, i>> \in Pairs
    BY PairFacts
  <2>2. /\ phase[<<i, j>>] # "ready" =>
             request[<<i, j>>] = NoRequest /\ batch[<<i, j>>] = NoBatch
        /\ phase[<<i, j>>] = "closed" => wire[<<j, i>>] = <<>>
    BY DEF IInv, Clean
  <2>3. CASE i = n /\ j = m
    BY <1>5, <1>6, <2>3
  <2>4. CASE i = m /\ j = n
    BY <1>1, <1>5, <1>6, <2>2, <2>4
  <2>5. CASE <<i, j>> # <<n, m>> /\ <<i, j>> # <<m, n>>
    <3>1. <<j, i>> # <<n, m>> /\ <<j, i>> # <<m, n>>
      BY <2>5
    <3> QED
      BY <1>5, <1>6, <2>1, <2>2, <2>5, <3>1
  <2> QED
    BY <2>3, <2>4, <2>5
<1>9. Balanced'
  <2> SUFFICES ASSUME NEW i \in Nodes, NEW j \in Nodes, <<i, j>> \in Pairs, Open(i, j)'
               PROVE  Accounted(i, j)'
    BY DEF Balanced
  <2>1. <<j, i>> \in Pairs /\ phase'[<<i, j>>] # "closed" /\ phase'[<<j, i>>] # "closed"
    BY PairFacts DEF Open
  <2>2. /\ <<i, j>> # <<n, m>> /\ <<i, j>> # <<m, n>>
        /\ <<j, i>> # <<n, m>> /\ <<j, i>> # <<m, n>>
    BY <1>6, <2>1
  <2>3. /\ wire'[<<i, j>>] = wire[<<i, j>>] /\ wire'[<<j, i>>] = wire[<<j, i>>]
        /\ batch'[<<j, i>>] = batch[<<j, i>>] /\ request'[<<i, j>>] = request[<<i, j>>]
        /\ phase'[<<i, j>>] = phase[<<i, j>>] /\ phase'[<<j, i>>] = phase[<<j, i>>]
    BY <1>5, <1>6, <2>1, <2>2
  <2>4. Accounted(i, j)
    BY <2>1, <2>3 DEF IInv, Balanced, Open
  <2> QED
    BY <2>3, <2>4 DEF Accounted
<1> QED
  BY <1>7, <1>8, <1>9
-----------------------------------------------------------------------------
(***************************************************************************)
(* The actions, one lemma each.                                            *)
(***************************************************************************)
LEMMA SameTable == \A S, f, x : f \in [Pairs -> S] => [f EXCEPT ![x] = f[x]] = f
OBVIOUS

(* What a pair of ends holds. *)
LEMMA EndFacts ==
  ASSUME IInv, NEW n, NEW m, <<n, m>> \in Pairs
  PROVE  /\ n \in Nodes /\ tip[n] \in AllBlocks /\ LocalWork(n) \in Nat
         /\ phase[<<n, m>>] \in Phases
         /\ request[<<n, m>>] \in Requests /\ batch[<<n, m>>] \in Batches
         /\ phase = [phase EXCEPT ![<<n, m>>] = phase[<<n, m>>]]
         /\ request = [request EXCEPT ![<<n, m>>] = request[<<n, m>>]]
         /\ batch = [batch EXCEPT ![<<n, m>>] = batch[<<n, m>>]]
         /\ peerTip \in [Pairs -> AllBlocks \cup {NoBlock}]
         /\ phase[<<n, m>>] # "ready" =>
              request[<<n, m>>] = NoRequest /\ batch[<<n, m>>] = NoBatch
<1>1. /\ n \in Nodes /\ m \in Nodes
      /\ phase \in [Pairs -> Phases] /\ request \in [Pairs -> Requests]
      /\ batch \in [Pairs -> Batches] /\ tip \in [Nodes -> AllBlocks]
      /\ peerTip \in [Pairs -> AllBlocks \cup {NoBlock}]
  BY PairFacts DEF IInv, NodesTyped, EndsTyped
<1>2. tip[n] \in AllBlocks /\ LocalWork(n) \in Nat
  BY <1>1, BlockFacts DEF LocalWork
<1>3. /\ phase = [phase EXCEPT ![<<n, m>>] = phase[<<n, m>>]]
      /\ request = [request EXCEPT ![<<n, m>>] = request[<<n, m>>]]
      /\ batch = [batch EXCEPT ![<<n, m>>] = batch[<<n, m>>]]
  BY <1>1, SameTable
<1>4. phase[<<n, m>>] # "ready" =>
        request[<<n, m>>] = NoRequest /\ batch[<<n, m>>] = NoBatch
  BY <1>1 DEF IInv, Clean
<1> QED
  BY <1>1, <1>2, <1>3, <1>4

(* The frame an end takes. *)
LEMMA HeadFrame ==
  ASSUME IInv, NEW n, NEW m, <<n, m>> \in Pairs, NEW type, Arrived(n, m, type)
  PROVE  /\ Head(wire[<<m, n>>]) \in SoundFrames /\ Head(wire[<<m, n>>]).type = type
         /\ Moved(n, m, Taken(n, m), type)
<1>1. wire[<<m, n>>] \in Seq(SoundFrames)
  BY PairFacts DEF IInv, EndsTyped, Streams
<1> DEFINE s == wire[<<m, n>>]
<1>2. s # <<>> /\ Head(s).type = type
  BY DEF Arrived
<1> HIDE DEF s
<1>3. Head(s) \in SoundFrames
  BY <1>1, <1>2 DEF s
<1>4. Moved(n, m, Taken(n, m), type)
  BY <1>2 DEF Moved, s
<1> QED
  BY <1>2, <1>3, <1>4 DEF s

(* A summary answers a request. *)
LEMMA SummaryAnswers ==
  ASSUME IInv, NEW n, NEW m, <<n, m>> \in Pairs, Arrived(n, m, "SYNC_COMPLETE"), Open(n, m)
  PROVE  request[<<n, m>>].outstanding
<1> DEFINE s == wire[<<m, n>>]
           G == Counted(wire[<<n, m>>], "GET_BLOCKS")
<1>1. /\ s \in Seq(SoundFrames) /\ s # <<>> /\ Head(s).type = "SYNC_COMPLETE"
      /\ wire[<<n, m>>] \in Seq(SoundFrames)
  BY PairFacts DEF IInv, EndsTyped, Streams, Arrived
<1>2. Counted(Tail(s), "SYNC_COMPLETE") = Counted(s, "SYNC_COMPLETE") - One(Head(s), "SYNC_COMPLETE")
  BY <1>1, CountTail
<1>3. Tail(s) \in Seq(SoundFrames)
  BY <1>1
<1>4. Counted(Tail(s), "SYNC_COMPLETE") \in Nat /\ Counted(s, "SYNC_COMPLETE") \in Nat /\ G \in Nat
  BY <1>1, <1>3, CountIsNatural
<1>5. Counted(s, "SYNC_COMPLETE") >= 1
  BY <1>1, <1>2, <1>4 DEF One
<1>6. Accounted(n, m)
  BY PairFacts DEF IInv, Balanced
<1> HIDE DEF G, s
<1>7. G + Bit(batch[<<m, n>>].active) + Counted(s, "SYNC_COMPLETE") = Bit(request[<<n, m>>].outstanding)
  BY <1>6 DEF Accounted, G, s
<1>8. Bit(batch[<<m, n>>].active) \in {0, 1}
  BY DEF Bit
<1>9. Bit(request[<<n, m>>].outstanding) # 0
  BY <1>4, <1>5, <1>7, <1>8
<1> QED
  BY <1>9 DEF Bit

(* begin_block_request writes its frame exactly when it notes the request. *)
LEMMA RequestMade ==
  ASSUME IInv, NEW n, NEW m, <<n, m>> \in Pairs
  PROVE  /\ Requested(n, m) \in Requests /\ Requested(n, m).outstanding
         /\ Few(RequestFrames(n, m))
         /\ Sum(RequestFrames(n, m), "SYNC_COMPLETE") = 0
         /\ Bit(Requested(n, m).outstanding) =
              Bit(request[<<n, m>>].outstanding) + Sum(RequestFrames(n, m), "GET_BLOCKS")
<1>1. request[<<n, m>>] \in Requests /\ LocalWork(n) \in Nat /\ tip[n] \in AllBlocks
  BY EndFacts
<1> DEFINE f == GetBlocksFrame(Locator(tip[n]))
<1>2. f \in SoundFrames /\ f.type = "GET_BLOCKS"
  BY <1>1, FramesMade
<1> HIDE DEF f
<1>3. CASE request[<<n, m>>].outstanding
  <2>1. Requested(n, m) = request[<<n, m>>] /\ RequestFrames(n, m) = <<>>
    BY <1>3 DEF Requested, RequestFrames, MayRequest
  <2> QED
    BY <1>1, <1>3, <2>1 DEF Few, Sum, Bit, Requests
<1>4. CASE ~request[<<n, m>>].outstanding
  <2>1. /\ Requested(n, m) = [outstanding |-> TRUE, accepted |-> 0, startWork |-> LocalWork(n)]
        /\ RequestFrames(n, m) = <<f>>
    BY <1>4 DEF Requested, RequestFrames, MayRequest, f
  <2>2. Requested(n, m) \in Requests /\ Requested(n, m).outstanding
    BY <1>1, <2>1 DEF Requests
  <2> QED
    BY <1>2, <1>4, <2>1, <2>2 DEF Few, Sum, One, Bit
<1> QED
  BY <1>3, <1>4

LEMMA OneFrame ==
  ASSUME NEW f \in SoundFrames
  PROVE  Few(<<f>>) /\ \A type : Sum(<<f>>, type) = IF f.type = type THEN 1 ELSE 0
BY DEF Few, Sum, One

LEMMA NoFrame == Few(<<>>) /\ \A type : Sum(<<>>, type) = 0
BY DEF Few, Sum

(* The stream a frame is taken from or not is the one that is written to. *)
LEMMA NoneTaken == \A n, m : Moved(n, m, wire, "none")
BY DEF Moved

LEMMA NodesStay ==
  ASSUME IInv, UNCHANGED <<chainVars, boundVars>>, penalized' \subseteq Pairs,
         relay' \in [Pairs -> Relays]
  PROVE  NodesTyped'
BY DEF IInv, NodesTyped, chainVars, boundVars

LEMMA QuietEnds ==
  ASSUME IInv, UNCHANGED <<phase, peerTip, request, batch, wire>>
  PROVE  EndsTyped' /\ Clean' /\ Balanced'
BY DEF IInv, EndsTyped, Clean, Balanced, Open, Accounted

LEMMA RelayedTyped ==
  ASSUME IInv, NEW n, NEW b \in Blocks, NEW via \in Nodes \cup {NoNode}, Broadcast(n, b, via)
  PROVE  relay' \in [Pairs -> Relays]
<1> DEFINE S == [block : Blocks, via : Nodes \cup {NoNode}]
           r == [block |-> b, via |-> via]
<1>1. r \in S /\ Relays = Seq(S) /\ relay \in [Pairs -> Relays]
  BY DEF IInv, NodesTyped, Relays
<1>2. relay' = [p \in Pairs |-> IF p \in Targets(n, via) THEN Append(relay[p], r) ELSE relay[p]]
  BY DEF Broadcast
<1> HIDE DEF S, r
<1>3. \A p \in Pairs : Append(relay[p], r) \in Relays
  BY <1>1
<1> QED
  BY <1>1, <1>2, <1>3

LEMMA AcceptedTyped ==
  ASSUME IInv, NEW n \in Nodes, NEW b \in Blocks, Accept(n, b)
  PROVE  known' \in [Nodes -> SUBSET AllBlocks] /\ tip' \in [Nodes -> AllBlocks]
<1>1. /\ known \in [Nodes -> SUBSET AllBlocks] /\ tip \in [Nodes -> AllBlocks] /\ b \in AllBlocks
  BY DEF IInv, NodesTyped, AllBlocks
<1> QED
  BY <1>1 DEF Accept

LEMMA MineStep == ASSUME IInv, NEW n \in Nodes, Mine(n) PROVE IInv'
<1>1. PICK b \in network.mines[n] : Accept(n, b) /\ Broadcast(n, b, NoNode)
  BY DEF Mine
<1>2. b \in Blocks
  BY DEF IInv, NodesTyped, Network
<1>3. NodesTyped'
  BY <1>1, <1>2, RelayedTyped, AcceptedTyped DEF IInv, NodesTyped, Mine, boundVars
<1> QED
  BY <1>3, QuietEnds DEF IInv, Mine

LEMMA DialStep == ASSUME IInv, NEW n, NEW m, <<n, m>> \in Pairs, Dial(n, m) PROVE IInv'
<1>1. /\ n \in Nodes /\ m \in Nodes /\ n # m /\ <<m, n>> \in Pairs /\ <<n, m>> # <<m, n>>
  BY PairFacts
<1>2. /\ phase[<<n, m>>] = "closed" /\ phase[<<m, n>>] = "closed"
      /\ phase' = [phase EXCEPT ![<<n, m>>] = "started", ![<<m, n>>] = "started"]
      /\ UNCHANGED <<peerTip, request, batch, wire>>
      /\ UNCHANGED <<chainVars, relay, penalized, network, drops>>
      /\ dials < network.maxDials /\ dials' = dials + 1
  BY DEF Dial
<1>3. /\ phase'[<<n, m>>] = "started" /\ phase'[<<m, n>>] = "started"
      /\ phase' \in [Pairs -> Phases]
      /\ \A x \in Pairs : x # <<n, m>> /\ x # <<m, n>> => phase'[x] = phase[x]
  BY <1>1, <1>2 DEF IInv, EndsTyped, Phases
<1>4. NodesTyped'
  <2>1. dials' \in 0..network.maxDials
    BY <1>2 DEF IInv, NodesTyped, Network
  <2> QED
    BY <1>2, <2>1 DEF IInv, NodesTyped, chainVars
<1>5. EndsTyped'
  BY <1>2, <1>3 DEF IInv, EndsTyped
<1>6. /\ wire[<<n, m>>] = <<>> /\ wire[<<m, n>>] = <<>>
      /\ request[<<n, m>>] = NoRequest /\ request[<<m, n>>] = NoRequest
      /\ batch[<<n, m>>] = NoBatch /\ batch[<<m, n>>] = NoBatch
  BY <1>1, <1>2 DEF IInv, Clean
<1>7. Clean'
  <2> SUFFICES ASSUME NEW i \in Nodes, NEW j \in Nodes, <<i, j>> \in Pairs
               PROVE  /\ phase'[<<i, j>>] # "ready" =>
                           request[<<i, j>>] = NoRequest /\ batch[<<i, j>>] = NoBatch
                      /\ phase'[<<i, j>>] = "closed" => wire[<<j, i>>] = <<>>
    BY <1>2 DEF Clean
  <2>1. CASE <<i, j>> = <<n, m>> \/ <<i, j>> = <<m, n>>
    BY <1>3, <1>6, <2>1
  <2>2. CASE <<i, j>> # <<n, m>> /\ <<i, j>> # <<m, n>>
    BY <1>3, <2>2 DEF IInv, Clean
  <2> QED
    BY <2>1, <2>2
<1>8. Balanced'
  <2> SUFFICES ASSUME NEW i \in Nodes, NEW j \in Nodes, <<i, j>> \in Pairs, Open(i, j)'
               PROVE  Accounted(i, j)
    BY <1>2 DEF Balanced, Accounted
  <2>1. CASE <<i, j>> = <<n, m>> \/ <<i, j>> = <<m, n>>
    <3>1. /\ wire[<<i, j>>] = <<>> /\ wire[<<j, i>>] = <<>>
          /\ request[<<i, j>>] = NoRequest /\ batch[<<j, i>>] = NoBatch
      BY <1>6, <2>1
    <3>2. Bit(NoRequest.outstanding) = 0 /\ Bit(NoBatch.active) = 0
      BY NothingTyped DEF Bit
    <3> QED
      BY <3>1, <3>2, CountEmpty DEF Accounted
  <2>2. CASE <<i, j>> # <<n, m>> /\ <<i, j>> # <<m, n>>
    <3>1. <<j, i>> # <<n, m>> /\ <<j, i>> # <<m, n>> /\ <<j, i>> \in Pairs
      BY <2>2, PairFacts
    <3>2. Open(i, j)
      BY <1>3, <2>2, <3>1 DEF Open
    <3> QED
      BY <3>2 DEF IInv, Balanced
  <2> QED
    BY <2>1, <2>2
<1> QED
  BY <1>4, <1>5, <1>7, <1>8 DEF IInv

LEMMA GreetStep == ASSUME IInv, NEW n, NEW m, <<n, m>> \in Pairs, Greet(n, m) PROVE IInv'
<1> DEFINE f == HelloFrame(tip[n])
           fs == <<f>>
           at == "greeted"
           q == request[<<n, m>>]
           bt == batch[<<n, m>>]
           took == "none"
<1>1. /\ phase[<<n, m>>] = "started" /\ phase' = [phase EXCEPT ![<<n, m>>] = "greeted"]
      /\ wire' = Written(wire, n, m, fs)
      /\ UNCHANGED <<peerTip, request, batch>>
      /\ UNCHANGED <<chainVars, boundVars>> /\ UNCHANGED <<relay, penalized>>
  BY DEF Greet
<1>2. f \in SoundFrames /\ f.type = "HELLO"
  BY EndFacts, FramesMade
<1> HIDE DEF f
<1>3. Few(fs) /\ Sum(fs, "GET_BLOCKS") = 0 /\ Sum(fs, "SYNC_COMPLETE") = 0
  BY <1>2, OneFrame
<1> HIDE DEF fs, q, bt
<1>4. EndMoves(n, m, at, q, bt, wire, took, fs)
  BY <1>1, <1>3, EndFacts, NoneTaken DEF EndMoves, Phases, Bit, q, bt
<1>5. EndsTyped' /\ Clean' /\ Balanced'
  <2> HIDE DEF at, took
  <2> QED
    BY <1>4, EndStep
<1>6. NodesTyped'
  BY <1>1, NodesStay DEF IInv, NodesTyped
<1> QED
  BY <1>5, <1>6 DEF IInv

(* Writing nothing. *)
LEMMA NothingWritten ==
  ASSUME NEW w \in Streams, NEW n, NEW m, <<n, m>> \in Pairs
  PROVE  Written(w, n, m, <<>>) = w
<1>1. w[<<n, m>>] \o <<>> = w[<<n, m>>]
  BY DEF Streams
<1> QED
  BY <1>1 DEF Written, Streams

(* What is left of a stream is a stream. *)
LEMMA TakenTyped ==
  ASSUME IInv, NEW n, NEW m, <<n, m>> \in Pairs, NEW type, Arrived(n, m, type)
  PROVE  Taken(n, m) \in Streams
<1>1. wire \in Streams /\ Moved(n, m, Taken(n, m), type)
  BY HeadFrame DEF IInv, EndsTyped
<1> DEFINE w == Taken(n, m)
<1>2. Moved(n, m, w, type)
  BY <1>1
<1> HIDE DEF w
<1>3. /\ w \in Streams
      /\ \A x \in Pairs : x # <<m, n>> => w[x] = wire[x]
      /\ type = "none" => w = wire
      /\ \A t \in {"GET_BLOCKS", "SYNC_COMPLETE"} :
           Counted(w[<<m, n>>], t) = Counted(wire[<<m, n>>], t) - Bit(type = t)
  BY <1>1, <1>2, MovedEffects
<1> QED
  BY <1>3 DEF w

LEMMA ReceiveHelloStep ==
  ASSUME IInv, NEW n, NEW m, <<n, m>> \in Pairs, ReceiveHello(n, m) PROVE IInv'
<1> DEFINE b == Head(wire[<<m, n>>]).tip
           behind == Work[b] > LocalWork(n)
           fs == IF behind THEN RequestFrames(n, m) ELSE <<>>
           at == "ready"
           q == IF behind THEN Requested(n, m) ELSE request[<<n, m>>]
           bt == batch[<<n, m>>]
           took == "HELLO"
           w == Taken(n, m)
<1>1. /\ phase[<<n, m>>] = "greeted" /\ Arrived(n, m, "HELLO")
      /\ phase' = [phase EXCEPT ![<<n, m>>] = at]
      /\ peerTip' = [peerTip EXCEPT ![<<n, m>>] = b]
      /\ request' = [request EXCEPT ![<<n, m>>] = q]
      /\ wire' = Written(w, n, m, fs)
      /\ UNCHANGED batch
      /\ UNCHANGED <<chainVars, boundVars>> /\ UNCHANGED <<relay, penalized>>
  BY DEF ReceiveHello
<1>2. /\ Head(wire[<<m, n>>]) \in SoundFrames /\ Head(wire[<<m, n>>]).type = "HELLO"
      /\ Moved(n, m, Taken(n, m), "HELLO")
  BY <1>1, HeadFrame
<1>3. b \in AllBlocks
  BY <1>2, FramesRead
<1> HIDE DEF b
<1>4. peerTip' \in [Pairs -> AllBlocks \cup {NoBlock}]
  BY <1>1, <1>3, EndFacts
<1> HIDE DEF behind
<1>5. /\ q \in Requests /\ Few(fs) /\ Sum(fs, "SYNC_COMPLETE") = 0
      /\ Bit(q.outstanding) = Bit(request[<<n, m>>].outstanding) + Sum(fs, "GET_BLOCKS")
  <2>1. CASE behind
    BY <2>1, RequestMade
  <2>2. CASE ~behind
    <3>1. q = request[<<n, m>>] /\ fs = <<>>
      BY <2>2
    <3>2. Bit(q.outstanding) \in {0, 1}
      BY DEF Bit
    <3> HIDE DEF q, fs
    <3> QED
      BY <3>1, <3>2, EndFacts, NoFrame
  <2> QED
    BY <2>1, <2>2
<1> HIDE DEF fs, q, bt
<1>6. batch' = [batch EXCEPT ![<<n, m>>] = bt] /\ bt \in Batches
  BY <1>1, EndFacts DEF bt
<1>7. Bit(q.outstanding) + Bit(took = "SYNC_COMPLETE") =
        Bit(request[<<n, m>>].outstanding) + Sum(fs, "GET_BLOCKS")
  <2>1. Bit(took = "SYNC_COMPLETE") = 0 /\ Bit(q.outstanding) \in {0, 1}
    BY DEF Bit
  <2> QED
    BY <1>5, <2>1
<1>8. Bit(bt.active) + Sum(fs, "SYNC_COMPLETE") =
        Bit(batch[<<n, m>>].active) + Bit(took = "GET_BLOCKS")
  <2>1. Bit(took = "GET_BLOCKS") = 0
    BY DEF Bit
  <2> QED
    BY <1>5, <2>1 DEF bt
<1>9. EndMoves(n, m, at, q, bt, w, took, fs)
  BY <1>1, <1>2, <1>4, <1>5, <1>6, <1>7, <1>8 DEF EndMoves, Phases
<1>10. EndsTyped' /\ Clean' /\ Balanced'
  <2> HIDE DEF at, took, w
  <2> QED
    BY <1>9, EndStep
<1>11. NodesTyped'
  BY <1>1, NodesStay DEF IInv, NodesTyped
<1> QED
  BY <1>10, <1>11 DEF IInv

LEMMA HandleGetBlocksStep ==
  ASSUME IInv, NEW n, NEW m, <<n, m>> \in Pairs, HandleGetBlocks(n, m) PROVE IInv'
<1> DEFINE l == Head(wire[<<m, n>>]).locator
           blocks == BatchFor(tip[n], l)
           f == SyncCompleteFrame(tip[n])
           fs == IF blocks = <<>> THEN <<f>> ELSE <<>>
           at == "ready"
           q == request[<<n, m>>]
           bt == IF blocks = <<>> THEN batch[<<n, m>>] ELSE [active |-> TRUE, blocks |-> blocks]
           took == "GET_BLOCKS"
           w == Taken(n, m)
<1>1. /\ phase[<<n, m>>] = "ready" /\ ~batch[<<n, m>>].active /\ Arrived(n, m, "GET_BLOCKS")
      /\ UNCHANGED <<phase, peerTip, request>>
      /\ UNCHANGED <<chainVars, boundVars>> /\ UNCHANGED <<relay, penalized>>
  BY DEF HandleGetBlocks, Reading
<1>2. IF blocks = <<>> THEN wire' = Written(w, n, m, <<f>>) /\ batch' = batch
      ELSE wire' = w /\ batch' = [batch EXCEPT ![<<n, m>>] = [active |-> TRUE, blocks |-> blocks]]
  BY DEF HandleGetBlocks
<1>3. /\ Head(wire[<<m, n>>]) \in SoundFrames /\ Head(wire[<<m, n>>]).type = "GET_BLOCKS"
      /\ Moved(n, m, Taken(n, m), "GET_BLOCKS") /\ w \in Streams
  BY <1>1, HeadFrame, TakenTyped
<1>4. blocks \in Seq(Blocks)
  <2>1. l \in Seq(AllBlocks) /\ Genesis \in Range(l)
    BY <1>3, FramesRead DEF Locators
  <2>2. tip[n] \in AllBlocks
    BY EndFacts
  <2> HIDE DEF l
  <2> QED
    BY <2>1, <2>2, BatchTyped
<1>5. f \in SoundFrames /\ f.type = "SYNC_COMPLETE"
  BY EndFacts, FramesMade
<1> HIDE DEF blocks, f, w
<1>6. wire' = Written(w, n, m, fs)
  BY <1>2, <1>3, NothingWritten
<1>7. batch' = [batch EXCEPT ![<<n, m>>] = bt] /\ bt \in Batches
  BY <1>2, <1>4, EndFacts DEF Batches
<1>8. /\ Few(fs) /\ Sum(fs, "GET_BLOCKS") = 0
      /\ Bit(bt.active) + Sum(fs, "SYNC_COMPLETE") = 1
  <2>1. CASE blocks = <<>>
    <3>1. fs = <<f>> /\ bt = batch[<<n, m>>]
      BY <2>1
    <3>2. Bit(bt.active) = 0
      BY <1>1, <3>1 DEF Bit
    <3>3. Few(fs) /\ Sum(fs, "GET_BLOCKS") = 0 /\ Sum(fs, "SYNC_COMPLETE") = 1
      BY <1>5, <3>1, OneFrame
    <3> HIDE DEF fs, bt
    <3> QED
      BY <3>2, <3>3
  <2>2. CASE blocks # <<>>
    <3>1. fs = <<>> /\ bt.active
      BY <2>2
    <3> QED
      BY <3>1, NoFrame DEF Bit
  <2> QED
    BY <2>1, <2>2
<1> HIDE DEF fs, q, bt
<1>9. phase' = [phase EXCEPT ![<<n, m>>] = at] /\ request' = [request EXCEPT ![<<n, m>>] = q]
  BY <1>1, EndFacts DEF q
<1>10. Bit(q.outstanding) + Bit(took = "SYNC_COMPLETE") =
         Bit(request[<<n, m>>].outstanding) + Sum(fs, "GET_BLOCKS")
  <2>1. Bit(took = "SYNC_COMPLETE") = 0
    BY DEF Bit
  <2> QED
    BY <1>8, <2>1 DEF q
<1>11. Bit(bt.active) + Sum(fs, "SYNC_COMPLETE") =
         Bit(batch[<<n, m>>].active) + Bit(took = "GET_BLOCKS")
  <2>1. Bit(took = "GET_BLOCKS") = 1 /\ Bit(batch[<<n, m>>].active) = 0
    BY <1>1 DEF Bit
  <2> QED
    BY <1>8, <2>1
<1>12. Moved(n, m, w, took) /\ q \in Requests /\ peerTip' \in [Pairs -> AllBlocks \cup {NoBlock}]
  BY <1>1, <1>3, EndFacts DEF w, q
<1>13. EndMoves(n, m, at, q, bt, w, took, fs)
  BY <1>1, <1>6, <1>7, <1>8, <1>9, <1>10, <1>11, <1>12 DEF EndMoves, Phases
<1>14. EndsTyped' /\ Clean' /\ Balanced'
  <2> HIDE DEF at, took
  <2> QED
    BY <1>13, EndStep
<1>15. NodesTyped'
  BY <1>1, NodesStay DEF IInv, NodesTyped
<1> QED
  BY <1>14, <1>15 DEF IInv

(* An end that sends a response is ready. *)
LEMMA SenderReady ==
  ASSUME IInv, NEW n, NEW m, <<n, m>> \in Pairs, batch[<<n, m>>].active
  PROVE  phase[<<n, m>>] = "ready"
BY EndFacts, NothingTyped

LEMMA SendBatchBlockStep ==
  ASSUME IInv, NEW n, NEW m, <<n, m>> \in Pairs, SendBatchBlock(n, m) PROVE IInv'
<1> DEFINE old == batch[<<n, m>>]
           f == BlockFrame(Head(old.blocks))
           fs == <<f>>
           at == "ready"
           q == request[<<n, m>>]
           bt == [old EXCEPT !.blocks = Tail(old.blocks)]
           took == "none"
<1>1. /\ old.active /\ old.blocks # <<>>
      /\ wire' = Written(wire, n, m, fs)
      /\ batch' = [batch EXCEPT ![<<n, m>>].blocks = Tail(@)]
      /\ UNCHANGED <<phase, peerTip, request>>
      /\ UNCHANGED <<chainVars, boundVars>> /\ UNCHANGED <<relay, penalized>>
  BY DEF SendBatchBlock
<1>2. old \in Batches /\ batch' = [batch EXCEPT ![<<n, m>>] = bt]
  BY <1>1, EndFacts
<1>3. Head(old.blocks) \in Blocks /\ Tail(old.blocks) \in Seq(Blocks)
  <2> DEFINE s == old.blocks
  <2>1. s \in Seq(Blocks) /\ s # <<>>
    BY <1>1, <1>2 DEF Batches
  <2> HIDE DEF s
  <2>2. Head(s) \in Blocks /\ Tail(s) \in Seq(Blocks)
    BY <2>1
  <2> QED
    BY <2>2 DEF s
<1>4. f \in SoundFrames /\ f.type = "BLOCK"
  BY <1>3, FramesMade
<1>5. bt \in Batches /\ bt.active
  <2> HIDE DEF old
  <2> QED
    BY <1>1, <1>2, <1>3 DEF Batches
<1> HIDE DEF f
<1>6. Few(fs) /\ Sum(fs, "GET_BLOCKS") = 0 /\ Sum(fs, "SYNC_COMPLETE") = 0
  BY <1>4, OneFrame
<1>7. phase[<<n, m>>] = "ready"
  BY <1>1, SenderReady
<1>8. /\ phase' = [phase EXCEPT ![<<n, m>>] = at] /\ request' = [request EXCEPT ![<<n, m>>] = q]
      /\ q \in Requests /\ peerTip' \in [Pairs -> AllBlocks \cup {NoBlock}]
  BY <1>1, <1>7, EndFacts
<1> HIDE DEF fs, bt, q
<1>9. Bit(q.outstanding) + Bit(took = "SYNC_COMPLETE") =
        Bit(request[<<n, m>>].outstanding) + Sum(fs, "GET_BLOCKS")
  <2>1. Bit(took = "SYNC_COMPLETE") = 0
    BY DEF Bit
  <2> QED
    BY <1>6, <2>1 DEF q
<1>10. Bit(bt.active) + Sum(fs, "SYNC_COMPLETE") =
         Bit(batch[<<n, m>>].active) + Bit(took = "GET_BLOCKS")
  <2>1. Bit(took = "GET_BLOCKS") = 0 /\ Bit(batch[<<n, m>>].active) = 1 /\ Bit(bt.active) = 1
    BY <1>1, <1>5 DEF Bit
  <2> QED
    BY <1>6, <2>1
<1>11. EndMoves(n, m, at, q, bt, wire, took, fs)
  BY <1>1, <1>2, <1>5, <1>6, <1>7, <1>8, <1>9, <1>10, NoneTaken DEF EndMoves, Phases
<1>12. EndsTyped' /\ Clean' /\ Balanced'
  <2> HIDE DEF at, took
  <2> QED
    BY <1>11, EndStep
<1>13. NodesTyped'
  BY <1>1, NodesStay DEF IInv, NodesTyped
<1> QED
  BY <1>12, <1>13 DEF IInv

LEMMA SendSummaryStep ==
  ASSUME IInv, NEW n, NEW m, <<n, m>> \in Pairs, SendSummary(n, m) PROVE IInv'
<1> DEFINE f == SyncCompleteFrame(tip[n])
           fs == <<f>>
           at == "ready"
           q == request[<<n, m>>]
           bt == NoBatch
           took == "none"
<1>1. /\ batch[<<n, m>>].active
      /\ wire' = Written(wire, n, m, fs)
      /\ batch' = [batch EXCEPT ![<<n, m>>] = bt]
      /\ UNCHANGED <<phase, peerTip, request>>
      /\ UNCHANGED <<chainVars, boundVars>> /\ UNCHANGED <<relay, penalized>>
  BY DEF SendSummary
<1>2. f \in SoundFrames /\ f.type = "SYNC_COMPLETE"
  BY EndFacts, FramesMade
<1> HIDE DEF f
<1>3. Few(fs) /\ Sum(fs, "GET_BLOCKS") = 0 /\ Sum(fs, "SYNC_COMPLETE") = 1
  BY <1>2, OneFrame
<1>4. phase[<<n, m>>] = "ready"
  BY <1>1, SenderReady
<1>5. /\ phase' = [phase EXCEPT ![<<n, m>>] = at] /\ request' = [request EXCEPT ![<<n, m>>] = q]
      /\ q \in Requests /\ peerTip' \in [Pairs -> AllBlocks \cup {NoBlock}]
  BY <1>1, <1>4, EndFacts
<1>6. bt \in Batches /\ ~bt.active
  BY NothingTyped
<1> HIDE DEF fs, bt, q
<1>7. Bit(q.outstanding) + Bit(took = "SYNC_COMPLETE") =
        Bit(request[<<n, m>>].outstanding) + Sum(fs, "GET_BLOCKS")
  <2>1. Bit(took = "SYNC_COMPLETE") = 0
    BY DEF Bit
  <2> QED
    BY <1>3, <2>1 DEF q
<1>8. Bit(bt.active) + Sum(fs, "SYNC_COMPLETE") =
        Bit(batch[<<n, m>>].active) + Bit(took = "GET_BLOCKS")
  <2>1. Bit(took = "GET_BLOCKS") = 0 /\ Bit(batch[<<n, m>>].active) = 1 /\ Bit(bt.active) = 0
    BY <1>1, <1>6 DEF Bit
  <2> QED
    BY <1>3, <2>1
<1>9. EndMoves(n, m, at, q, bt, wire, took, fs)
  BY <1>1, <1>3, <1>4, <1>5, <1>6, <1>7, <1>8, NoneTaken DEF EndMoves, Phases
<1>10. EndsTyped' /\ Clean' /\ Balanced'
  <2> HIDE DEF at, took
  <2> QED
    BY <1>9, EndStep
<1>11. NodesTyped'
  BY <1>1, NodesStay DEF IInv, NodesTyped
<1> QED
  BY <1>10, <1>11 DEF IInv

LEMMA HandleBlockStep ==
  ASSUME IInv, NEW n, NEW m, <<n, m>> \in Pairs, HandleBlock(n, m) PROVE IInv'
<1> DEFINE b == Head(wire[<<m, n>>]).block
           old == request[<<n, m>>]
           at == "ready"
           bt == batch[<<n, m>>]
           took == "BLOCK"
           w == Taken(n, m)
<1>1. /\ phase[<<n, m>>] = "ready" /\ Arrived(n, m, "BLOCK")
      /\ UNCHANGED <<phase, peerTip, batch, penalized>> /\ UNCHANGED boundVars
  BY DEF HandleBlock, Reading
<1>2. /\ Head(wire[<<m, n>>]) \in SoundFrames /\ Head(wire[<<m, n>>]).type = "BLOCK"
      /\ Moved(n, m, w, took) /\ w \in Streams
  BY <1>1, HeadFrame, TakenTyped
<1>3. b \in Blocks /\ n \in Nodes /\ m \in Nodes
  BY <1>2, FramesRead, PairFacts
<1>4. \/ wire' = w /\ UNCHANGED <<chainVars, request, relay>>
      \/ /\ request' = [request EXCEPT ![<<n, m>>] = Requested(n, m)]
         /\ wire' = Written(w, n, m, RequestFrames(n, m))
         /\ UNCHANGED <<chainVars, relay>>
      \/ Accept(n, b) /\ request' = Noted(n, m) /\ Broadcast(n, b, m) /\ wire' = w
  BY DEF HandleBlock
<1> HIDE DEF b, w
<1>5. /\ phase' = [phase EXCEPT ![<<n, m>>] = at] /\ batch' = [batch EXCEPT ![<<n, m>>] = bt]
      /\ bt \in Batches /\ old \in Requests
      /\ peerTip' \in [Pairs -> AllBlocks \cup {NoBlock}]
  BY <1>1, EndFacts
<1>6. Bit(took = "GET_BLOCKS") = 0 /\ Bit(took = "SYNC_COMPLETE") = 0
  BY DEF Bit
<1>7. ASSUME NEW q \in Requests, NEW fs, Few(fs), Sum(fs, "SYNC_COMPLETE") = 0,
             request' = [request EXCEPT ![<<n, m>>] = q],
             wire' = Written(w, n, m, fs),
             Bit(q.outstanding) = Bit(old.outstanding) + Sum(fs, "GET_BLOCKS")
      PROVE  EndsTyped' /\ Clean' /\ Balanced'
  <2>1. \A x : Bit(x) \in {0, 1}
    BY DEF Bit
  <2>2. Bit(q.outstanding) + Bit(took = "SYNC_COMPLETE") =
          Bit(request[<<n, m>>].outstanding) + Sum(fs, "GET_BLOCKS")
    BY <1>6, <1>7, <2>1
  <2>3. Bit(bt.active) + Sum(fs, "SYNC_COMPLETE") =
          Bit(batch[<<n, m>>].active) + Bit(took = "GET_BLOCKS")
    BY <1>6, <1>7
  <2> HIDE DEF bt, old
  <2>4. EndMoves(n, m, at, q, bt, w, took, fs)
    BY <1>1, <1>2, <1>5, <1>7, <2>2, <2>3 DEF EndMoves, Phases
  <2> HIDE DEF at, took
  <2> QED
    BY <2>4, EndStep
<1>8. CASE wire' = w /\ UNCHANGED <<chainVars, request, relay>>
  <2>1. NodesTyped'
    BY <1>1, <1>8, NodesStay DEF IInv, NodesTyped
  <2>2. EndsTyped' /\ Clean' /\ Balanced'
    <3> DEFINE fs == <<>>
    <3>1. /\ Few(fs) /\ Sum(fs, "SYNC_COMPLETE") = 0 /\ Sum(fs, "GET_BLOCKS") = 0
          /\ wire' = Written(w, n, m, fs)
      BY <1>2, <1>8, NoFrame, NothingWritten
    <3>2. Bit(old.outstanding) = Bit(old.outstanding) + 0
      BY DEF Bit
    <3>3. request' = [request EXCEPT ![<<n, m>>] = old]
      BY <1>8, EndFacts
    <3> HIDE DEF fs, old
    <3> QED
      BY <1>5, <1>7, <3>1, <3>2, <3>3
  <2> QED
    BY <2>1, <2>2 DEF IInv
<1>9. CASE /\ request' = [request EXCEPT ![<<n, m>>] = Requested(n, m)]
           /\ wire' = Written(w, n, m, RequestFrames(n, m))
           /\ UNCHANGED <<chainVars, relay>>
  <2>1. NodesTyped'
    BY <1>1, <1>9, NodesStay DEF IInv, NodesTyped
  <2>2. EndsTyped' /\ Clean' /\ Balanced'
    <3>1. /\ Requested(n, m) \in Requests /\ Requested(n, m).outstanding
          /\ Few(RequestFrames(n, m))
          /\ Sum(RequestFrames(n, m), "SYNC_COMPLETE") = 0
          /\ Bit(Requested(n, m).outstanding) =
               Bit(request[<<n, m>>].outstanding) + Sum(RequestFrames(n, m), "GET_BLOCKS")
      BY RequestMade
    <3> QED
      BY <1>7, <1>9, <3>1
  <2> QED
    BY <2>1, <2>2 DEF IInv
<1>10. CASE Accept(n, b) /\ request' = Noted(n, m) /\ Broadcast(n, b, m) /\ wire' = w
  <2>1. NodesTyped'
    <3>1. known' \in [Nodes -> SUBSET AllBlocks] /\ tip' \in [Nodes -> AllBlocks]
      BY <1>3, <1>10, AcceptedTyped
    <3>2. relay' \in [Pairs -> Relays]
      BY <1>3, <1>10, RelayedTyped
    <3> QED
      BY <1>1, <3>1, <3>2 DEF IInv, NodesTyped, boundVars
  <2>2. EndsTyped' /\ Clean' /\ Balanced'
    <3> DEFINE fs == <<>>
               q == [old EXCEPT !.accepted = IF old.outstanding THEN old.accepted + 1
                                             ELSE old.accepted]
    <3>1. /\ Few(fs) /\ Sum(fs, "SYNC_COMPLETE") = 0 /\ Sum(fs, "GET_BLOCKS") = 0
          /\ wire' = Written(w, n, m, fs)
      BY <1>2, <1>10, NoFrame, NothingWritten
    <3>2. request' = [request EXCEPT ![<<n, m>>] = q]
      BY <1>10 DEF Noted, IInv, EndsTyped
    <3>3. q \in Requests /\ q.outstanding = old.outstanding
      <4> HIDE DEF old
      <4> QED
        BY <1>5 DEF Requests
    <3>4. Bit(q.outstanding) = Bit(old.outstanding) + 0
      BY <3>3 DEF Bit
    <3> HIDE DEF fs, q, old
    <3> QED
      BY <1>7, <3>1, <3>2, <3>3, <3>4
  <2> QED
    BY <2>1, <2>2 DEF IInv
<1> QED
  BY <1>4, <1>8, <1>9, <1>10

LEMMA ClosingNodes ==
  ASSUME IInv, UNCHANGED <<chainVars, network>>, penalized' \subseteq Pairs,
         dials' \in 0..network.maxDials, drops' \in 0..network.maxDrops,
         relay' \in [Pairs -> Relays]
  PROVE  NodesTyped'
BY DEF IInv, NodesTyped, chainVars

LEMMA HandleSyncCompleteStep ==
  ASSUME IInv, NEW n, NEW m, <<n, m>> \in Pairs, HandleSyncComplete(n, m) PROVE IInv'
<1> DEFINE b == Head(wire[<<m, n>>]).tip
           old == request[<<n, m>>]
           at == "ready"
           bt == batch[<<n, m>>]
           took == "SYNC_COMPLETE"
           w == Taken(n, m)
           f == GetBlocksFrame(Locator(tip[n]))
           new == [outstanding |-> TRUE, accepted |-> 0, startWork |-> LocalWork(n)]
<1>1. /\ phase[<<n, m>>] = "ready" /\ Arrived(n, m, "SYNC_COMPLETE")
      /\ UNCHANGED <<chainVars, boundVars>>
  BY DEF HandleSyncComplete, Reading
<1>2. /\ Head(wire[<<m, n>>]) \in SoundFrames /\ Head(wire[<<m, n>>]).type = "SYNC_COMPLETE"
      /\ Moved(n, m, w, took) /\ w \in Streams
  BY <1>1, HeadFrame, TakenTyped
<1>3. b \in AllBlocks
  BY <1>2, FramesRead
<1>4. \/ penalized' = penalized \cup {<<n, m>>} /\ Close(n, m, w)
      \/ /\ peerTip' = [peerTip EXCEPT ![<<n, m>>] = b]
         /\ \/ request' = [request EXCEPT ![<<n, m>>] = NoRequest] /\ wire' = w
            \/ /\ request' = [request EXCEPT ![<<n, m>>] = new]
               /\ wire' = Written(w, n, m, <<f>>)
         /\ UNCHANGED <<phase, batch, relay, penalized>>
  BY DEF HandleSyncComplete
<1>5. /\ new \in Requests /\ new.outstanding /\ NoRequest \in Requests /\ ~NoRequest.outstanding
  BY EndFacts, NothingTyped DEF Requests
<1>6. f \in SoundFrames /\ f.type = "GET_BLOCKS"
  BY EndFacts, FramesMade
<1> HIDE DEF b, w, f, new
<1>7. CASE penalized' = penalized \cup {<<n, m>>} /\ Close(n, m, w)
  <2>1. EndsTyped' /\ Clean' /\ Balanced' /\ relay' \in [Pairs -> Relays]
    <3> HIDE DEF took
    <3> QED
      BY <1>2, <1>7, CloseStep
  <2>2. NodesTyped'
    BY <1>1, <1>7, <2>1, ClosingNodes DEF IInv, NodesTyped, boundVars
  <2> QED
    BY <2>1, <2>2 DEF IInv
<1>8. CASE /\ peerTip' = [peerTip EXCEPT ![<<n, m>>] = b]
           /\ \/ request' = [request EXCEPT ![<<n, m>>] = NoRequest] /\ wire' = w
              \/ /\ request' = [request EXCEPT ![<<n, m>>] = new]
                 /\ wire' = Written(w, n, m, <<f>>)
           /\ UNCHANGED <<phase, batch, relay, penalized>>
  <2>1. NodesTyped'
    BY <1>1, <1>8, NodesStay DEF IInv, NodesTyped
  <2>2. /\ phase' = [phase EXCEPT ![<<n, m>>] = at] /\ batch' = [batch EXCEPT ![<<n, m>>] = bt]
        /\ bt \in Batches /\ peerTip' \in [Pairs -> AllBlocks \cup {NoBlock}]
    BY <1>1, <1>3, <1>8, EndFacts
  <2>3. /\ Bit(took = "GET_BLOCKS") = 0 /\ Bit(took = "SYNC_COMPLETE") = 1
        /\ Open(n, m) => Bit(old.outstanding) = 1
    BY <1>1, SummaryAnswers DEF Bit
  <2>4. ASSUME NEW q \in Requests, NEW fs, Few(fs), Sum(fs, "SYNC_COMPLETE") = 0,
               request' = [request EXCEPT ![<<n, m>>] = q],
               wire' = Written(w, n, m, fs),
               Bit(q.outstanding) = Sum(fs, "GET_BLOCKS")
        PROVE  EndsTyped' /\ Clean' /\ Balanced'
    <3>1. \A x : Bit(x) \in {0, 1}
      BY DEF Bit
    <3>2. Open(n, m) => Bit(q.outstanding) + Bit(took = "SYNC_COMPLETE") =
                          Bit(request[<<n, m>>].outstanding) + Sum(fs, "GET_BLOCKS")
      BY <2>3, <2>4, <3>1
    <3>3. Bit(bt.active) + Sum(fs, "SYNC_COMPLETE") =
            Bit(batch[<<n, m>>].active) + Bit(took = "GET_BLOCKS")
      BY <2>3, <2>4
    <3> HIDE DEF bt, old
    <3>4. EndMoves(n, m, at, q, bt, w, took, fs)
      BY <1>1, <1>2, <2>2, <2>4, <3>2, <3>3 DEF EndMoves, Phases
    <3> HIDE DEF at, took
    <3> QED
      BY <3>4, EndStep
  <2>5. CASE request' = [request EXCEPT ![<<n, m>>] = NoRequest] /\ wire' = w
    <3> DEFINE fs == <<>>
               q == NoRequest
    <3>1. /\ Few(fs) /\ Sum(fs, "SYNC_COMPLETE") = 0 /\ Sum(fs, "GET_BLOCKS") = 0
          /\ wire' = Written(w, n, m, fs)
      BY <1>2, <2>5, NoFrame, NothingWritten
    <3>2. q \in Requests /\ Bit(q.outstanding) = 0
      BY <1>5 DEF Bit
    <3> HIDE DEF fs
    <3>3. EndsTyped' /\ Clean' /\ Balanced'
      BY <2>4, <2>5, <3>1, <3>2
    <3> QED
      BY <2>1, <3>3 DEF IInv
  <2>6. CASE /\ request' = [request EXCEPT ![<<n, m>>] = new]
             /\ wire' = Written(w, n, m, <<f>>)
    <3>1. /\ Few(<<f>>) /\ Sum(<<f>>, "SYNC_COMPLETE") = 0 /\ Sum(<<f>>, "GET_BLOCKS") = 1
      BY <1>6, OneFrame
    <3>2. Bit(new.outstanding) = 1
      BY <1>5 DEF Bit
    <3>3. EndsTyped' /\ Clean' /\ Balanced'
      BY <1>5, <2>4, <2>6, <3>1, <3>2
    <3> QED
      BY <2>1, <3>3 DEF IInv
  <2> QED
    BY <1>8, <2>5, <2>6
<1> QED
  BY <1>4, <1>7, <1>8

LEMMA SendRelayStep ==
  ASSUME IInv, NEW n, NEW m, <<n, m>> \in Pairs, SendRelay(n, m) PROVE IInv'
<1> DEFINE s == relay[<<n, m>>]
           f == BlockFrame(Head(s).block)
           fs == <<f>>
           at == phase[<<n, m>>]
           q == request[<<n, m>>]
           bt == batch[<<n, m>>]
           took == "none"
           R == [block : Blocks, via : Nodes \cup {NoNode}]
<1>1. /\ s # <<>>
      /\ wire' = Written(wire, n, m, fs)
      /\ relay' = [relay EXCEPT ![<<n, m>>] = Tail(s)]
      /\ UNCHANGED <<phase, peerTip, request, batch, penalized>>
      /\ UNCHANGED <<chainVars, boundVars>>
  BY DEF SendRelay
<1>2. s \in Seq(R) /\ Relays = Seq(R) /\ relay \in [Pairs -> Relays]
  BY DEF IInv, NodesTyped, Relays
<1> HIDE DEF s, R
<1>3. Head(s) \in R /\ Tail(s) \in Relays
  BY <1>1, <1>2
<1>4. relay' \in [Pairs -> Relays]
  BY <1>1, <1>2, <1>3
<1>5. f \in SoundFrames /\ f.type = "BLOCK"
  <2>1. Head(s).block \in Blocks
    BY <1>3 DEF R
  <2> QED
    BY <2>1, FramesMade
<1> HIDE DEF f
<1>6. Few(fs) /\ Sum(fs, "GET_BLOCKS") = 0 /\ Sum(fs, "SYNC_COMPLETE") = 0
  BY <1>5, OneFrame
<1>7. /\ phase' = [phase EXCEPT ![<<n, m>>] = at] /\ request' = [request EXCEPT ![<<n, m>>] = q]
      /\ batch' = [batch EXCEPT ![<<n, m>>] = bt]
      /\ at \in Phases /\ q \in Requests /\ bt \in Batches
      /\ at # "ready" => q = NoRequest /\ bt = NoBatch
      /\ peerTip' \in [Pairs -> AllBlocks \cup {NoBlock}]
  BY <1>1, EndFacts
<1>8. Bit(took = "SYNC_COMPLETE") = 0 /\ Bit(took = "GET_BLOCKS") = 0 /\ \A x : Bit(x) \in {0, 1}
  BY DEF Bit
<1> HIDE DEF fs
<1>9. /\ Bit(q.outstanding) + Bit(took = "SYNC_COMPLETE") =
           Bit(request[<<n, m>>].outstanding) + Sum(fs, "GET_BLOCKS")
      /\ Bit(bt.active) + Sum(fs, "SYNC_COMPLETE") =
           Bit(batch[<<n, m>>].active) + Bit(took = "GET_BLOCKS")
  BY <1>6, <1>8
<1>10. (at = "closed" <=> phase[<<n, m>>] = "closed") /\ (at = "closed" => took = "none")
  OBVIOUS
<1> HIDE DEF at, q, bt, took
<1>11. Moved(n, m, wire, took)
  BY NoneTaken DEF took
<1>12. EndMoves(n, m, at, q, bt, wire, took, fs)
  BY <1>1, <1>6, <1>7, <1>9, <1>10, <1>11 DEF EndMoves
<1>13. EndsTyped' /\ Clean' /\ Balanced'
  BY <1>12, EndStep
<1>14. NodesTyped'
  BY <1>1, <1>4, NodesStay DEF IInv, NodesTyped
<1> QED
  BY <1>13, <1>14 DEF IInv

LEMMA HangUpStep ==
  ASSUME IInv, NEW n, NEW m, <<n, m>> \in Pairs, HangUp(n, m) PROVE IInv'
<1>1. Close(n, m, wire) /\ UNCHANGED <<chainVars, penalized, boundVars>>
  BY DEF HangUp
<1>2. EndsTyped' /\ Clean' /\ Balanced' /\ relay' \in [Pairs -> Relays]
  BY <1>1, NoneTaken, CloseStep
<1>3. NodesTyped'
  BY <1>1, <1>2, ClosingNodes DEF IInv, NodesTyped, boundVars
<1> QED
  BY <1>2, <1>3 DEF IInv

LEMMA DropStep ==
  ASSUME IInv, NEW n, NEW m, <<n, m>> \in Pairs, Drop(n, m) PROVE IInv'
<1>1. /\ Close(n, m, wire) /\ UNCHANGED <<chainVars, penalized, network, dials>>
      /\ drops < network.maxDrops /\ drops' = drops + 1
  BY DEF Drop
<1>2. EndsTyped' /\ Clean' /\ Balanced' /\ relay' \in [Pairs -> Relays]
  BY <1>1, NoneTaken, CloseStep
<1>3. drops' \in 0..network.maxDrops
  BY <1>1 DEF IInv, NodesTyped, Network
<1>4. NodesTyped'
  BY <1>1, <1>2, <1>3, ClosingNodes DEF IInv, NodesTyped
<1> QED
  BY <1>2, <1>4 DEF IInv

LEMMA NextIInv == IInv /\ [Next]_vars => IInv'
<1> SUFFICES ASSUME IInv, [Next]_vars PROVE IInv'
  OBVIOUS
<1>1. ASSUME NEW n \in Nodes, Mine(n) PROVE IInv'
  BY <1>1, MineStep
<1>2. ASSUME NEW p \in Pairs,
             \/ Dial(p[1], p[2]) \/ Serve(p[1], p[2])
             \/ SendRelay(p[1], p[2]) \/ Drop(p[1], p[2])
      PROVE  IInv'
  <2> DEFINE n == p[1]
             m == p[2]
  <2>1. <<n, m>> \in Pairs
    BY DEF Pairs
  <2>2. \/ Dial(n, m) \/ Serve(n, m) \/ SendRelay(n, m) \/ Drop(n, m)
    BY <1>2
  <2> HIDE DEF n, m
  <2>3. CASE Dial(n, m)
    BY <2>1, <2>3, DialStep
  <2>4. CASE Greet(n, m)
    BY <2>1, <2>4, GreetStep
  <2>5. CASE ReceiveHello(n, m)
    BY <2>1, <2>5, ReceiveHelloStep
  <2>6. CASE HandleGetBlocks(n, m)
    BY <2>1, <2>6, HandleGetBlocksStep
  <2>7. CASE SendBatchBlock(n, m)
    BY <2>1, <2>7, SendBatchBlockStep
  <2>8. CASE SendSummary(n, m)
    BY <2>1, <2>8, SendSummaryStep
  <2>9. CASE HandleBlock(n, m)
    BY <2>1, <2>9, HandleBlockStep
  <2>10. CASE HandleSyncComplete(n, m)
    BY <2>1, <2>10, HandleSyncCompleteStep
  <2>11. CASE HangUp(n, m)
    BY <2>1, <2>11, HangUpStep
  <2>12. CASE SendRelay(n, m)
    BY <2>1, <2>12, SendRelayStep
  <2>13. CASE Drop(n, m)
    BY <2>1, <2>13, DropStep
  <2> QED
    BY <2>2, <2>3, <2>4, <2>5, <2>6, <2>7, <2>8, <2>9, <2>10, <2>11, <2>12, <2>13 DEF Serve
<1>3. CASE UNCHANGED vars
  <2>1. /\ UNCHANGED <<phase, peerTip, request, batch, wire>>
        /\ UNCHANGED <<chainVars, boundVars>> /\ UNCHANGED <<relay, penalized>>
    BY <1>3 DEF vars, chainVars, boundVars
  <2>2. NodesTyped'
    BY <2>1, NodesStay DEF IInv, NodesTyped
  <2>3. EndsTyped' /\ Clean' /\ Balanced'
    BY <2>1, QuietEnds
  <2> QED
    BY <2>2, <2>3 DEF IInv
<1> QED
  BY <1>1, <1>2, <1>3 DEF Next

-----------------------------------------------------------------------------
(***************************************************************************)
(* The theorems.                                                           *)
(***************************************************************************)
(* Whatever the nodes mine, dial, send, refuse and lose, streams carry     *)
(* well-formed frames only, an end that is not ready has asked for and     *)
(* answers nothing, and open connections are balanced.                     *)
THEOREM Invariance == Spec => []IInv
<1>1. Init => IInv
  BY InitIInv
<1>2. IInv /\ [Next]_vars => IInv'
  BY NextIInv
<1> QED
  BY <1>1, <1>2, PTL DEF Spec

(* Every variable has its type: above all, a locator always names blocks   *)
(* and ends in genesis, so a response is a batch of blocks, none of which  *)
(* is genesis (_block_locator, _common_index, _send_blocks).               *)
THEOREM TypeCorrect == Spec => []TypeOK
<1>1. IInv => TypeOK
  <2> SUFFICES ASSUME IInv PROVE TypeOK
    OBVIOUS
  <2>1. wire \in [Pairs -> Seq(Frames)]
    <3>1. wire \in [Pairs -> Seq(SoundFrames)]
      BY DEF IInv, EndsTyped, Streams
    <3> QED
      BY <3>1, FramesTyped
  <2>2. /\ phase \in [Pairs -> Phases] /\ request \in [Pairs -> Requests]
        /\ batch \in [Pairs -> Batches] /\ relay \in [Pairs -> Relays]
        /\ peerTip \in [Pairs -> AllBlocks \cup {NoBlock}]
    BY DEF IInv, NodesTyped, EndsTyped
  <2>3. /\ known \in [Nodes -> SUBSET AllBlocks] /\ tip \in [Nodes -> AllBlocks]
        /\ penalized \subseteq Pairs
        /\ dials \in 0..network.maxDials /\ drops \in 0..network.maxDrops
    BY DEF IInv, NodesTyped
  <2> QED
    BY <2>1, <2>2, <2>3 DEF TypeOK, Phases, Requests, Batches, Relays
<1> QED
  BY <1>1, Invariance, PTL

(* At most one block request per connection, and none that is never        *)
(* answered: while both ends are up, a request that is outstanding is      *)
(* either still on its way, being answered, or answered by a summary that  *)
(* is on its way, whatever else crosses it on the two streams              *)
(* (begin_block_request, _send_blocks, finish_block_request).              *)
THEOREM RequestAccountedTheorem == Spec => []RequestAccounted
<1>1. IInv => RequestAccounted
  <2> SUFFICES ASSUME IInv, NEW p \in Pairs,
                      phase[p[1], p[2]] # "closed", phase[p[2], p[1]] # "closed"
               PROVE  Count(p[1], p[2], "GET_BLOCKS") + (IF batch[p[2], p[1]].active THEN 1 ELSE 0)
                        + Count(p[2], p[1], "SYNC_COMPLETE")
                      = (IF request[p[1], p[2]].outstanding THEN 1 ELSE 0)
    BY Zenon DEF RequestAccounted
  <2>1. p[1] \in Nodes /\ p[2] \in Nodes /\ <<p[1], p[2]>> \in Pairs
    BY DEF Pairs
  <2>2. Accounted(p[1], p[2])
    BY <2>1 DEF IInv, Balanced, Open
  <2> QED
    BY <2>2 DEF Accounted, Count, Counted, Places, Bit
<1> QED
  BY <1>1, Invariance, PTL

-----------------------------------------------------------------------------
(***************************************************************************)
(* What a node says of its own work, in HELLO and SYNC_COMPLETE, on one    *)
(* stream: it never falls, neither from one frame to the next nor below    *)
(* what the reader has taken down, and never exceeds the work it has.      *)
(***************************************************************************)
ClaimTypes == {"HELLO", "SYNC_COMPLETE"}
Claims(s) == {i \in DOMAIN s : s[i].type \in ClaimTypes}

Rising(s, low, high) ==
  /\ \A i \in Claims(s) : low <= Work[s[i].tip] /\ Work[s[i].tip] <= high
  /\ \A i, j \in Claims(s) : i <= j => Work[s[i].tip] <= Work[s[j].tip]

(* The work m has told n of. *)
Said(n, m) == IF peerTip[<<n, m>>] = NoBlock THEN 0 ELSE Work[peerTip[<<n, m>>]]

ClaimsRise ==
  \A n, m \in Nodes : <<n, m>> \in Pairs =>
    /\ Said(n, m) <= LocalWork(m)
    /\ Rising(wire[<<m, n>>], Said(n, m), LocalWork(m))
    /\ phase[<<n, m>>] = "ready" => peerTip[<<n, m>>] \in AllBlocks

LEMMA ClaimsTyped ==
  ASSUME NEW s \in Seq(SoundFrames), NEW i \in Claims(s)
  PROVE  i \in 1..Len(s) /\ s[i].tip \in AllBlocks /\ Work[s[i].tip] \in Nat
<1>1. i \in 1..Len(s) /\ s[i] \in SoundFrames /\ s[i].type \in ClaimTypes
  BY DEF Claims
<1>2. s[i].tip \in AllBlocks
  BY <1>1, FramesRead DEF ClaimTypes
<1> QED
  BY <1>1, <1>2, BlockFacts

LEMMA RisingAppend ==
  ASSUME NEW s \in Seq(SoundFrames), NEW f \in SoundFrames,
         NEW low \in Nat, NEW high \in Nat, low <= high, Rising(s, low, high),
         f.type \in ClaimTypes => Work[f.tip] = high
  PROVE  Rising(Append(s, f), low, high)
<1> DEFINE v == Append(s, f)
           k == Len(s) + 1
<1>1. /\ DOMAIN v = 1..k /\ v[k] = f /\ \A i \in 1..Len(s) : v[i] = s[i]
      /\ DOMAIN s = 1..Len(s) /\ Len(s) \in Nat
  OBVIOUS
<1>2. \A i \in Claims(s) : i \in 1..Len(s) /\ Work[s[i].tip] \in Nat
  BY ClaimsTyped
<1> HIDE DEF v
<1>3. ASSUME NEW i \in Claims(v)
      PROVE  (i \in Claims(s) /\ v[i] = s[i]) \/ (i = k /\ Work[v[i].tip] = high)
  <2>1. i \in 1..k /\ v[i].type \in ClaimTypes
    BY <1>1 DEF Claims
  <2>2. CASE i = k
    BY <1>1, <2>1, <2>2
  <2>3. CASE i \in 1..Len(s)
    BY <1>1, <2>1, <2>3 DEF Claims
  <2> QED
    BY <1>1, <2>1, <2>2, <2>3
<1>4. \A i \in Claims(v) : low <= Work[v[i].tip] /\ Work[v[i].tip] <= high
  BY <1>3 DEF Rising
<1>5. ASSUME NEW i \in Claims(v), NEW j \in Claims(v), i <= j
      PROVE  Work[v[i].tip] <= Work[v[j].tip]
  <2>1. CASE j = k /\ Work[v[j].tip] = high
    BY <1>4, <2>1
  <2>2. CASE j \in Claims(s) /\ v[j] = s[j]
    <3>1. i \in Claims(s) /\ v[i] = s[i]
      BY <1>1, <1>2, <1>3, <1>5, <2>2
    <3> QED
      BY <1>5, <2>2, <3>1 DEF Rising
  <2> QED
    BY <1>3, <2>1, <2>2
<1> QED
  BY <1>4, <1>5 DEF Rising, v

LEMMA RisingTail ==
  ASSUME NEW s \in Seq(SoundFrames), s # <<>>, NEW low, NEW high, Rising(s, low, high)
  PROVE  /\ Rising(Tail(s), low, high)
         /\ Head(s).type \in ClaimTypes =>
              /\ Head(s).tip \in AllBlocks
              /\ low <= Work[Head(s).tip] /\ Work[Head(s).tip] <= high
              /\ Rising(Tail(s), Work[Head(s).tip], high)
<1> DEFINE v == Tail(s)
<1>1. /\ DOMAIN s = 1..Len(s) /\ Len(s) \in Nat /\ Len(s) >= 1 /\ Head(s) = s[1]
      /\ Head(s) \in SoundFrames
      /\ DOMAIN v = 1..(Len(s) - 1) /\ \A i \in 1..(Len(s) - 1) : v[i] = s[i + 1]
  OBVIOUS
<1> HIDE DEF v
<1>2. \A i \in Claims(v) : i \in Nat /\ i + 1 \in Claims(s) /\ v[i] = s[i + 1] /\ 1 <= i + 1
  BY <1>1 DEF Claims
<1>3. \A i, j \in Claims(v) : i <= j => Work[v[i].tip] <= Work[v[j].tip]
  <2> SUFFICES ASSUME NEW i \in Claims(v), NEW j \in Claims(v), i <= j
               PROVE  Work[v[i].tip] <= Work[v[j].tip]
    OBVIOUS
  <2>1. i + 1 <= j + 1 /\ i + 1 \in Claims(s) /\ j + 1 \in Claims(s)
    BY <1>2
  <2>2. Work[s[i + 1].tip] <= Work[s[j + 1].tip]
    BY <2>1 DEF Rising
  <2> QED
    BY <1>2, <2>2
<1>4. Rising(v, low, high)
  BY <1>2, <1>3 DEF Rising
<1>5. ASSUME Head(s).type \in ClaimTypes
      PROVE  /\ Head(s).tip \in AllBlocks
             /\ low <= Work[Head(s).tip] /\ Work[Head(s).tip] <= high
             /\ Rising(v, Work[Head(s).tip], high)
  <2>1. 1 \in Claims(s)
    BY <1>1, <1>5 DEF Claims
  <2>2. \A i \in Claims(v) : Work[s[1].tip] <= Work[v[i].tip]
    BY <1>2, <2>1 DEF Rising
  <2>3. Head(s).tip \in AllBlocks
    BY <1>1, <2>1, ClaimsTyped
  <2> QED
    BY <1>1, <1>3, <1>4, <2>1, <2>2, <2>3 DEF Rising
<1> QED
  BY <1>4, <1>5 DEF v

LEMMA RisingHigher ==
  ASSUME NEW s \in Seq(SoundFrames), NEW low, NEW high \in Nat, NEW more \in Nat,
         high <= more, Rising(s, low, high)
  PROVE  Rising(s, low, more)
<1>1. \A i \in Claims(s) : Work[s[i].tip] \in Nat
  BY ClaimsTyped
<1> QED
  BY <1>1 DEF Rising

LEMMA RisingEmpty == \A low, high : Rising(<<>>, low, high)
BY DEF Rising, Claims
(* A writer only claims the work it has; a reader takes the first frame, and
   takes down what it claims if it is a claim. *)
Grew(s, t, n) ==
  \/ t = s
  \/ \E f \in SoundFrames :
       t = Append(s, f) /\ (f.type \in ClaimTypes => Work[f.tip] = LocalWork(n))

Shrank(s, t, told, now) ==
  \/ t = s /\ now = told
  \/ t = <<>> /\ now = NoBlock
  \/ s # <<>> /\ t = Tail(s) /\ now = told
  \/ s # <<>> /\ t = Tail(s) /\ Head(s).type \in ClaimTypes /\ now = Head(s).tip

EndClaims(n, m) ==
  /\ \A x \in Pairs : x # <<n, m>> => peerTip'[x] = peerTip[x]
  /\ \A x \in Pairs : x # <<n, m>> /\ x # <<m, n>> => wire'[x] = wire[x]
  /\ Grew(wire[<<n, m>>], wire'[<<n, m>>], n)
  /\ Shrank(wire[<<m, n>>], wire'[<<m, n>>], peerTip[<<n, m>>], peerTip'[<<n, m>>])
  /\ \A x \in Pairs : phase'[x] = "ready" =>
       peerTip'[x] \in AllBlocks \/ (phase[x] = "ready" /\ peerTip'[x] = peerTip[x])

TipsGrow == \A n \in Nodes : LocalWork(n)' \in Nat /\ LocalWork(n) <= LocalWork(n)'

LEMMA EndClaimsRise ==
  ASSUME IInv, ClaimsRise, TipsGrow, NEW n, NEW m, <<n, m>> \in Pairs, EndClaims(n, m)
  PROVE  ClaimsRise'
<1>1. /\ n \in Nodes /\ m \in Nodes /\ n # m /\ <<m, n>> \in Pairs /\ <<n, m>> # <<m, n>>
  BY PairFacts
<1> SUFFICES ASSUME NEW i \in Nodes, NEW j \in Nodes, <<i, j>> \in Pairs
             PROVE  /\ Said(i, j)' <= LocalWork(j)'
                    /\ Rising(wire'[<<j, i>>], Said(i, j)', LocalWork(j)')
                    /\ phase'[<<i, j>>] = "ready" => peerTip'[<<i, j>>] \in AllBlocks
  BY DEF ClaimsRise, Rising, Claims
<1> DEFINE s == wire[<<j, i>>]
           t == wire'[<<j, i>>]
           high == LocalWork(j)
           more == LocalWork(j)'
           low == Said(i, j)
           low2 == Said(i, j)'
<1>2. <<j, i>> \in Pairs /\ s \in Seq(SoundFrames)
  BY PairFacts DEF IInv, EndsTyped, Streams
<1>3. /\ low <= high /\ Rising(s, low, high)
      /\ phase[<<i, j>>] = "ready" => peerTip[<<i, j>>] \in AllBlocks
  BY DEF ClaimsRise
<1>4. high \in Nat /\ more \in Nat /\ high <= more
  BY <1>2, EndFacts DEF TipsGrow
<1>5. low \in Nat
  BY BlockFacts DEF Said, IInv, EndsTyped
<1> HIDE DEF s, t, high, more, low, low2
<1>6. phase'[<<i, j>>] = "ready" => peerTip'[<<i, j>>] \in AllBlocks
  BY <1>3 DEF EndClaims
<1> SUFFICES low2 <= more /\ Rising(t, low2, more)
  BY <1>6 DEF low2, more, t
<1>7. ASSUME NEW l \in Nat, NEW r \in Seq(SoundFrames), l <= high, Rising(r, l, high),
             t = r, low2 = l
      PROVE  low2 <= more /\ Rising(t, low2, more)
  <2>1. Rising(r, l, more)
    BY <1>4, <1>7, RisingHigher
  <2> QED
    BY <1>4, <1>7, <2>1
<1>8. peerTip'[<<i, j>>] = peerTip[<<i, j>>] => low2 = low
  BY DEF Said, low, low2
<1>9. CASE t = s /\ low2 = low
  BY <1>2, <1>3, <1>5, <1>7, <1>9
<1>10. CASE i = m /\ j = n
  <2>1. peerTip'[<<i, j>>] = peerTip[<<i, j>>] /\ Grew(s, t, j)
    BY <1>1, <1>10 DEF EndClaims, s, t
  <2>2. CASE t = s
    BY <1>8, <1>9, <2>1, <2>2
  <2>3. ASSUME NEW f \in SoundFrames, t = Append(s, f),
               f.type \in ClaimTypes => Work[f.tip] = high
        PROVE  low2 <= more /\ Rising(t, low2, more)
    <3>1. Rising(Append(s, f), low, high)
      BY <1>2, <1>3, <1>4, <1>5, <2>3, RisingAppend
    <3>2. Append(s, f) \in Seq(SoundFrames)
      BY <1>2
    <3> QED
      BY <1>3, <1>5, <1>7, <1>8, <2>1, <2>3, <3>1, <3>2
  <2> QED
    BY <2>1, <2>2, <2>3, <1>8, <1>9 DEF Grew, high
<1>11. CASE i = n /\ j = m
  <2>1. Shrank(s, t, peerTip[<<i, j>>], peerTip'[<<i, j>>])
    BY <1>11 DEF EndClaims, s, t
  <2>2. CASE t = s /\ peerTip'[<<i, j>>] = peerTip[<<i, j>>]
    BY <1>8, <1>9, <2>2
  <2>3. CASE t = <<>> /\ peerTip'[<<i, j>>] = NoBlock
    <3>1. low2 = 0
      BY <2>3 DEF low2, Said
    <3>2. Rising(<<>>, 0, high) /\ <<>> \in Seq(SoundFrames)
      BY RisingEmpty
    <3>3. 0 \in Nat /\ 0 <= high
      BY <1>4
    <3>4. Rising(<<>>, 0, more)
      BY <1>4, <3>2, <3>3, RisingHigher
    <3> QED
      BY <1>4, <2>3, <3>1, <3>4
  <2>4. CASE s # <<>> /\ t = Tail(s)
    <3>1. /\ Rising(Tail(s), low, high) /\ Tail(s) \in Seq(SoundFrames)
          /\ Head(s).type \in ClaimTypes =>
               /\ Head(s).tip \in AllBlocks
               /\ low <= Work[Head(s).tip] /\ Work[Head(s).tip] <= high
               /\ Rising(Tail(s), Work[Head(s).tip], high)
      BY <1>2, <1>3, <2>4, RisingTail
    <3>2. CASE peerTip'[<<i, j>>] = peerTip[<<i, j>>]
      BY <1>3, <1>5, <1>7, <1>8, <2>4, <3>1, <3>2
    <3>3. CASE Head(s).type \in ClaimTypes /\ peerTip'[<<i, j>>] = Head(s).tip
      <4>1. Work[Head(s).tip] \in Nat /\ Head(s).tip # NoBlock
        BY <3>1, <3>3, BlockFacts, PeerSyncAssumption DEF PeerSyncAssumption, AllBlocks
      <4>2. low2 = Work[Head(s).tip]
        BY <3>3, <4>1 DEF low2, Said
      <4> QED
        BY <1>7, <2>4, <3>1, <3>3, <4>1, <4>2
    <3> QED
      BY <2>1, <2>2, <2>3, <2>4, <3>2, <3>3 DEF Shrank
  <2> QED
    BY <2>1, <2>2, <2>3, <2>4 DEF Shrank
<1>12. CASE <<i, j>> # <<n, m>> /\ <<i, j>> # <<m, n>>
  <2>1. <<j, i>> # <<n, m>> /\ <<j, i>> # <<m, n>>
    BY <1>12
  <2>2. t = s /\ peerTip'[<<i, j>>] = peerTip[<<i, j>>]
    BY <1>2, <1>12, <2>1 DEF EndClaims, s, t
  <2> QED
    BY <1>8, <1>9, <2>2
<1> QED
  BY <1>10, <1>11, <1>12
(* What an end writes: nothing, or a frame that claims no more and no less than
   its work. *)
Honest(n, fs) ==
  \/ fs = <<>>
  \/ \E f \in SoundFrames :
       fs = <<f>> /\ (f.type \in ClaimTypes => Work[f.tip] = LocalWork(n))

TakesOne(n, m, w) == wire[<<m, n>>] # <<>> /\ w = Taken(n, m)

LEMMA WrittenGrows ==
  ASSUME NEW w \in Streams, NEW n, NEW m, <<n, m>> \in Pairs, NEW fs, Honest(n, fs),
         NEW v, v = Written(w, n, m, fs)
  PROVE  /\ v \in Streams /\ Grew(w[<<n, m>>], v[<<n, m>>], n)
         /\ \A x \in Pairs : x # <<n, m>> => v[x] = w[x]
<1> DEFINE s == w[<<n, m>>]
<1>1. s \in Seq(SoundFrames)
  BY DEF Streams
<1>2. CASE phase[<<m, n>>] = "closed" \/ fs = <<>>
  <2>1. v = w
    BY <1>2, NothingWritten DEF Written
  <2> QED
    BY <2>1 DEF Grew
<1>3. ASSUME phase[<<m, n>>] # "closed", NEW f \in SoundFrames, fs = <<f>>,
             f.type \in ClaimTypes => Work[f.tip] = LocalWork(n)
      PROVE  /\ v \in Streams /\ Grew(w[<<n, m>>], v[<<n, m>>], n)
             /\ \A x \in Pairs : x # <<n, m>> => v[x] = w[x]
  <2> HIDE DEF s
  <2>1. s \o fs = Append(s, f) /\ Append(s, f) \in Seq(SoundFrames)
    BY <1>1, <1>3
  <2>2. v = [w EXCEPT ![<<n, m>>] = Append(s, f)]
    BY <1>3, <2>1 DEF Written, s
  <2>3. v \in Streams /\ v[<<n, m>>] = Append(s, f) /\ \A x \in Pairs : x # <<n, m>> => v[x] = w[x]
    BY <2>1, <2>2 DEF Streams
  <2> QED
    BY <1>3, <2>3 DEF Grew, s
<1> QED
  BY <1>2, <1>3 DEF Honest

LEMMA TakenShrinks ==
  ASSUME wire \in Streams, NEW n, NEW m, <<n, m>> \in Pairs, NEW w, w = wire \/ TakesOne(n, m, w)
  PROVE  /\ w \in Streams /\ \A x \in Pairs : x # <<m, n>> => w[x] = wire[x]
         /\ w = wire \/ w[<<m, n>>] = Tail(wire[<<m, n>>])
<1> DEFINE s == wire[<<m, n>>]
<1>1. s \in Seq(SoundFrames) /\ <<m, n>> \in Pairs
  BY PairFacts DEF Streams
<1>2. CASE TakesOne(n, m, w)
  <2>1. w = [wire EXCEPT ![<<m, n>>] = Tail(s)] /\ s # <<>>
    BY <1>2 DEF TakesOne, Taken
  <2> HIDE DEF s
  <2>2. Tail(s) \in Seq(SoundFrames)
    BY <1>1, <2>1
  <2>3. w \in Streams /\ w[<<m, n>>] = Tail(s) /\ \A x \in Pairs : x # <<m, n>> => w[x] = wire[x]
    BY <1>1, <2>1, <2>2 DEF Streams
  <2> QED
    BY <2>3 DEF s
<1> QED
  BY <1>2

(* An end that stays open, whose reader may take down what the frame claims. *)
LEMMA MoveClaims ==
  ASSUME IInv, NEW n, NEW m, <<n, m>> \in Pairs, NEW w, NEW fs,
         w = wire \/ TakesOne(n, m, w), wire' = Written(w, n, m, fs), Honest(n, fs),
         \/ peerTip' = peerTip /\ \A x \in Pairs : phase'[x] = "ready" => phase[x] = "ready"
         \/ /\ TakesOne(n, m, w) /\ Head(wire[<<m, n>>]).type \in ClaimTypes
            /\ peerTip' = [peerTip EXCEPT ![<<n, m>>] = Head(wire[<<m, n>>]).tip]
            /\ \A x \in Pairs : x # <<n, m>> => phase'[x] = phase[x]
  PROVE  EndClaims(n, m)
<1> DEFINE s == wire[<<m, n>>]
<1>1. /\ n \in Nodes /\ m \in Nodes /\ n # m /\ <<m, n>> \in Pairs /\ <<n, m>> # <<m, n>>
  BY PairFacts
<1>2. wire \in Streams /\ peerTip \in [Pairs -> AllBlocks \cup {NoBlock}] /\ s \in Seq(SoundFrames)
  BY <1>1 DEF IInv, EndsTyped, Streams
<1>3. /\ w \in Streams /\ \A x \in Pairs : x # <<m, n>> => w[x] = wire[x]
      /\ w = wire \/ w[<<m, n>>] = Tail(s)
  BY <1>2, TakenShrinks
<1>4. /\ Grew(w[<<n, m>>], wire'[<<n, m>>], n)
      /\ \A x \in Pairs : x # <<n, m>> => wire'[x] = w[x]
  BY <1>3, WrittenGrows
<1>5. Grew(wire[<<n, m>>], wire'[<<n, m>>], n)
  BY <1>1, <1>3, <1>4
<1>6. wire'[<<m, n>>] = s \/ (wire'[<<m, n>>] = Tail(s) /\ s # <<>>)
  BY <1>1, <1>3, <1>4 DEF TakesOne
<1>7. \A x \in Pairs : x # <<n, m>> /\ x # <<m, n>> => wire'[x] = wire[x]
  BY <1>3, <1>4
<1>8. CASE peerTip' = peerTip /\ \A x \in Pairs : phase'[x] = "ready" => phase[x] = "ready"
  <2>1. Shrank(s, wire'[<<m, n>>], peerTip[<<n, m>>], peerTip'[<<n, m>>])
    BY <1>6, <1>8 DEF Shrank
  <2> QED
    BY <1>5, <1>7, <1>8, <2>1 DEF EndClaims
<1>9. CASE /\ TakesOne(n, m, w) /\ Head(s).type \in ClaimTypes
           /\ peerTip' = [peerTip EXCEPT ![<<n, m>>] = Head(s).tip]
           /\ \A x \in Pairs : x # <<n, m>> => phase'[x] = phase[x]
  <2>1. s # <<>> /\ wire'[<<m, n>>] = Tail(s)
    <3>1. w[<<m, n>>] = Tail(s) /\ s # <<>>
      BY <1>1, <1>2, <1>9 DEF TakesOne, Taken, Streams
    <3> QED
      BY <1>1, <1>4, <3>1
  <2>2. Head(s) \in SoundFrames
    <3> HIDE DEF s
    <3> QED
      BY <1>2, <2>1
  <2>3. Head(s).tip \in AllBlocks
    BY <1>9, <2>2, FramesRead DEF ClaimTypes
  <2> HIDE DEF s
  <2>4. /\ peerTip'[<<n, m>>] = Head(s).tip
        /\ \A x \in Pairs : x # <<n, m>> => peerTip'[x] = peerTip[x]
    BY <1>2, <1>9
  <2>5. Shrank(s, wire'[<<m, n>>], peerTip[<<n, m>>], peerTip'[<<n, m>>])
    BY <1>9, <2>1, <2>4 DEF Shrank
  <2>6. \A x \in Pairs : phase'[x] = "ready" =>
          peerTip'[x] \in AllBlocks \/ (phase[x] = "ready" /\ peerTip'[x] = peerTip[x])
    BY <1>9, <2>3, <2>4
  <2> QED
    BY <1>5, <1>7, <2>4, <2>5, <2>6 DEF EndClaims, s
<1> QED
  BY <1>8, <1>9

(* An end that closes. *)
LEMMA CloseClaims ==
  ASSUME IInv, NEW n, NEW m, <<n, m>> \in Pairs, NEW w, w = wire \/ TakesOne(n, m, w),
         Close(n, m, w)
  PROVE  EndClaims(n, m)
<1> DEFINE v == Written(w, n, m, <<EndOfStream>>)
<1>1. /\ n \in Nodes /\ m \in Nodes /\ n # m /\ <<m, n>> \in Pairs /\ <<n, m>> # <<m, n>>
  BY PairFacts
<1>2. /\ wire \in Streams /\ peerTip \in [Pairs -> AllBlocks \cup {NoBlock}]
      /\ phase \in [Pairs -> Phases]
  BY DEF IInv, EndsTyped
<1>3. w \in Streams /\ \A x \in Pairs : x # <<m, n>> => w[x] = wire[x]
  BY <1>2, TakenShrinks
<1>4. Honest(n, <<EndOfStream>>)
  BY FramesMade DEF Honest, ClaimTypes
<1>5. /\ v \in Streams /\ Grew(w[<<n, m>>], v[<<n, m>>], n)
      /\ \A x \in Pairs : x # <<n, m>> => v[x] = w[x]
  BY <1>3, <1>4, WrittenGrows
<1>6. wire' = [v EXCEPT ![<<m, n>>] = <<>>]
  BY DEF Close, ClosedEnd
<1> HIDE DEF v
<1>7. /\ wire'[<<m, n>>] = <<>> /\ Grew(wire[<<n, m>>], wire'[<<n, m>>], n)
      /\ \A x \in Pairs : x # <<n, m>> /\ x # <<m, n>> => wire'[x] = wire[x]
  BY <1>1, <1>3, <1>5, <1>6 DEF Streams
<1>8. /\ peerTip'[<<n, m>>] = NoBlock /\ phase'[<<n, m>>] = "closed"
      /\ \A x \in Pairs : x # <<n, m>> => peerTip'[x] = peerTip[x] /\ phase'[x] = phase[x]
  BY <1>2 DEF Close
<1> QED
  BY <1>7, <1>8 DEF EndClaims, Shrank
LEMMA HonestFrames ==
  ASSUME IInv, NEW n \in Nodes
  PROVE  /\ Honest(n, <<>>)
         /\ Honest(n, <<HelloFrame(tip[n])>>) /\ Honest(n, <<SyncCompleteFrame(tip[n])>>)
         /\ Honest(n, <<GetBlocksFrame(Locator(tip[n]))>>)
         /\ \A m : Honest(n, RequestFrames(n, m))
         /\ \A b \in Blocks : Honest(n, <<BlockFrame(b)>>)
<1>1. tip[n] \in AllBlocks
  BY DEF IInv, NodesTyped
<1>2. Honest(n, <<HelloFrame(tip[n])>>)
  BY <1>1, FramesMade DEF Honest, HelloFrame, LocalWork
<1>3. Honest(n, <<SyncCompleteFrame(tip[n])>>)
  BY <1>1, FramesMade DEF Honest, SyncCompleteFrame, LocalWork
<1>4. Honest(n, <<GetBlocksFrame(Locator(tip[n]))>>)
  BY <1>1, FramesMade DEF Honest, ClaimTypes
<1>5. \A b \in Blocks : Honest(n, <<BlockFrame(b)>>)
  BY FramesMade DEF Honest, ClaimTypes
<1>6. Honest(n, <<>>)
  BY DEF Honest
<1> QED
  BY <1>2, <1>3, <1>4, <1>5, <1>6 DEF RequestFrames

(* The steps of an end, whatever they read and write. *)
LEMMA ServeClaims ==
  ASSUME IInv, NEW n, NEW m, <<n, m>> \in Pairs,
         Serve(n, m) \/ SendRelay(n, m) \/ Drop(n, m) \/ Dial(n, m)
  PROVE  EndClaims(n, m)
<1> DEFINE s == wire[<<m, n>>]
<1>1. /\ n \in Nodes /\ phase \in [Pairs -> Phases] /\ wire \in Streams
      /\ batch \in [Pairs -> Batches] /\ relay \in [Pairs -> Relays]
  BY PairFacts DEF IInv, EndsTyped, NodesTyped
<1>2. /\ Honest(n, <<>>)
      /\ Honest(n, <<HelloFrame(tip[n])>>) /\ Honest(n, <<SyncCompleteFrame(tip[n])>>)
      /\ Honest(n, <<GetBlocksFrame(Locator(tip[n]))>>)
      /\ \A x : Honest(n, RequestFrames(n, x))
      /\ \A b \in Blocks : Honest(n, <<BlockFrame(b)>>)
  BY <1>1, HonestFrames
<1>3. ASSUME NEW fs, NEW w, Honest(n, fs), wire' = Written(w, n, m, fs),
             w = wire \/ TakesOne(n, m, w), peerTip' = peerTip,
             \A x \in Pairs : phase'[x] = "ready" => phase[x] = "ready"
      PROVE  EndClaims(n, m)
  BY <1>3, MoveClaims
<1>4. ASSUME NEW type, Arrived(n, m, type)
      PROVE  TakesOne(n, m, Taken(n, m)) /\ Head(s).type = type
  BY <1>4 DEF Arrived, TakesOne
<1>5. wire' = wire => wire' = Written(wire, n, m, <<>>)
  BY <1>1, NothingWritten
<1>6. ASSUME NEW type, Arrived(n, m, type), wire' = Taken(n, m)
      PROVE  wire' = Written(Taken(n, m), n, m, <<>>)
  BY <1>6, TakenTyped, NothingWritten
<1> HIDE DEF s
<1>7. CASE Dial(n, m)
  <2>1. wire' = wire /\ peerTip' = peerTip
    BY <1>7 DEF Dial
  <2>2. \A x \in Pairs : phase'[x] = "ready" => phase[x] = "ready"
    BY <1>1, <1>7 DEF Dial
  <2> QED
    BY <1>2, <1>3, <1>5, <2>1, <2>2
<1>8. CASE Greet(n, m)
  <2>1. wire' = Written(wire, n, m, <<HelloFrame(tip[n])>>) /\ peerTip' = peerTip
    BY <1>8 DEF Greet
  <2>2. \A x \in Pairs : phase'[x] = "ready" => phase[x] = "ready"
    BY <1>1, <1>8 DEF Greet
  <2> QED
    BY <1>2, <1>3, <2>1, <2>2
<1>9. CASE ReceiveHello(n, m)
  <2> DEFINE b == Head(wire[<<m, n>>]).tip
             behind == Work[b] > LocalWork(n)
             fs == IF behind THEN RequestFrames(n, m) ELSE <<>>
  <2>1. /\ Arrived(n, m, "HELLO")
        /\ phase' = [phase EXCEPT ![<<n, m>>] = "ready"]
        /\ peerTip' = [peerTip EXCEPT ![<<n, m>>] = b]
        /\ wire' = Written(Taken(n, m), n, m, fs)
    BY <1>9 DEF ReceiveHello
  <2>2. Honest(n, fs)
    BY <1>2
  <2>3. TakesOne(n, m, Taken(n, m)) /\ Head(wire[<<m, n>>]).type \in ClaimTypes
    BY <1>4, <2>1 DEF ClaimTypes, s
  <2>4. \A x \in Pairs : x # <<n, m>> => phase'[x] = phase[x]
    BY <1>1, <2>1
  <2> HIDE DEF fs
  <2> QED
    BY <2>1, <2>2, <2>3, <2>4, MoveClaims
<1>10. CASE HandleGetBlocks(n, m)
  <2>1. /\ Arrived(n, m, "GET_BLOCKS") /\ peerTip' = peerTip /\ phase' = phase
        /\ \/ wire' = Written(Taken(n, m), n, m, <<SyncCompleteFrame(tip[n])>>)
           \/ wire' = Taken(n, m)
    BY <1>10 DEF HandleGetBlocks
  <2> QED
    BY <1>2, <1>3, <1>4, <1>6, <2>1
<1>11. CASE SendBatchBlock(n, m)
  <2>1. /\ wire' = Written(wire, n, m, <<BlockFrame(Head(batch[<<n, m>>].blocks))>>)
        /\ peerTip' = peerTip /\ phase' = phase /\ batch[<<n, m>>].blocks # <<>>
    BY <1>11 DEF SendBatchBlock
  <2>2. Head(batch[<<n, m>>].blocks) \in Blocks
    <3> DEFINE r == batch[<<n, m>>].blocks
    <3>1. r \in Seq(Blocks) /\ r # <<>>
      BY <1>1, <2>1 DEF Batches
    <3> HIDE DEF r
    <3>2. Head(r) \in Blocks
      BY <3>1
    <3> QED
      BY <3>2 DEF r
  <2> QED
    BY <1>2, <1>3, <2>1, <2>2
<1>12. CASE SendSummary(n, m)
  <2>1. /\ wire' = Written(wire, n, m, <<SyncCompleteFrame(tip[n])>>)
        /\ peerTip' = peerTip /\ phase' = phase
    BY <1>12 DEF SendSummary
  <2> QED
    BY <1>2, <1>3, <2>1
<1>13. CASE HandleBlock(n, m)
  <2>1. /\ Arrived(n, m, "BLOCK") /\ peerTip' = peerTip /\ phase' = phase
        /\ \/ wire' = Written(Taken(n, m), n, m, RequestFrames(n, m))
           \/ wire' = Taken(n, m)
    BY <1>13 DEF HandleBlock
  <2> QED
    BY <1>2, <1>3, <1>4, <1>6, <2>1
<1>14. CASE HandleSyncComplete(n, m)
  <2> DEFINE b == Head(wire[<<m, n>>]).tip
  <2>1. TakesOne(n, m, Taken(n, m)) /\ Head(wire[<<m, n>>]).type \in ClaimTypes
    BY <1>4, <1>14 DEF HandleSyncComplete, ClaimTypes, s
  <2>2. CASE Close(n, m, Taken(n, m))
    BY <2>1, <2>2, CloseClaims
  <2>3. CASE /\ peerTip' = [peerTip EXCEPT ![<<n, m>>] = b] /\ phase' = phase
             /\ \/ wire' = Written(Taken(n, m), n, m, <<GetBlocksFrame(Locator(tip[n]))>>)
                \/ wire' = Taken(n, m)
    <3>1. \/ wire' = Written(Taken(n, m), n, m, <<GetBlocksFrame(Locator(tip[n]))>>)
          \/ wire' = Written(Taken(n, m), n, m, <<>>)
      BY <1>6, <1>14, <2>3 DEF HandleSyncComplete
    <3> QED
      BY <1>2, <2>1, <2>3, <3>1, MoveClaims
  <2> QED
    BY <1>14, <2>2, <2>3 DEF HandleSyncComplete
<1>15. CASE HangUp(n, m) \/ Drop(n, m)
  BY <1>15, CloseClaims DEF HangUp, Drop
<1>16. CASE SendRelay(n, m)
  <2>1. /\ wire' = Written(wire, n, m, <<BlockFrame(Head(relay[<<n, m>>]).block)>>)
        /\ peerTip' = peerTip /\ phase' = phase /\ relay[<<n, m>>] # <<>>
    BY <1>16 DEF SendRelay
  <2>2. Head(relay[<<n, m>>]).block \in Blocks
    <3> DEFINE r == relay[<<n, m>>]
               S == [block : Blocks, via : Nodes \cup {NoNode}]
    <3>1. r \in Seq(S) /\ r # <<>>
      BY <1>1, <2>1 DEF Relays
    <3> HIDE DEF r, S
    <3>2. Head(r) \in S
      BY <3>1
    <3> QED
      BY <3>2 DEF r, S
  <2> QED
    BY <1>2, <1>3, <2>1, <2>2
<1> QED
  BY <1>7, <1>8, <1>9, <1>10, <1>11, <1>12, <1>13, <1>14, <1>15, <1>16 DEF Serve

(* Fork choice: no step takes work from a chain. *)
LEMMA TipsOnlyGrow ==
  ASSUME IInv, [Next]_vars
  PROVE  TipsGrow
<1>1. tip \in [Nodes -> AllBlocks] /\ \A b \in AllBlocks : Work[b] \in Nat
  BY BlockFacts DEF IInv, NodesTyped
<1>2. CASE tip' = tip
  BY <1>1, <1>2 DEF TipsGrow, LocalWork
<1>3. ASSUME NEW n \in Nodes, NEW b \in Blocks, Accept(n, b)
      PROVE  TipsGrow
  BY <1>1, <1>3 DEF Accept, TipsGrow, LocalWork, AllBlocks
<1>4. ASSUME NEW n \in Nodes, Mine(n) PROVE TipsGrow
  <2>1. PICK b \in network.mines[n] : Accept(n, b)
    BY <1>4 DEF Mine
  <2>2. b \in Blocks
    BY DEF IInv, NodesTyped, Network
  <2> QED
    BY <1>3, <2>1, <2>2
<1>5. ASSUME NEW n, NEW m, <<n, m>> \in Pairs, HandleBlock(n, m) PROVE TipsGrow
  <2> DEFINE b == Head(wire[<<m, n>>]).block
  <2>1. Accept(n, b) \/ tip' = tip
    BY <1>5 DEF HandleBlock, chainVars
  <2>2. b \in Blocks /\ n \in Nodes
    <3>1. Arrived(n, m, "BLOCK")
      BY <1>5 DEF HandleBlock
    <3>2. Head(wire[<<m, n>>]) \in SoundFrames /\ Head(wire[<<m, n>>]).type = "BLOCK"
      BY <1>5, <3>1, HeadFrame
    <3> QED
      BY <1>5, <3>2, FramesRead, PairFacts
  <2> HIDE DEF b
  <2> QED
    BY <1>2, <1>3, <2>1, <2>2
<1>6. ASSUME NEW n, NEW m, <<n, m>> \in Pairs,
             \/ Serve(n, m) /\ ~HandleBlock(n, m)
             \/ SendRelay(n, m) \/ Drop(n, m) \/ Dial(n, m)
      PROVE  tip' = tip
  BY <1>6 DEF Serve, Greet, ReceiveHello, HandleGetBlocks, SendBatchBlock, SendSummary,
              HandleSyncComplete, HangUp, SendRelay, Drop, Dial, chainVars
<1>7. UNCHANGED vars => tip' = tip
  BY DEF vars
<1>8. ASSUME NEW p \in Pairs,
             \/ Dial(p[1], p[2]) \/ Serve(p[1], p[2])
             \/ SendRelay(p[1], p[2]) \/ Drop(p[1], p[2])
      PROVE  TipsGrow
  <2>1. <<p[1], p[2]>> \in Pairs
    BY DEF Pairs
  <2> QED
    BY <1>2, <1>5, <1>6, <1>8, <2>1 DEF Serve
<1> QED
  BY <1>2, <1>4, <1>7, <1>8 DEF Next

LEMMA InitClaimsRise == Init => ClaimsRise
<1> SUFFICES ASSUME Init PROVE ClaimsRise
  OBVIOUS
<1> SUFFICES ASSUME NEW n \in Nodes, NEW m \in Nodes, <<n, m>> \in Pairs
             PROVE  /\ Said(n, m) <= LocalWork(m)
                    /\ Rising(wire[<<m, n>>], Said(n, m), LocalWork(m))
                    /\ phase[<<n, m>>] = "ready" => peerTip[<<n, m>>] \in AllBlocks
  BY DEF ClaimsRise
<1>1. wire[<<m, n>>] = <<>> /\ Said(n, m) = 0 /\ phase[<<n, m>>] = "closed"
  BY PairFacts DEF Init, Said
<1>2. LocalWork(m) \in Nat
  BY BlockFacts DEF Init, LocalWork
<1>3. Rising(<<>>, 0, LocalWork(m))
  BY RisingEmpty
<1> QED
  BY <1>1, <1>2, <1>3

LEMMA NextClaimsRise == IInv /\ ClaimsRise /\ [Next]_vars => ClaimsRise'
<1> SUFFICES ASSUME IInv, ClaimsRise, [Next]_vars PROVE ClaimsRise'
  OBVIOUS
<1>1. TipsGrow
  BY TipsOnlyGrow
<1>2. ASSUME NEW p \in Pairs,
             \/ Dial(p[1], p[2]) \/ Serve(p[1], p[2])
             \/ SendRelay(p[1], p[2]) \/ Drop(p[1], p[2])
      PROVE  ClaimsRise'
  <2>1. <<p[1], p[2]>> \in Pairs
    BY DEF Pairs
  <2>2. EndClaims(p[1], p[2])
    BY <1>2, <2>1, ServeClaims
  <2> QED
    BY <1>1, <2>1, <2>2, EndClaimsRise
<1>3. ASSUME UNCHANGED <<phase, peerTip, wire>> PROVE ClaimsRise'
  <2> SUFFICES ASSUME NEW n \in Nodes, NEW m \in Nodes, <<n, m>> \in Pairs
               PROVE  /\ Said(n, m)' <= LocalWork(m)'
                      /\ Rising(wire'[<<m, n>>], Said(n, m)', LocalWork(m)')
                      /\ phase'[<<n, m>>] = "ready" => peerTip'[<<n, m>>] \in AllBlocks
    BY DEF ClaimsRise, Rising, Claims
  <2>1. EndClaims(n, m)
    BY <1>3 DEF EndClaims, Grew, Shrank
  <2>2. ClaimsRise'
    BY <1>1, <2>1, EndClaimsRise
  <2> QED
    BY <2>2 DEF ClaimsRise, Rising, Claims
<1>4. ASSUME NEW n \in Nodes, Mine(n) PROVE UNCHANGED <<phase, peerTip, wire>>
  BY <1>4 DEF Mine
<1>5. UNCHANGED vars => UNCHANGED <<phase, peerTip, wire>>
  BY DEF vars
<1> QED
  BY <1>2, <1>3, <1>4, <1>5 DEF Next

(* A correct peer is never charged for work that moved backwards, however its
   blocks, summaries and reorganizations cross the reader's own: a new penalty
   is always for the no-progress rule (_handle_sync_complete). *)
ChargedForNoProgress ==
  [][\A p \in penalized' \ penalized :
       NoProgress(p[1], p[2], Head(wire[p[2], p[1]]).tip)]_vars

THEOREM ChargedForNoProgressTheorem == Spec => ChargedForNoProgress
<1> DEFINE Step == \A p \in penalized' \ penalized :
                     NoProgress(p[1], p[2], Head(wire[p[2], p[1]]).tip)
<1>1. ASSUME IInv, ClaimsRise, NEW n, NEW m, <<n, m>> \in Pairs, HandleSyncComplete(n, m)
      PROVE  ~MovedBackwards(n, m, Head(wire[<<m, n>>]).tip)
  <2> DEFINE s == wire[<<m, n>>]
  <2>1. /\ s \in Seq(SoundFrames) /\ s # <<>> /\ Head(s).type \in ClaimTypes
        /\ phase[<<n, m>>] = "ready" /\ n \in Nodes /\ m \in Nodes
    BY <1>1, PairFacts DEF HandleSyncComplete, Arrived, Reading, ClaimTypes, IInv, EndsTyped, Streams
  <2>2. peerTip[<<n, m>>] \in AllBlocks /\ Rising(s, Said(n, m), LocalWork(m))
    BY <1>1, <2>1 DEF ClaimsRise
  <2>3. Said(n, m) = Work[peerTip[<<n, m>>]] /\ Work[peerTip[<<n, m>>]] \in Nat
    BY <2>2, BlockFacts, PeerSyncAssumption DEF Said, PeerSyncAssumption, AllBlocks
  <2> HIDE DEF s
  <2>4. Head(s).tip \in AllBlocks /\ Said(n, m) <= Work[Head(s).tip]
    BY <2>1, <2>2, RisingTail
  <2>5. Work[Head(s).tip] \in Nat
    BY <2>4, BlockFacts
  <2>6. ~(Work[Head(s).tip] < Work[peerTip[<<n, m>>]])
    BY <2>3, <2>4, <2>5
  <2> QED
    BY <2>6 DEF MovedBackwards, s
<1>2. ASSUME IInv, ClaimsRise, NEW n, NEW m, <<n, m>> \in Pairs,
             Dial(n, m) \/ Serve(n, m) \/ SendRelay(n, m) \/ Drop(n, m)
      PROVE  Step
  <2>1. CASE HandleSyncComplete(n, m)
    <3>1. ~MovedBackwards(n, m, Head(wire[<<m, n>>]).tip)
      BY <1>1, <1>2, <2>1
    <3>2. \/ penalized' = penalized
          \/ /\ penalized' = penalized \cup {<<n, m>>}
             /\ NoProgress(n, m, Head(wire[<<m, n>>]).tip)
      BY <2>1, <3>1 DEF HandleSyncComplete
    <3>3. ASSUME NEW p \in penalized' \ penalized
          PROVE  NoProgress(p[1], p[2], Head(wire[p[2], p[1]]).tip)
      <4>1. p = <<n, m>>
        BY <3>2
      <4>2. p[1] = n /\ p[2] = m
        BY <4>1
      <4> QED
        BY <3>2, <4>2
    <3> QED
      BY <3>3
  <2>2. CASE ~HandleSyncComplete(n, m)
    <3>1. penalized' = penalized
      BY <1>2, <2>2 DEF Serve, Greet, ReceiveHello, HandleGetBlocks, SendBatchBlock,
                        SendSummary, HandleBlock, HangUp, SendRelay, Drop, Dial
    <3> QED
      BY <3>1
  <2> QED
    BY <2>1, <2>2
<1>3. IInv /\ ClaimsRise /\ [Next]_vars => Step
  <2> SUFFICES ASSUME IInv, ClaimsRise, [Next]_vars PROVE Step
    OBVIOUS
  <2>1. ASSUME NEW p \in Pairs,
               \/ Dial(p[1], p[2]) \/ Serve(p[1], p[2])
               \/ SendRelay(p[1], p[2]) \/ Drop(p[1], p[2])
        PROVE  Step
    <3>1. <<p[1], p[2]>> \in Pairs
      BY DEF Pairs
    <3> QED
      BY <1>2, <2>1, <3>1
  <2>2. (\E n \in Nodes : Mine(n)) \/ UNCHANGED vars => penalized' = penalized
    BY DEF Mine, vars
  <2>3. penalized' = penalized => Step
    OBVIOUS
  <2> QED
    BY <2>1, <2>2, <2>3 DEF Next
<1>4. ChargedForNoProgress <=> [][Step]_vars
  BY PTL DEF ChargedForNoProgress
<1> QED
  BY <1>3, <1>4, InitClaimsRise, NextClaimsRise, Invariance, PTL DEF Spec
=============================================================================
