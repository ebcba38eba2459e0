--------------------------- MODULE BlockTreeProofs ---------------------------
(***************************************************************************)
(* What the consensus rules of Ledger and the tree operations of BlockTree *)
(* do, for every block, every account table and every constant: sums of    *)
(* balances, the schedule of subsidies, the run of a block's body, what an *)
(* accepted block adds, branches, ancestors and reorganisations.           *)
(*                                                                         *)
(* Sums, runs, branches and walks are recursive functions.  That such a    *)
(* function exists, and what it computes, is proved by the least natural   *)
(* number for which it would fail (NatMin).                                *)
(***************************************************************************)
EXTENDS BlockTree, Functions, SequencesExt, FiniteSetTheorems, WellFoundedInduction, TLAPS

(* A set of natural numbers that is not empty has a least element. *)
LEMMA NatMin ==
  ASSUME NEW T \in SUBSET Nat, T # {}
  PROVE  \E x \in T : \A y \in T : x <= y
<1>1. \E R : IsWellFoundedOn(R, Nat) /\ \A x, y \in Nat : x < y => <<x, y>> \in R
  <2>1. IsWellFoundedOn(OpToRel(<, Nat), Nat)
    BY NatLessThanWellFounded, Zenon
  <2>2. \A x, y \in Nat : x < y => <<x, y>> \in OpToRel(<, Nat)
    BY Zenon DEF OpToRel
  <2> QED
    BY <2>1, <2>2, Zenon
<1>2. PICK R : IsWellFoundedOn(R, Nat) /\ \A x, y \in Nat : x < y => <<x, y>> \in R
  BY <1>1
<1>3. \E x \in T : \A y \in T : ~(<<y, x>> \in R)
  <2>1. IsWellFoundedOn(R, Nat)
    BY <1>2
  <2>2. T \subseteq Nat /\ T # {}
    OBVIOUS
  <2> QED
    BY <2>1, <2>2, WFMin
<1>4. PICK x \in T : \A y \in T : ~(<<y, x>> \in R)
  BY <1>3
<1>5. \A y \in T : ~(y < x)
  BY <1>2, <1>4
<1>6. \A y \in T : x <= y
  BY <1>5
<1> QED
  BY <1>6

(* Induction: a set that contains 0, and n + 1 with n, contains every natural
   number. *)
LEMMA Induction ==
  ASSUME NEW H, 0 \in H, \A n \in Nat : n \in H => n + 1 \in H
  PROVE  Nat \subseteq H
<1> SUFFICES ASSUME Nat \ H # {} PROVE FALSE
  OBVIOUS
<1>1. PICK n \in Nat \ H : \A m \in Nat \ H : n <= m
  BY NatMin
<1>2. n # 0 /\ n - 1 \in Nat
  BY <1>1
<1>3. n - 1 \in H
  BY <1>1, <1>2
<1> QED
  BY <1>1, <1>2, <1>3

-----------------------------------------------------------------------------
(***************************************************************************)
(* Sums over finite sets, as MapThenSumSet takes them.                     *)
(***************************************************************************)
First(T) == CHOOSE x \in T : TRUE
IsSum(sum, f, S) ==
  sum = [T \in SUBSET S |-> IF T = {} THEN 0 ELSE f[First(T)] + sum[T \ {First(T)}]]

LEMMA FirstFacts ==
  ASSUME NEW S, IsFiniteSet(S), NEW T \in SUBSET S, T # {}
  PROVE  /\ First(T) \in T /\ T \ {First(T)} \in SUBSET S
         /\ Cardinality(T \ {First(T)}) \in Nat
         /\ Cardinality(T) = Cardinality(T \ {First(T)}) + 1
<1>1. First(T) \in T
  BY DEF First
<1>2. IsFiniteSet(T) /\ Cardinality(T) \in Nat
  BY FS_Subset, FS_CardinalityType
<1>3. /\ IsFiniteSet(T \ {First(T)})
      /\ Cardinality(T \ {First(T)}) = Cardinality(T) - 1
  BY <1>1, <1>2, FS_RemoveElement
<1>4. Cardinality(T \ {First(T)}) \in Nat
  BY <1>3, FS_CardinalityType
<1> QED
  BY <1>1, <1>2, <1>3, <1>4

LEMMA EmptyFacts ==
  ASSUME NEW S, IsFiniteSet(S), NEW T \in SUBSET S, Cardinality(T) <= 0
  PROVE  T = {}
<1> SUFFICES ASSUME T # {} PROVE FALSE
  OBVIOUS
<1>1. Cardinality(T) = Cardinality(T \ {First(T)}) + 1 /\ Cardinality(T \ {First(T)}) \in Nat
  BY FirstFacts
<1> QED
  BY <1>1

LEMMA SumExists ==
  ASSUME NEW S, IsFiniteSet(S), NEW f \in [S -> Int]
  PROVE  \E sum : IsSum(sum, f, S)
<1> DEFINE Body(g, T) == IF T = {} THEN 0 ELSE f[First(T)] + g[T \ {First(T)}]
           Upto(g, n) == \A T \in SUBSET S : Cardinality(T) <= n => g[T] = Body(g, T)
           H == {n \in Nat : \E g \in [SUBSET S -> Int] : Upto(g, n)}
<1>1. 0 \in H
  <2> DEFINE g == [T \in SUBSET S |-> 0]
  <2>1. Upto(g, 0)
    <3> SUFFICES ASSUME NEW T \in SUBSET S, Cardinality(T) <= 0 PROVE g[T] = Body(g, T)
      OBVIOUS
    <3>1. T = {}
      BY EmptyFacts
    <3> QED
      BY <3>1
  <2>2. g \in [SUBSET S -> Int]
    OBVIOUS
  <2> QED
    BY <2>1, <2>2
<1>2. ASSUME NEW n \in Nat, n \in H PROVE n + 1 \in H
  <2>1. PICK g \in [SUBSET S -> Int] : Upto(g, n)
    BY <1>2
  <2> DEFINE h == [T \in SUBSET S |-> IF Cardinality(T) <= n THEN g[T] ELSE Body(g, T)]
  <2>2. h \in [SUBSET S -> Int]
    <3> SUFFICES ASSUME NEW T \in SUBSET S PROVE Body(g, T) \in Int
      OBVIOUS
    <3>1. CASE T = {}
      BY <3>1
    <3>2. CASE T # {}
      BY <3>2, FirstFacts
    <3> QED
      BY <3>1, <3>2
  <2>3. Upto(h, n + 1)
    <3> SUFFICES ASSUME NEW T \in SUBSET S, Cardinality(T) <= n + 1
                 PROVE  h[T] = Body(h, T)
      OBVIOUS
    <3>1. h[T] = Body(g, T)
      BY <2>1
    <3>2. CASE T = {}
      BY <3>1, <3>2
    <3>3. CASE T # {}
      <4>1. /\ T \ {First(T)} \in SUBSET S /\ Cardinality(T \ {First(T)}) <= n
        BY <3>3, FirstFacts
      <4> QED
        BY <3>1, <3>3, <4>1
    <3> QED
      BY <3>2, <3>3
  <2> HIDE DEF h, Upto
  <2> QED
    BY <2>2, <2>3
<1>3. Nat \subseteq H
  <2> HIDE DEF H
  <2> QED
    BY <1>1, <1>2, Induction
<1>4. Cardinality(S) \in Nat
  BY FS_CardinalityType
<1>5. PICK g \in [SUBSET S -> Int] : Upto(g, Cardinality(S))
  BY <1>3, <1>4
<1>6. \A T \in SUBSET S : g[T] = Body(g, T)
  BY <1>5, FS_Subset
<1>7. g = [T \in SUBSET S |-> Body(g, T)]
  BY <1>6
<1> QED
  BY <1>7 DEF IsSum

(* Two sums of tables that differ at one entry at most. *)
LEMMA SumShift ==
  ASSUME NEW S, IsFiniteSet(S), NEW f \in [S -> Int], NEW g \in [S -> Int],
         NEW a, \A x \in S : x # a => g[x] = f[x],
         NEW sf, IsSum(sf, f, S), NEW sg, IsSum(sg, g, S)
  PROVE  \A T \in SUBSET S :
           sf[T] \in Int /\ sg[T] = sf[T] + (IF a \in T THEN g[a] - f[a] ELSE 0)
<1> DEFINE Good(T) == sf[T] \in Int /\ sg[T] = sf[T] + (IF a \in T THEN g[a] - f[a] ELSE 0)
           H == {n \in Nat : \A T \in SUBSET S : Cardinality(T) = n => Good(T)}
<1>1. \A T \in SUBSET S :
        /\ sf[T] = IF T = {} THEN 0 ELSE f[First(T)] + sf[T \ {First(T)}]
        /\ sg[T] = IF T = {} THEN 0 ELSE g[First(T)] + sg[T \ {First(T)}]
  BY DEF IsSum
<1>2. Good({})
  <2>1. sf[{}] = 0 /\ sg[{}] = 0
    BY <1>1
  <2> QED
    BY <2>1
<1>3. 0 \in H
  <2> SUFFICES ASSUME NEW T \in SUBSET S, Cardinality(T) = 0 PROVE Good(T)
    OBVIOUS
  <2>1. T = {}
    BY EmptyFacts
  <2> QED
    BY <1>2, <2>1
<1>4. ASSUME NEW n \in Nat, n \in H PROVE n + 1 \in H
  <2> SUFFICES ASSUME NEW T \in SUBSET S, Cardinality(T) = n + 1 PROVE Good(T)
    OBVIOUS
  <2>1. T # {}
    BY FS_EmptySet
  <2> DEFINE x == First(T)
             U == T \ {x}
  <2>2. x \in T /\ U \in SUBSET S /\ Cardinality(U) = n
    BY <2>1, FirstFacts
  <2>3. Good(U)
    BY <1>4, <2>2
  <2>4. sf[T] = f[x] + sf[U] /\ sg[T] = g[x] + sg[U]
    BY <1>1, <2>1
  <2>5. f[x] \in Int /\ g[x] \in Int
    BY <2>2
  <2> HIDE DEF x, U
  <2>6. CASE x = a
    <3>1. a \in T /\ a \notin U
      BY <2>2, <2>6 DEF U
    <3> QED
      BY <2>3, <2>4, <2>5, <2>6, <3>1
  <2>7. CASE x # a
    <3>1. g[x] = f[x] /\ (a \in T <=> a \in U)
      BY <2>2, <2>7 DEF U
    <3>2. a \in T => f[a] \in Int /\ g[a] \in Int
      OBVIOUS
    <3> QED
      BY <2>3, <2>4, <2>5, <3>1, <3>2
  <2> QED
    BY <2>6, <2>7
<1>5. Nat \subseteq H
  <2> HIDE DEF H
  <2> QED
    BY <1>3, <1>4, Induction
<1>6. \A T \in SUBSET S : Cardinality(T) \in Nat
  BY FS_Subset, FS_CardinalityType
<1> QED
  BY <1>5, <1>6

-----------------------------------------------------------------------------
(***************************************************************************)
(* The coins in an account table.                                          *)
(***************************************************************************)
Table == [Addresses -> Account]
Balance(accounts) == [a \in Addresses |-> accounts[a].balance]
Total(accounts) == MapThenSumSet(LAMBDA a : accounts[a].balance, Addresses)

LEMMA TotalIsSum ==
  ASSUME NEW accounts \in Table
  PROVE  /\ Balance(accounts) \in [Addresses -> Int]
         /\ \E sum : /\ IsSum(sum, Balance(accounts), Addresses)
                     /\ Total(accounts) = sum[Addresses]
<1>1. Balance(accounts) \in [Addresses -> Int] /\ IsFiniteSet(Addresses)
  BY LedgerAssumption DEF LedgerAssumption, Balance, Table, Account
<1> DEFINE Body(sum, T) ==
             IF T = {} THEN 0
             ELSE accounts[CHOOSE x \in T : TRUE].balance + sum[T \ {CHOOSE x \in T : TRUE}]
<1>2. PICK sum : IsSum(sum, Balance(accounts), Addresses)
  BY <1>1, SumExists
<1>3. \A T \in SUBSET Addresses : T # {} =>
        Balance(accounts)[First(T)] = accounts[CHOOSE x \in T : TRUE].balance
  BY <1>1, FirstFacts DEF Balance, First
<1>4. \A g : g = [T \in SUBSET Addresses |-> Body(g, T)] => IsSum(g, Balance(accounts), Addresses)
  BY <1>3 DEF IsSum, First
<1>5. sum = [T \in SUBSET Addresses |-> Body(sum, T)]
  BY <1>2, <1>3 DEF IsSum, First
<1>6. \E g : g = [T \in SUBSET Addresses |-> Body(g, T)] /\ Total(accounts) = g[Addresses]
  BY <1>5, Zenon DEF Total, MapThenSumSet, MapThenFoldSet
<1> QED
  BY <1>1, <1>4, <1>6

(* Changing one balance changes the total by as much. *)
LEMMA TotalChanges ==
  ASSUME NEW t \in Table, NEW a \in Addresses, NEW x \in Account
  PROVE  /\ [t EXCEPT ![a] = x] \in Table
         /\ Total(t) \in Int
         /\ Total([t EXCEPT ![a] = x]) = Total(t) + x.balance - t[a].balance
<1> DEFINE u == [t EXCEPT ![a] = x]
<1>1. u \in Table
  BY DEF Table
<1>2. PICK st : IsSum(st, Balance(t), Addresses) /\ Total(t) = st[Addresses]
  BY TotalIsSum
<1>3. PICK su : IsSum(su, Balance(u), Addresses) /\ Total(u) = su[Addresses]
  BY <1>1, TotalIsSum
<1>4. \A y \in Addresses : y # a => Balance(u)[y] = Balance(t)[y]
  BY DEF Balance, Table
<1>5. Balance(u)[a] = x.balance /\ Balance(t)[a] = t[a].balance
  BY DEF Balance, Table
<1>6. IsFiniteSet(Addresses) /\ Balance(t) \in [Addresses -> Int] /\ Balance(u) \in [Addresses -> Int]
  BY <1>1, TotalIsSum, LedgerAssumption DEF LedgerAssumption
<1>7. /\ st[Addresses] \in Int
      /\ su[Addresses] = st[Addresses] + (Balance(u)[a] - Balance(t)[a])
  <2> HIDE DEF u
  <2> QED
    BY <1>2, <1>3, <1>4, <1>6, SumShift
<1>8. x.balance \in Int /\ t[a].balance \in Int
  BY DEF Account, Table
<1> QED
  BY <1>1, <1>2, <1>3, <1>5, <1>7, <1>8

LEMMA EmptyTotal == EmptyState.accounts \in Table /\ Total(EmptyState.accounts) = 0
<1> DEFINE t == EmptyState.accounts
<1>1. t \in Table /\ \A a \in Addresses : t[a].balance = 0
  BY LedgerAssumption DEF LedgerAssumption, EmptyState, Table, Account
<1>2. PICK sum : IsSum(sum, Balance(t), Addresses) /\ Total(t) = sum[Addresses]
  BY <1>1, TotalIsSum
<1>3. IsFiniteSet(Addresses) /\ \A a \in Addresses : Balance(t)[a] = 0
  BY <1>1, LedgerAssumption DEF LedgerAssumption, Balance
<1>4. \A T \in SUBSET Addresses :
        sum[T] = IF T = {} THEN 0 ELSE Balance(t)[First(T)] + sum[T \ {First(T)}]
  BY <1>2 DEF IsSum
<1> HIDE DEF t
<1> DEFINE H == {n \in Nat : \A T \in SUBSET Addresses : Cardinality(T) = n => sum[T] = 0}
<1>5. 0 \in H
  <2> SUFFICES ASSUME NEW T \in SUBSET Addresses, Cardinality(T) = 0 PROVE sum[T] = 0
    OBVIOUS
  <2> QED
    BY <1>3, <1>4, EmptyFacts
<1>6. ASSUME NEW n \in Nat, n \in H PROVE n + 1 \in H
  <2> SUFFICES ASSUME NEW T \in SUBSET Addresses, Cardinality(T) = n + 1 PROVE sum[T] = 0
    OBVIOUS
  <2>1. T # {}
    BY FS_EmptySet
  <2>2. First(T) \in Addresses /\ sum[T \ {First(T)}] = 0
    BY <1>3, <1>6, <2>1, FirstFacts
  <2> QED
    BY <1>3, <1>4, <2>1, <2>2
<1>7. Nat \subseteq H
  <2> HIDE DEF H
  <2> QED
    BY <1>5, <1>6, Induction
<1>8. Cardinality(Addresses) \in Nat
  BY <1>3, FS_CardinalityType
<1> QED
  BY <1>1, <1>2, <1>7, <1>8 DEF t

-----------------------------------------------------------------------------
(***************************************************************************)
(* The subsidy schedule.                                                   *)
(***************************************************************************)
(* f repeats a step from a first value. *)
Repeats(f, first, step) == f = [n \in Nat |-> IF n = 0 THEN first ELSE step[f[n - 1]]]

LEMMA NatRecursion ==
  ASSUME NEW S, NEW first \in S, NEW step \in [S -> S]
  PROVE  \E f \in [Nat -> S] : Repeats(f, first, step)
<1> DEFINE Body(g, n) == IF n = 0 THEN first ELSE step[g[n - 1]]
           Upto(g, n) == \A i \in 0..n : g[i] = Body(g, i)
           H == {n \in Nat : \E g \in [Nat -> S] : Upto(g, n)}
           Agree == {i \in Nat : \A m, n \in Nat : \A g, h \in [Nat -> S] :
                       i <= m /\ i <= n /\ Upto(g, m) /\ Upto(h, n) => g[i] = h[i]}
<1>1. 0 \in H
  <2> DEFINE g == [n \in Nat |-> first]
  <2>1. g \in [Nat -> S] /\ Upto(g, 0)
    OBVIOUS
  <2> QED
    BY <2>1
<1>2. ASSUME NEW n \in Nat, n \in H PROVE n + 1 \in H
  <2>1. PICK g \in [Nat -> S] : Upto(g, n)
    BY <1>2
  <2> DEFINE h == [g EXCEPT ![n + 1] = step[g[n]]]
  <2>2. h \in [Nat -> S] /\ \A i \in Nat : i # n + 1 => h[i] = g[i]
    OBVIOUS
  <2>3. h[n + 1] = Body(h, n + 1)
    BY <2>2
  <2>4. \A i \in 0..n : h[i] = Body(h, i)
    BY <2>1, <2>2
  <2>5. Upto(h, n + 1)
    <3> HIDE DEF h, Body
    <3> QED
      BY <2>3, <2>4
  <2> HIDE DEF h, Upto
  <2> QED
    BY <2>2, <2>5
<1>3. Nat \subseteq H
  <2> HIDE DEF H
  <2> QED
    BY <1>1, <1>2, Induction
<1>4. 0 \in Agree
  OBVIOUS
<1>5. ASSUME NEW i \in Nat, i \in Agree PROVE i + 1 \in Agree
  <2> HIDE DEF Upto
  <2> SUFFICES ASSUME NEW m \in Nat, NEW n \in Nat,
                      NEW g \in [Nat -> S], NEW h \in [Nat -> S],
                      i + 1 <= m, i + 1 <= n, Upto(g, m), Upto(h, n)
               PROVE  g[i + 1] = h[i + 1]
    OBVIOUS
  <2>1. g[i] = h[i]
    <3>1. i <= m /\ i <= n
      OBVIOUS
    <3> QED
      BY <1>5, <3>1
  <2>2. g[i + 1] = step[g[i]] /\ h[i + 1] = step[h[i]]
    BY DEF Upto
  <2> QED
    BY <2>1, <2>2
<1>6. Nat \subseteq Agree
  <2> HIDE DEF Agree
  <2> QED
    BY <1>4, <1>5, Induction
<1> DEFINE part == [n \in Nat |-> CHOOSE g \in [Nat -> S] : Upto(g, n)]
           f == [n \in Nat |-> part[n][n]]
<1>7. \A n \in Nat : part[n] \in [Nat -> S] /\ Upto(part[n], n)
  <2> SUFFICES ASSUME NEW n \in Nat PROVE part[n] \in [Nat -> S] /\ Upto(part[n], n)
    OBVIOUS
  <2>1. \E g \in [Nat -> S] : Upto(g, n)
    BY <1>3
  <2> HIDE DEF Upto
  <2> QED
    BY <2>1
<1>8. f \in [Nat -> S]
  BY <1>7
<1>9. \A n \in Nat : f[n] = Body(f, n)
  <2> SUFFICES ASSUME NEW n \in Nat PROVE f[n] = Body(f, n)
    OBVIOUS
  <2>1. f[n] = Body(part[n], n)
    <3>1. f[n] = part[n][n] /\ Upto(part[n], n)
      BY <1>7
    <3> HIDE DEF part, f
    <3> QED
      BY <3>1
  <2>2. CASE n = 0
    BY <2>1, <2>2
  <2>3. CASE n # 0
    <3>1. n - 1 \in Nat /\ n - 1 <= n
      BY <2>3
    <3>2. part[n] \in [Nat -> S] /\ Upto(part[n], n)
      BY <1>7
    <3>3. part[n - 1] \in [Nat -> S] /\ Upto(part[n - 1], n - 1)
      BY <1>7, <3>1
    <3>4. f[n - 1] = part[n - 1][n - 1]
      BY <3>1
    <3> HIDE DEF part, f, Upto
    <3>5. part[n - 1][n - 1] = part[n][n - 1]
      BY <1>6, <3>1, <3>2, <3>3
    <3> QED
      BY <2>1, <2>3, <3>4, <3>5
  <2> QED
    BY <2>2, <2>3
<1> HIDE DEF f
<1>10. f = [n \in Nat |-> Body(f, n)]
  BY <1>8, <1>9
<1> QED
  BY <1>8, <1>10 DEF Repeats

LEMMA EraRewardIsNatural == \A era \in Nat : EraReward[era] \in Nat
<1> DEFINE step == [x \in Nat |-> (x * RewardNumerator) \div RewardDenominator]
<1>1. InitialReward \in Nat /\ RewardNumerator \in Nat /\ RewardDenominator \in Nat \ {0}
  BY LedgerAssumption DEF LedgerAssumption
<1>2. step \in [Nat -> Nat]
  <2> SUFFICES ASSUME NEW x \in Nat PROVE (x * RewardNumerator) \div RewardDenominator \in Nat
    OBVIOUS
  <2>1. x * RewardNumerator \in Nat
    BY <1>1
  <2> QED
    BY <1>1, <2>1
<1> DEFINE Body(f, era) ==
             IF era = 0 THEN InitialReward
                        ELSE (f[era - 1] * RewardNumerator) \div RewardDenominator
<1>3. PICK f \in [Nat -> Nat] : Repeats(f, InitialReward, step)
  <2>1. InitialReward \in Nat
    BY <1>1
  <2> HIDE DEF step, Body
  <2> QED
    BY <2>1, <1>2, NatRecursion
<1>4. \A n \in Nat : n # 0 => n - 1 \in Nat
  OBVIOUS
<1>5. f = [n \in Nat |-> Body(f, n)]
  <2>1. \A n \in Nat : f[n] = Body(f, n)
    BY <1>3, <1>4 DEF Repeats
  <2> QED
    BY <1>3, <2>1
<1>6. EraReward = [era \in Nat |-> Body(EraReward, era)]
  BY <1>5, Zenon DEF EraReward
<1> DEFINE H == {n \in Nat : EraReward[n] \in Nat}
<1>7. 0 \in H
  BY <1>1, <1>6
<1>8. ASSUME NEW n \in Nat, n \in H PROVE n + 1 \in H
  <2>1. EraReward[n + 1] = (EraReward[n] * RewardNumerator) \div RewardDenominator
    BY <1>6
  <2>2. EraReward[n] \in Nat
    BY <1>8
  <2>3. EraReward[n + 1] = step[EraReward[n]]
    BY <2>1, <2>2
  <2> QED
    BY <1>2, <2>2, <2>3
<1>9. Nat \subseteq H
  <2> HIDE DEF H
  <2> QED
    BY <1>7, <1>8, Induction
<1> QED
  BY <1>9

(* A block never mints more than is left. *)
LEMMA SubsidyIsCapped ==
  ASSUME NEW height \in Nat, NEW supply \in 0..MaxSupply
  PROVE  BlockSubsidy(height, supply) \in 0..(MaxSupply - supply)
<1>1. RewardInterval \in Nat \ {0} /\ MaxSupply \in Nat
  BY LedgerAssumption DEF LedgerAssumption
<1>2. height \div RewardInterval \in Nat
  BY <1>1
<1>3. EraReward[height \div RewardInterval] \in Nat
  BY <1>2, EraRewardIsNatural
<1> QED
  BY <1>1, <1>3 DEF BlockSubsidy, CappedSubsidy

-----------------------------------------------------------------------------
(***************************************************************************)
(* One transaction.                                                        *)
(***************************************************************************)
NamesAddresses(tx) == tx.sender \in Addresses /\ tx.recipient \in Addresses

(* The sender's nonces run from 0 to its account nonce without gap or repeat. *)
Sent(st, a) == {t \in st.confirmed : t.sender = a}
NoncesExact(st) ==
  \A a \in Addresses :
    /\ {t.nonce : t \in Sent(st, a)} = 0..(st.accounts[a].nonce - 1)
    /\ IsFiniteSet(Sent(st, a))
    /\ Cardinality(Sent(st, a)) = st.accounts[a].nonce

LEMMA ApplyEffects ==
  ASSUME NEW st, st.accounts \in Table, NEW tx, NEW height, NamesAddresses(tx),
         Executable(st, tx, height), ~RecipientOverflows(st, tx)
  PROVE  /\ ApplyValidated(st, tx).accounts \in Table
         /\ tx.fee \in Nat
         /\ Total(ApplyValidated(st, tx).accounts) = Total(st.accounts) - tx.fee
         /\ ApplyValidated(st, tx).confirmed = st.confirmed \cup {tx}
         /\ \A a \in Addresses :
              ApplyValidated(st, tx).accounts[a].nonce =
                IF a = tx.sender THEN st.accounts[a].nonce + 1 ELSE st.accounts[a].nonce
<1> DEFINE t == st.accounts
           s == tx.sender
           r == tx.recipient
           debited == [balance |-> t[s].balance - Cost(tx), nonce |-> t[s].nonce + 1]
           paid == [t EXCEPT ![s] = debited]
           credited == [balance |-> paid[r].balance + tx.amount, nonce |-> paid[r].nonce]
           after == ApplyValidated(st, tx).accounts
<1>1. t \in Table /\ s \in Addresses /\ r \in Addresses
  BY DEF NamesAddresses
<1>2. /\ tx.amount \in Nat /\ tx.fee \in Nat
      /\ t[s].nonce # U64Max /\ t[s].balance >= tx.amount + tx.fee
  BY LedgerAssumption DEF LedgerAssumption, Executable, ValidTransaction, CoversCost
<1>3. \A a \in Addresses : t[a] \in Account
  BY <1>1 DEF Table
<1>4. U64Max \in Nat
  BY LedgerAssumption DEF LedgerAssumption
<1>5. Cost(tx) \in Nat /\ Cost(tx) <= tx.amount + tx.fee
  BY <1>2 DEF Cost
<1>6. debited \in Account
  <2>1. t[s].balance \in 0..U64Max /\ t[s].nonce \in 0..U64Max
    BY <1>1, <1>3 DEF Account
  <2>2. t[s].balance - Cost(tx) \in 0..U64Max /\ t[s].nonce + 1 \in 0..U64Max
    BY <1>2, <1>4, <1>5, <2>1
  <2> QED
    BY <2>2 DEF Account
<1>7. paid \in Table /\ Total(t) \in Int /\ Total(paid) = Total(t) - Cost(tx)
  <2>1. /\ paid \in Table /\ Total(t) \in Int
        /\ Total(paid) = Total(t) + debited.balance - t[s].balance
    BY <1>1, <1>6, TotalChanges
  <2>2. t[s].balance \in Int /\ debited.balance = t[s].balance - Cost(tx)
    BY <1>1, <1>3 DEF Account
  <2> HIDE DEF paid, debited
  <2> QED
    BY <1>5, <2>1, <2>2
<1>8. \A a \in Addresses :
        paid[a].nonce = IF a = s THEN t[a].nonce + 1 ELSE t[a].nonce
  BY <1>1 DEF Table
<1>9. ApplyValidated(st, tx).confirmed = st.confirmed \cup {tx}
  BY DEF ApplyValidated
<1>10. CASE r = s
  <2>1. after = paid /\ Cost(tx) = tx.fee
    BY <1>10 DEF ApplyValidated, Cost
  <2> HIDE DEF after, paid
  <2> QED
    BY <1>2, <1>7, <1>8, <1>9, <2>1 DEF after
<1>11. CASE r # s
  <2>1. after = [paid EXCEPT ![r].balance = @ + tx.amount] /\ Cost(tx) = tx.amount + tx.fee
    BY <1>11 DEF ApplyValidated, Cost
  <2>2. paid[r] = t[r] /\ t[r] \in Account /\ t[r].balance + tx.amount <= U64Max
    <3>1. paid[r] = t[r] /\ t[r] \in Account
      BY <1>1, <1>3, <1>11 DEF Table
    <3>2. ~(t[r].balance + tx.amount > U64Max)
      BY <1>11 DEF RecipientOverflows
    <3>3. t[r].balance \in Int
      BY <1>1, <1>3 DEF Account
    <3> QED
      BY <1>2, <1>4, <3>1, <3>2, <3>3
  <2>3. credited \in Account /\ paid[r].balance \in Int
    BY <1>2, <1>4, <2>2 DEF Account
  <2>4. paid[r] \in Account
    BY <2>2
  <2> HIDE DEF paid
  <2>5. [paid[r] EXCEPT !.balance = @ + tx.amount] = credited
    BY <2>4 DEF Account
  <2>6. after = [paid EXCEPT ![r] = credited]
    BY <1>7, <1>1, <2>1, <2>5 DEF Table
  <2>7. /\ after \in Table
        /\ Total(after) = Total(paid) + credited.balance - paid[r].balance
    BY <1>1, <1>7, <2>3, <2>6, TotalChanges
  <2>8. credited.balance = paid[r].balance + tx.amount /\ credited.nonce = paid[r].nonce
    OBVIOUS
  <2> HIDE DEF after, credited
  <2>9. Total(after) = Total(t) - tx.fee
    BY <1>2, <1>7, <2>1, <2>3, <2>7, <2>8
  <2>10. \A a \in Addresses : after[a].nonce = paid[a].nonce
    BY <1>1, <1>7, <2>6, <2>8 DEF Table
  <2> QED
    BY <1>2, <1>8, <1>9, <2>7, <2>9, <2>10 DEF after
<1> QED
  BY <1>10, <1>11

(* The next transaction of its sender keeps the nonces exact. *)
LEMMA ApplyKeepsNonces ==
  ASSUME NEW st, st.accounts \in Table, NoncesExact(st), NEW tx, NEW height, NamesAddresses(tx),
         Executable(st, tx, height), ~RecipientOverflows(st, tx)
  PROVE  NoncesExact(ApplyValidated(st, tx))
<1> DEFINE u == ApplyValidated(st, tx)
<1>1. /\ u.confirmed = st.confirmed \cup {tx}
      /\ \A a \in Addresses : u.accounts[a].nonce =
            IF a = tx.sender THEN st.accounts[a].nonce + 1 ELSE st.accounts[a].nonce
  BY ApplyEffects
<1>2. tx \notin st.confirmed /\ tx.nonce = st.accounts[tx.sender].nonce
  BY DEF Executable, NonceIsNext
<1>3. \A a \in Addresses : st.accounts[a].nonce \in Nat
  BY LedgerAssumption DEF LedgerAssumption, Table, Account
<1> HIDE DEF u
<1> SUFFICES ASSUME NEW a \in Addresses
             PROVE  /\ {t.nonce : t \in Sent(u, a)} = 0..(u.accounts[a].nonce - 1)
                    /\ IsFiniteSet(Sent(u, a))
                    /\ Cardinality(Sent(u, a)) = u.accounts[a].nonce
  BY DEF NoncesExact, u
<1>4. CASE a = tx.sender
  <2>1. Sent(u, a) = Sent(st, a) \cup {tx} /\ tx \notin Sent(st, a)
    BY <1>1, <1>2, <1>4 DEF Sent
  <2>2. /\ IsFiniteSet(Sent(u, a))
        /\ Cardinality(Sent(u, a)) = Cardinality(Sent(st, a)) + 1
    BY <2>1, FS_AddElement DEF NoncesExact
  <2>3. {t.nonce : t \in Sent(u, a)} = {t.nonce : t \in Sent(st, a)} \cup {tx.nonce}
    BY <2>1
  <2>4. {t.nonce : t \in Sent(u, a)} = 0..(st.accounts[a].nonce - 1) \cup {st.accounts[a].nonce}
    BY <1>2, <1>4, <2>3 DEF NoncesExact
  <2>5. 0..(st.accounts[a].nonce - 1) \cup {st.accounts[a].nonce} = 0..st.accounts[a].nonce
    BY <1>3
  <2>6. u.accounts[a].nonce - 1 = st.accounts[a].nonce
    BY <1>1, <1>3, <1>4
  <2> QED
    BY <1>1, <1>4, <2>2, <2>4, <2>5, <2>6 DEF NoncesExact
<1>5. CASE a # tx.sender
  <2>1. Sent(u, a) = Sent(st, a)
    BY <1>1, <1>5 DEF Sent
  <2> QED
    BY <1>1, <1>5, <2>1 DEF NoncesExact
<1> QED
  BY <1>4, <1>5

-----------------------------------------------------------------------------
(***************************************************************************)
(* A batch of transactions.                                                *)
(***************************************************************************)
(* st is a record of the fields of AccountState and nothing else. *)
IsState(st) == st = [accounts |-> st.accounts, confirmed |-> st.confirmed]

LEMMA ApplyIsState == \A st, tx : IsState(ApplyValidated(st, tx))
BY DEF IsState, ApplyValidated

IsRun(run, st, txs, height) ==
  run = [i \in 0..Len(txs) |->
           IF i = 0 THEN [ok |-> TRUE, state |-> st, fees |-> 0]
                    ELSE ApplyNext(run[i - 1], txs[i], height)]

LEMMA RunExists ==
  ASSUME NEW st, NEW txs, Len(txs) \in Nat, NEW height
  PROVE  \E run : /\ IsRun(run, st, txs, height)
                 /\ ApplyTransactions(st, txs, height) = run[Len(txs)]
<1> DEFINE Body(g, i) == IF i = 0 THEN [ok |-> TRUE, state |-> st, fees |-> 0]
                                  ELSE ApplyNext(g[i - 1], txs[i], height)
           H == {n \in Nat : \E g : g = [i \in 0..n |-> Body(g, i)]}
<1>1. 0 \in H
  <2> DEFINE g == [i \in 0..0 |-> [ok |-> TRUE, state |-> st, fees |-> 0]]
  <2>1. g = [i \in 0..0 |-> Body(g, i)]
    OBVIOUS
  <2> QED
    BY <2>1
<1>2. ASSUME NEW n \in Nat, n \in H PROVE n + 1 \in H
  <2>1. PICK g : g = [i \in 0..n |-> Body(g, i)]
    BY <1>2
  <2> DEFINE h == [i \in 0..(n + 1) |->
                     IF i <= n THEN g[i] ELSE ApplyNext(g[n], txs[n + 1], height)]
  <2>2. /\ \A i \in 0..n : h[i] = g[i]
        /\ h[n + 1] = ApplyNext(h[n], txs[n + 1], height)
    OBVIOUS
  <2>3. \A i \in 0..n : g[i] = Body(g, i)
    <3> HIDE DEF Body
    <3> QED
      BY <2>1
  <2>4. h = [i \in 0..(n + 1) |-> h[i]]
    OBVIOUS
  <2> HIDE DEF h
  <2>5. \A i \in 0..n : h[i] = Body(h, i)
    <3>1. \A i \in 0..n : i # 0 => i - 1 \in 0..n
      OBVIOUS
    <3> QED
      BY <2>2, <2>3, <3>1
  <2>6. \A i \in 0..(n + 1) : h[i] = Body(h, i)
    <3>1. h[n + 1] = Body(h, n + 1)
      BY <2>2
    <3>2. \A i \in 0..(n + 1) : i \in 0..n \/ i = n + 1
      OBVIOUS
    <3> HIDE DEF Body
    <3> QED
      BY <2>5, <3>1, <3>2
  <2>7. h = [i \in 0..(n + 1) |-> Body(h, i)]
    <3> HIDE DEF Body
    <3> QED
      BY <2>4, <2>6
  <2> HIDE DEF Body
  <2> QED
    BY <2>7
<1>3. Nat \subseteq H
  <2> HIDE DEF H
  <2> QED
    BY <1>1, <1>2, Induction
<1>4. \E g : g = [i \in 0..Len(txs) |-> Body(g, i)]
  <2> HIDE DEF Body
  <2> QED
    BY <1>3
<1> QED
  BY <1>4, Zenon DEF IsRun, ApplyTransactions

(* What a batch that succeeds has done after its first i transactions. *)
BatchDone(run, st, txs, height, i) ==
  /\ IsState(run[i].state)
  /\ run[i].state.accounts \in Table
  /\ run[i].fees \in 0..U64Max
  /\ Total(run[i].state.accounts) = Total(st.accounts) - run[i].fees
  /\ NoncesExact(run[i].state)
  /\ run[i].state.confirmed = st.confirmed \cup {txs[j] : j \in 1..i}
  /\ IsFiniteSet(run[i].state.confirmed)
  /\ Cardinality(run[i].state.confirmed) = Cardinality(st.confirmed) + i
  /\ \A j \in 1..i : ValidTransaction(txs[j], height)

LEMMA BatchSteps ==
  ASSUME NEW st, IsState(st), st.accounts \in Table, NoncesExact(st), IsFiniteSet(st.confirmed),
         NEW txs, Len(txs) \in Nat, NEW height,
         \A i \in 1..Len(txs) : txs[i].authentic => NamesAddresses(txs[i]),
         NEW run, IsRun(run, st, txs, height)
  PROVE  \A i \in 0..Len(txs) :
           /\ run[i] = [ok |-> run[i].ok, state |-> run[i].state, fees |-> run[i].fees]
           /\ run[i].ok => BatchDone(run, st, txs, height, i)
<1> DEFINE Good(i) ==
             /\ run[i] = [ok |-> run[i].ok, state |-> run[i].state, fees |-> run[i].fees]
             /\ run[i].ok => BatchDone(run, st, txs, height, i)
           H == {n \in Nat : n <= Len(txs) => Good(n)}
<1>1. run[0] = [ok |-> TRUE, state |-> st, fees |-> 0]
  BY DEF IsRun
<1>2. \A i \in 1..Len(txs) : run[i] = ApplyNext(run[i - 1], txs[i], height)
  <2>1. \A i \in 1..Len(txs) : i \in 0..Len(txs) /\ i # 0
    OBVIOUS
  <2> QED
    BY <2>1 DEF IsRun
<1>3. U64Max \in Nat
  BY LedgerAssumption DEF LedgerAssumption
<1>4. 0 \in H
  <2>1. Total(st.accounts) \in Int
    BY TotalChanges, LedgerAssumption DEF LedgerAssumption, Table
  <2>2. Cardinality(st.confirmed) \in Nat
    BY FS_CardinalityType
  <2>3. {txs[j] : j \in 1..0} = {}
    OBVIOUS
  <2> HIDE DEF BatchDone
  <2>4. BatchDone(run, st, txs, height, 0)
    BY <1>1, <1>3, <2>1, <2>2, <2>3 DEF BatchDone
  <2> QED
    BY <1>1, <2>4
<1>5. ASSUME NEW n \in Nat, n \in H PROVE n + 1 \in H
  <2> SUFFICES ASSUME n + 1 <= Len(txs) PROVE Good(n + 1)
    OBVIOUS
  <2> DEFINE before == run[n]
             after == run[n + 1]
             tx == txs[n + 1]
  <2>1. Good(n) /\ n + 1 \in 1..Len(txs)
    BY <1>5
  <2>2. after = ApplyNext(before, tx, height)
    BY <1>2, <2>1
  <2>3. before = [ok |-> before.ok, state |-> before.state, fees |-> before.fees]
    BY <2>1
  <2>4. CASE ~(/\ before.ok /\ Executable(before.state, tx, height)
               /\ ~RecipientOverflows(before.state, tx)
               /\ before.fees + tx.fee <= U64Max)
    <3>1. after = [before EXCEPT !.ok = FALSE]
      BY <2>2, <2>4 DEF ApplyNext
    <3>2. after = [ok |-> FALSE, state |-> before.state, fees |-> before.fees]
      <4> HIDE DEF before, after
      <4> QED
        BY <2>3, <3>1
    <3> QED
      BY <3>2
  <2>5. CASE /\ before.ok /\ Executable(before.state, tx, height)
             /\ ~RecipientOverflows(before.state, tx)
             /\ before.fees + tx.fee <= U64Max
    <3>1. after = [ok |-> TRUE, state |-> ApplyValidated(before.state, tx),
                   fees |-> before.fees + tx.fee]
      BY <2>2, <2>5 DEF ApplyNext
    <3>2. BatchDone(run, st, txs, height, n)
      BY <2>1, <2>5
    <3>3. NamesAddresses(tx)
      BY <2>1, <2>5 DEF Executable, ValidTransaction
    <3>4. /\ before.state.accounts \in Table /\ before.fees \in 0..U64Max
          /\ Total(before.state.accounts) = Total(st.accounts) - before.fees
          /\ NoncesExact(before.state)
          /\ before.state.confirmed = st.confirmed \cup {txs[j] : j \in 1..n}
          /\ IsFiniteSet(before.state.confirmed)
          /\ Cardinality(before.state.confirmed) = Cardinality(st.confirmed) + n
          /\ \A j \in 1..n : ValidTransaction(txs[j], height)
      BY <3>2 DEF BatchDone
    <3> DEFINE u == ApplyValidated(before.state, tx)
    <3>5. /\ u.accounts \in Table /\ tx.fee \in Nat
          /\ Total(u.accounts) = Total(before.state.accounts) - tx.fee
          /\ u.confirmed = before.state.confirmed \cup {tx}
      BY <2>5, <3>3, <3>4, ApplyEffects
    <3>6. NoncesExact(u)
      BY <2>5, <3>3, <3>4, ApplyKeepsNonces
    <3>7. tx \notin before.state.confirmed /\ ValidTransaction(tx, height)
      BY <2>5 DEF Executable
    <3>8. Total(st.accounts) \in Int
      BY TotalChanges, LedgerAssumption DEF LedgerAssumption, Table
    <3>9. {txs[j] : j \in 1..(n + 1)} = {txs[j] : j \in 1..n} \cup {tx}
      <4>1. 1..(n + 1) = 1..n \cup {n + 1}
        OBVIOUS
      <4> QED
        BY <4>1
    <3>10. /\ IsFiniteSet(u.confirmed)
           /\ Cardinality(u.confirmed) = Cardinality(before.state.confirmed) + 1
      <4> DEFINE C == before.state.confirmed
      <4>1. IsFiniteSet(C) /\ tx \notin C /\ u.confirmed = C \cup {tx}
        BY <3>4, <3>5, <3>7
      <4> HIDE DEF C, u, tx
      <4>2. IsFiniteSet(C \cup {tx}) /\ Cardinality(C \cup {tx}) = Cardinality(C) + 1
        BY <4>1, FS_AddElement
      <4> QED
        BY <4>1, <4>2 DEF C
    <3>11. Cardinality(st.confirmed) \in Nat
      BY FS_CardinalityType
    <3>12. \A j \in 1..(n + 1) : ValidTransaction(txs[j], height)
      <4>1. \A j \in 1..(n + 1) : j \in 1..n \/ j = n + 1
        OBVIOUS
      <4> QED
        BY <3>4, <3>7, <4>1
    <3>13. after.state = u /\ after.fees = before.fees + tx.fee /\ IsState(u)
      <4>1. IsState(ApplyValidated(before.state, tx))
        BY ApplyIsState
      <4> QED
        BY <3>1, <4>1
    <3> HIDE DEF before, u, tx
    <3>14. BatchDone(run, st, txs, height, n + 1)
      <4>1. after.fees \in 0..U64Max
        BY <1>3, <2>5, <3>4, <3>5, <3>13
      <4>2. Total(after.state.accounts) = Total(st.accounts) - after.fees
        BY <3>4, <3>5, <3>8, <3>13
      <4>3. after.state.confirmed = st.confirmed \cup {txs[j] : j \in 1..(n + 1)}
        BY <3>4, <3>5, <3>9, <3>13
      <4>4. Cardinality(after.state.confirmed) = Cardinality(st.confirmed) + (n + 1)
        BY <3>4, <3>10, <3>11, <3>13
      <4> QED
        BY <3>5, <3>6, <3>10, <3>12, <3>13, <4>1, <4>2, <4>3, <4>4 DEF BatchDone
    <3> QED
      BY <3>1, <3>14
  <2> QED
    BY <2>4, <2>5
<1>6. Nat \subseteq H
  <2> HIDE DEF H
  <2> QED
    BY <1>4, <1>5, Induction
<1> QED
  BY <1>6

-----------------------------------------------------------------------------
(***************************************************************************)
(* The body of a block.                                                    *)
(***************************************************************************)
StateSound(st, supply) ==
  /\ IsState(st)
  /\ st.accounts \in Table /\ IsFiniteSet(st.confirmed) /\ NoncesExact(st)
  /\ supply \in 0..MaxSupply /\ Total(st.accounts) = supply

LEMMA EmptyStateSound == StateSound(EmptyState, 0)
<1>1. EmptyState.accounts \in Table /\ Total(EmptyState.accounts) = 0 /\ 0 \in 0..MaxSupply
  BY EmptyTotal, LedgerAssumption DEF LedgerAssumption
<1>2. EmptyState.confirmed = {} /\ \A a \in Addresses : EmptyState.accounts[a].nonce = 0
  BY DEF EmptyState
<1>3. IsFiniteSet({}) /\ Cardinality({}) = 0
  BY FS_EmptySet
<1>4. \A a \in Addresses : Sent(EmptyState, a) = {}
  BY <1>2 DEF Sent
<1>5. NoncesExact(EmptyState)
  BY <1>2, <1>3, <1>4 DEF NoncesExact
<1>6. IsState(EmptyState)
  BY DEF IsState, EmptyState
<1> QED
  BY <1>1, <1>2, <1>3, <1>5, <1>6 DEF StateSound

(* A body that runs confirms its transactions once each and in time, and adds
   its subsidy to the accounts and to the supply. *)
LEMMA BodyEffects ==
  ASSUME NEW st, NEW supply, StateSound(st, supply), NEW height \in Nat,
         NEW miner \in Addresses, NEW txs, Len(txs) \in Nat,
         \A i \in 1..Len(txs) : txs[i].authentic => NamesAddresses(txs[i]),
         NEW body, body = RunBody(st, supply, height, miner, txs), body.ok
  PROVE  /\ StateSound(body.state, body.supply)
         /\ body.state.confirmed = st.confirmed \cup {txs[j] : j \in 1..Len(txs)}
         /\ Cardinality(body.state.confirmed) = Cardinality(st.confirmed) + Len(txs)
         /\ \A j \in 1..Len(txs) : ValidTransaction(txs[j], height)
<1> DEFINE n == Len(txs)
           batch == ApplyTransactions(st, txs, height)
           subsidy == BlockSubsidy(height, supply)
           reward == subsidy + batch.fees
<1>1. PICK run : IsRun(run, st, txs, height) /\ batch = run[n]
  BY RunExists
<1>2. /\ batch.ok /\ ~CreditOverflows(batch.state, miner, reward)
      /\ body.state = CreditReward(batch.state, miner, reward)
      /\ body.supply = supply + subsidy
  BY DEF RunBody, Rewarded
<1>3. n \in 0..n
  OBVIOUS
<1>4. BatchDone(run, st, txs, height, n)
  <2>1. /\ IsState(st) /\ st.accounts \in Table /\ NoncesExact(st)
        /\ IsFiniteSet(st.confirmed)
    BY DEF StateSound
  <2> HIDE DEF batch
  <2>2. run[n].ok => BatchDone(run, st, txs, height, n)
    BY <1>1, <1>3, <2>1, BatchSteps
  <2> QED
    BY <1>1, <1>2, <2>2
<1>5. subsidy \in 0..(MaxSupply - supply) /\ MaxSupply \in Nat /\ U64Max \in Nat
  <2>1. supply \in 0..MaxSupply
    BY DEF StateSound
  <2>2. subsidy \in 0..(MaxSupply - supply)
    BY <2>1, SubsidyIsCapped
  <2> QED
    BY <2>2, LedgerAssumption DEF LedgerAssumption
<1> DEFINE w == batch.state
           t == w.accounts
           x == [balance |-> t[miner].balance + reward, nonce |-> t[miner].nonce]
<1>6. /\ IsState(w) /\ t \in Table /\ batch.fees \in 0..U64Max
      /\ Total(t) = Total(st.accounts) - batch.fees
      /\ NoncesExact(w)
      /\ w.confirmed = st.confirmed \cup {txs[j] : j \in 1..n}
      /\ IsFiniteSet(w.confirmed)
      /\ Cardinality(w.confirmed) = Cardinality(st.confirmed) + n
      /\ \A j \in 1..n : ValidTransaction(txs[j], height)
  BY <1>1, <1>4 DEF BatchDone
<1>7. t[miner] \in Account /\ t[miner].balance \in Nat /\ t[miner].nonce \in 0..U64Max
  BY <1>5, <1>6 DEF Table, Account
<1>8. supply \in 0..MaxSupply /\ Total(st.accounts) = supply
  BY DEF StateSound
<1>9. reward \in Nat /\ t[miner].balance + reward <= U64Max
  <2>1. ~(t[miner].balance + reward > U64Max)
    BY <1>2 DEF CreditOverflows
  <2> HIDE DEF t
  <2>2. reward \in Nat
    BY <1>5, <1>6, <1>8
  <2> QED
    BY <1>5, <1>7, <2>1, <2>2
<1>10. x \in Account
  <2> DEFINE p == t[miner].balance + reward
             q == t[miner].nonce
  <2>1. p \in 0..U64Max /\ q \in 0..U64Max
    <3> HIDE DEF t
    <3> QED
      BY <1>5, <1>7, <1>9
  <2> HIDE DEF p, q
  <2>2. x = [balance |-> p, nonce |-> q]
    BY DEF p, q
  <2> QED
    BY <2>1, <2>2 DEF Account
<1>11. body.state = [w EXCEPT !.accounts[miner].balance = @ + reward]
  BY <1>2 DEF CreditReward
<1> HIDE DEF w
<1>12. /\ body.state.accounts = [t EXCEPT ![miner].balance = @ + reward]
       /\ body.state.confirmed = w.confirmed
       /\ IsState(body.state)
  BY <1>6, <1>11 DEF IsState
<1> HIDE DEF t
<1>13. [t[miner] EXCEPT !.balance = @ + reward] = x
  BY <1>7 DEF Account
<1>14. body.state.accounts = [t EXCEPT ![miner] = x]
  BY <1>6, <1>12, <1>13 DEF Table
<1>15. /\ body.state.accounts \in Table /\ Total(t) \in Int
       /\ Total(body.state.accounts) = Total(t) + x.balance - t[miner].balance
  <2> HIDE DEF x
  <2> QED
    BY <1>6, <1>10, <1>14, TotalChanges
<1>16. x.balance = t[miner].balance + reward /\ x.nonce = t[miner].nonce
  OBVIOUS
<1> HIDE DEF x
<1>17. Total(body.state.accounts) = body.supply /\ body.supply \in 0..MaxSupply
  <2>1. Total(body.state.accounts) = Total(t) + reward
    BY <1>7, <1>9, <1>15, <1>16
  <2> HIDE DEF subsidy, batch
  <2>2. Total(t) + reward = supply + subsidy
    BY <1>5, <1>6, <1>8
  <2> QED
    BY <1>2, <1>5, <1>8, <2>1, <2>2
<1>18. \A a \in Addresses : body.state.accounts[a].nonce = t[a].nonce
  BY <1>6, <1>14, <1>16 DEF Table
<1>19. \A a \in Addresses : Sent(body.state, a) = Sent(w, a)
  BY <1>12 DEF Sent
<1>20. NoncesExact(body.state)
  BY <1>6, <1>18, <1>19 DEF NoncesExact, t
<1> QED
  BY <1>6, <1>12, <1>15, <1>17, <1>20 DEF StateSound

-----------------------------------------------------------------------------
(***************************************************************************)
(* The block tree as a value.  Chain, Node and Storage each hold one.      *)
(***************************************************************************)
EntriesTyped(c) ==
  /\ c = [entries |-> c.entries, tip |-> c.tip]
  /\ GenesisBlock \in Known(c) /\ c.tip \in Known(c)
  /\ \A b \in Known(c) : /\ c.entries[b].height = b.height
                         /\ c.entries[b].height \in 0..U64Max
                         /\ c.entries[b].work \in Nat \ {0}

ParentsKnown(c) ==
  /\ c.entries[GenesisBlock].parent = NoBlock
  /\ \A b \in Known(c) \ {GenesisBlock} :
       /\ b.prev \in Known(c)
       /\ c.entries[b].parent = b.prev
       /\ b.height = b.prev.height + 1
       /\ b.timestamp > b.prev.timestamp
       /\ c.entries[b].work = c.entries[b.prev].work + WorkForTarget(b.target)

TipHeaviest(c) == \A b \in Known(c) : c.entries[b].work <= c.entries[c.tip].work

(* What no insertion order can break: every known block extends a known block,
   and the tip is a heaviest one. *)
TreeSound(c) == EntriesTyped(c) /\ ParentsKnown(c) /\ TipHeaviest(c)

(* The work of a legal target is a positive integer: work_for_target never
   adds nothing to a branch. *)
LEMMA WorkIsPositive ==
  ASSUME NEW t \in 1..MaxTarget
  PROVE  WorkForTarget(t) \in Nat \ {0}
<1> DEFINE d == t + 1
           n == MaxTarget + 1
           q == n \div d
<1>1. MaxTarget \in Nat \ {0}
  BY LedgerAssumption DEF LedgerAssumption
<1>2. d \in Nat /\ d > 0 /\ n \in Nat /\ n >= d
  BY <1>1
<1>3. q \in Int /\ n = d * q + (n % d) /\ n % d \in 0..(d - 1)
  BY <1>2
<1>4. q > 0
  <2> HIDE DEF d, n, q
  <2>1. SUFFICES ASSUME q <= 0 PROVE FALSE
    BY <1>3
  <2>2. d * q <= 0
    BY <1>2, <1>3, <2>1
  <2> QED
    BY <1>2, <1>3, <2>2
<1> QED
  BY <1>3, <1>4 DEF WorkForTarget

LEMMA EmptyChainSound ==
  /\ TreeSound(EmptyChain)
  /\ Known(EmptyChain) = {GenesisBlock} /\ EmptyChain.tip = GenesisBlock
  /\ EmptyChain.entries[GenesisBlock].state = EmptyState
  /\ EmptyChain.entries[GenesisBlock].supply = 0
<1> DEFINE c == EmptyChain
<1>1. /\ c = [entries |-> c.entries, tip |-> c.tip]
      /\ Known(c) = {GenesisBlock}
      /\ c.tip = GenesisBlock
      /\ c.entries[GenesisBlock].parent = NoBlock
      /\ c.entries[GenesisBlock].height = 0
      /\ c.entries[GenesisBlock].work = WorkForTarget(InitialTarget)
      /\ c.entries[GenesisBlock].state = EmptyState
      /\ c.entries[GenesisBlock].supply = 0
  BY DEF EmptyChain, Known
<1>2. GenesisBlock.height = 0
  BY DEF GenesisBlock
<1>3. 0 \in 0..U64Max /\ InitialTarget \in 1..MaxTarget
  BY LedgerAssumption DEF LedgerAssumption
<1>4. WorkForTarget(InitialTarget) \in Nat \ {0}
  BY <1>3, WorkIsPositive
<1> HIDE DEF c
<1>5. EntriesTyped(c)
  BY <1>1, <1>2, <1>3, <1>4 DEF EntriesTyped
<1>6. ParentsKnown(c)
  BY <1>1 DEF ParentsKnown
<1>7. TipHeaviest(c)
  BY <1>1, <1>4 DEF TipHeaviest
<1> QED
  BY <1>1, <1>5, <1>6, <1>7 DEF TreeSound, c

(* What the checks of add_block and of validate_and_execute_block establish
   for an accepted block, and how the tree changes. *)
LEMMA AddEffects ==
  ASSUME NEW c, EntriesTyped(c), NEW b, AddOutcome(c, b) = "accepted"
  PROVE  LET d == AddBlock(c, b) IN
         /\ b \notin Known(c)
         /\ b.prev \in Known(c)
         /\ c.entries[b.prev].height # U64Max
         /\ b.height = b.prev.height + 1
         /\ b.timestamp > b.prev.timestamp
         /\ b.target \in 1..MaxTarget
         /\ Execution(c, b).ok
         /\ d = [entries |-> d.entries, tip |-> d.tip]
         /\ Known(d) = Known(c) \cup {b}
         /\ \A k \in Known(c) : d.entries[k] = c.entries[k]
         /\ d.entries[b] = NewEntry(c, b)
         /\ d.entries[b].parent = b.prev
         /\ d.entries[b].height = b.height
         /\ d.entries[b].work = c.entries[b.prev].work + WorkForTarget(b.target)
         /\ d.tip = IF d.entries[b].work > c.entries[c.tip].work THEN b ELSE c.tip
<1> DEFINE d == AddBlock(c, b)
<1>1. /\ b \notin Known(c)
      /\ b.prev \in Known(c)
      /\ c.entries[b.prev].height # U64Max
      /\ Execution(c, b).ok
  BY DEF AddOutcome
<1>2. /\ b.height = b.prev.height + 1
      /\ b.timestamp > b.prev.timestamp
      /\ b.target \in 1..MaxTarget
  BY <1>1 DEF Execution, ValidateAndExecuteBlock, Verdict, TimestampIncreases
<1>3. /\ d = [entries |-> d.entries, tip |-> d.tip]
      /\ Known(d) = Known(c) \cup {b}
      /\ \A k \in Known(c) : d.entries[k] = c.entries[k]
      /\ d.entries[b] = NewEntry(c, b)
      /\ d.tip = IF NewEntry(c, b).work > c.entries[c.tip].work THEN b ELSE c.tip
  BY <1>1 DEF AddBlock, InsertEntry, Known, TipEntry, BecomesActive
<1>4. /\ NewEntry(c, b).parent = b.prev
      /\ NewEntry(c, b).height = b.height
      /\ NewEntry(c, b).work = c.entries[b.prev].work + WorkForTarget(b.target)
  BY DEF NewEntry, EntryFor, CumulativeWork
<1> HIDE DEF d
<1>5. /\ d.entries[b].parent = b.prev
      /\ d.entries[b].height = b.height
      /\ d.entries[b].work = c.entries[b.prev].work + WorkForTarget(b.target)
      /\ d.tip = IF d.entries[b].work > c.entries[c.tip].work THEN b ELSE c.tip
  BY <1>3, <1>4
<1> QED
  BY <1>1, <1>2, <1>3, <1>5 DEF d

LEMMA AddKeepsSound ==
  ASSUME NEW c, TreeSound(c), NEW b, AddOutcome(c, b) = "accepted"
  PROVE  TreeSound(AddBlock(c, b))
<1> DEFINE d == AddBlock(c, b)
<1>1. /\ b \notin Known(c)
      /\ b.prev \in Known(c)
      /\ c.entries[b.prev].height # U64Max
      /\ b.height = b.prev.height + 1
      /\ b.timestamp > b.prev.timestamp
      /\ b.target \in 1..MaxTarget
      /\ d = [entries |-> d.entries, tip |-> d.tip]
      /\ Known(d) = Known(c) \cup {b}
      /\ \A k \in Known(c) : d.entries[k] = c.entries[k]
      /\ d.entries[b].parent = b.prev
      /\ d.entries[b].height = b.height
      /\ d.entries[b].work = c.entries[b.prev].work + WorkForTarget(b.target)
      /\ d.tip = IF d.entries[b].work > c.entries[c.tip].work THEN b ELSE c.tip
  BY AddEffects DEF TreeSound
<1> HIDE DEF d
<1>2. WorkForTarget(b.target) \in Nat \ {0}
  BY <1>1, WorkIsPositive
<1>3. d.entries[b].work \in Nat \ {0} /\ d.entries[b].work > c.entries[b.prev].work
  BY <1>1, <1>2 DEF TreeSound, EntriesTyped
<1>4. b.height \in 0..U64Max
  BY <1>1, LedgerAssumption DEF TreeSound, EntriesTyped, LedgerAssumption
<1>5. EntriesTyped(d)
  BY <1>1, <1>3, <1>4 DEF TreeSound, EntriesTyped
<1>6. ParentsKnown(d)
  BY <1>1 DEF TreeSound, ParentsKnown, EntriesTyped
<1>7. TipHeaviest(d)
  BY <1>1, <1>3 DEF TreeSound, TipHeaviest, EntriesTyped
<1> QED
  BY <1>5, <1>6, <1>7 DEF TreeSound, d

LEMMA BlockFacts ==
  ASSUME NEW c, TreeSound(c), NEW b \in Known(c)
  PROVE  /\ b.height \in Nat /\ c.entries[b].height = b.height
         /\ b.height = 0 <=> b = GenesisBlock
         /\ b.height > 0 => /\ b.prev \in Known(c) /\ c.entries[b].parent = b.prev
                            /\ b.prev.height = b.height - 1
<1>1. b.height \in Nat /\ c.entries[b].height = b.height
  BY LedgerAssumption DEF LedgerAssumption, TreeSound, EntriesTyped
<1>2. GenesisBlock.height = 0
  BY DEF GenesisBlock
<1>3. CASE b # GenesisBlock
  <2>1. /\ b.prev \in Known(c) /\ c.entries[b].parent = b.prev /\ b.height = b.prev.height + 1
    BY <1>3 DEF TreeSound, ParentsKnown
  <2>2. b.prev.height \in Nat
    BY <2>1, LedgerAssumption DEF LedgerAssumption, TreeSound, EntriesTyped
  <2> QED
    BY <1>1, <1>3, <2>1, <2>2
<1> QED
  BY <1>1, <1>2, <1>3

-----------------------------------------------------------------------------
(***************************************************************************)
(* Branches.  A branch is the one sequence of known blocks that runs from  *)
(* the genesis block to its last block, parent by parent: what the walk of *)
(* active_chain collects, and the same in every tree that holds the block. *)
(***************************************************************************)
IsBranch(s, b, S) ==
  /\ s \in Seq(S) /\ Len(s) = b.height + 1
  /\ s[1] = GenesisBlock /\ s[Len(s)] = b
  /\ \A i \in 1..Len(s) : s[i].height = i - 1
  /\ \A i \in 2..Len(s) : s[i].prev = s[i - 1]

IsDown(down, E, b, n) ==
  down = [i \in 0..n |-> IF i = 0 THEN <<b>>
                         ELSE <<E[Head(down[i - 1])].parent>> \o down[i - 1]]

LEMMA DownExists ==
  ASSUME NEW E, NEW b, E[b].height \in Nat
  PROVE  \E down : /\ IsDown(down, E, b, E[b].height)
                  /\ Branch(E, b) = down[E[b].height]
<1> DEFINE Step(x) == <<E[Head(x)].parent>> \o x
           Body(g, i) == IF i = 0 THEN <<b>> ELSE Step(g[i - 1])
           H == {n \in Nat : \E g : g = [i \in 0..n |-> Body(g, i)]}
<1>1. 0 \in H
  <2> DEFINE g == [i \in 0..0 |-> <<b>>]
  <2>1. g = [i \in 0..0 |-> Body(g, i)]
    OBVIOUS
  <2> QED
    BY <2>1
<1>2. ASSUME NEW n \in Nat, n \in H PROVE n + 1 \in H
  <2>1. PICK g : g = [i \in 0..n |-> Body(g, i)]
    BY <1>2
  <2> DEFINE h == [i \in 0..(n + 1) |-> IF i <= n THEN g[i] ELSE Step(g[n])]
  <2> HIDE DEF Step
  <2>2. (\A i \in 0..n : h[i] = g[i]) /\ h[n + 1] = Step(h[n])
    OBVIOUS
  <2>3. \A i \in 0..n : g[i] = Body(g, i)
    <3> HIDE DEF Body
    <3> QED
      BY <2>1
  <2>4. h = [i \in 0..(n + 1) |-> h[i]]
    OBVIOUS
  <2> HIDE DEF h
  <2>5. \A i \in 0..n : h[i] = Body(h, i)
    <3>1. \A i \in 0..n : i # 0 => i - 1 \in 0..n
      OBVIOUS
    <3> QED
      BY <2>2, <2>3, <3>1
  <2>6. \A i \in 0..(n + 1) : h[i] = Body(h, i)
    <3>1. h[n + 1] = Body(h, n + 1)
      BY <2>2
    <3>2. \A i \in 0..(n + 1) : i \in 0..n \/ i = n + 1
      OBVIOUS
    <3> HIDE DEF Body
    <3> QED
      BY <2>5, <3>1, <3>2
  <2> HIDE DEF Body
  <2>7. h = [i \in 0..(n + 1) |-> Body(h, i)]
    BY <2>4, <2>6
  <2> QED
    BY <2>7
<1>3. Nat \subseteq H
  <2> HIDE DEF H
  <2> QED
    BY <1>1, <1>2, Induction
<1>4. \E g : g = [i \in 0..E[b].height |-> Body(g, i)]
  <2> HIDE DEF Body
  <2> QED
    BY <1>3
<1> QED
  BY <1>4, Zenon DEF IsDown, Branch

LEMMA BranchIsBranch ==
  ASSUME NEW c, TreeSound(c), NEW b \in Known(c)
  PROVE  IsBranch(Branch(c.entries, b), b, Known(c))
<1> DEFINE entries == c.entries
           known == Known(c)
<1>1. b.height \in Nat /\ entries[b].height = b.height
  BY BlockFacts
<1>2. PICK down : IsDown(down, entries, b, b.height) /\ Branch(entries, b) = down[b.height]
  BY <1>1, DownExists
<1> DEFINE Good(i) ==
             /\ down[i] \in Seq(known) /\ Len(down[i]) = i + 1
             /\ down[i][i + 1] = b
             /\ \A j \in 1..(i + 1) : down[i][j].height = b.height - i + j - 1
             /\ \A j \in 2..(i + 1) : down[i][j].prev = down[i][j - 1]
           H == {n \in Nat : n <= b.height => Good(n)}
<1>3. 0 \in H
  <2>1. down[0] = <<b>>
    <3>1. 0 \in 0..b.height
      BY <1>1
    <3> HIDE DEF entries
    <3> QED
      BY <1>2, <3>1, Zenon DEF IsDown
  <2>2. down[0] \in Seq(known) /\ Len(down[0]) = 1 /\ down[0][1] = b
    BY <2>1
  <2>3. (\A j \in 1..1 : j = 1) /\ \A j \in 2..1 : FALSE
    OBVIOUS
  <2>4. Good(0)
    BY <1>1, <2>2, <2>3
  <2> QED
    BY <2>4
<1>4. ASSUME NEW n \in Nat, n \in H PROVE n + 1 \in H
  <2> HIDE DEF Good
  <2> SUFFICES ASSUME n + 1 <= b.height PROVE Good(n + 1)
    OBVIOUS
  <2> USE DEF Good
  <2> DEFINE s == down[n]
             x == entries[Head(s)].parent
  <2>1. /\ s \in Seq(known) /\ Len(s) = n + 1 /\ s[n + 1] = b
        /\ \A j \in 1..(n + 1) : s[j].height = b.height - n + j - 1
        /\ \A j \in 2..(n + 1) : s[j].prev = s[j - 1]
    BY <1>1, <1>4
  <2>2. down[n + 1] = <<x>> \o s
    <3>1. n + 1 \in 0..b.height /\ n + 1 # 0 /\ (n + 1) - 1 = n
      BY <1>1
    <3> QED
      BY <1>2, <3>1 DEF IsDown
  <2> HIDE DEF s
  <2>3. Head(s) = s[1] /\ s[1] \in known /\ s[1].height = b.height - n
    BY <1>1, <2>1
  <2>4. x \in known /\ s[1].prev = x /\ x.height = b.height - n - 1
    BY <1>1, <2>3, BlockFacts
  <2> HIDE DEF x
  <2> DEFINE t == <<x>> \o s
  <2>5. /\ t \in Seq(known) /\ Len(t) = n + 2 /\ t[1] = x
        /\ \A j \in 2..(n + 2) : t[j] = s[j - 1]
    BY <2>1, <2>4
  <2> HIDE DEF t
  <2>6. t[n + 2] = b
    BY <2>1, <2>5
  <2>7. \A j \in 1..(n + 2) : t[j].height = b.height - (n + 1) + j - 1
    <3>1. \A j \in 2..(n + 2) : j - 1 \in 1..(n + 1)
      OBVIOUS
    <3>2. \A j \in 1..(n + 2) : j = 1 \/ j \in 2..(n + 2)
      OBVIOUS
    <3>3. \A j \in 2..(n + 2) : t[j].height = b.height - n + (j - 1) - 1
      BY <2>1, <2>5, <3>1
    <3>4. \A j \in 2..(n + 2) : t[j].height = b.height - (n + 1) + j - 1
      BY <1>1, <3>3
    <3>5. t[1].height = b.height - (n + 1) + 1 - 1
      BY <1>1, <2>4, <2>5
    <3> QED
      BY <3>2, <3>4, <3>5
  <2>8. \A j \in 2..(n + 2) : t[j].prev = t[j - 1]
    <3> SUFFICES ASSUME NEW j \in 2..(n + 2) PROVE t[j].prev = t[j - 1]
      OBVIOUS
    <3>1. CASE j = 2
      BY <2>4, <2>5, <3>1
    <3>2. CASE j # 2
      <4>1. j - 1 \in 2..(n + 1) /\ j - 1 \in 2..(n + 2)
        BY <3>2
      <4> QED
        BY <2>1, <2>5, <4>1
    <3> QED
      BY <3>1, <3>2
  <2>9. (n + 1) + 1 = n + 2 /\ down[n + 1] = t
    BY <2>2 DEF t
  <2> QED
    BY <2>5, <2>6, <2>7, <2>8, <2>9
<1>5. Nat \subseteq H
  <2> HIDE DEF H
  <2> QED
    BY <1>3, <1>4, Induction
<1> DEFINE s == Branch(entries, b)
<1>6. /\ s \in Seq(known) /\ Len(s) = b.height + 1 /\ s[Len(s)] = b
      /\ \A j \in 1..Len(s) : s[j].height = j - 1
      /\ \A j \in 2..Len(s) : s[j].prev = s[j - 1]
  <2>1. Good(b.height)
    <3> HIDE DEF Good
    <3>1. b.height \in H
      <4> HIDE DEF H
      <4> QED
        BY <1>1, <1>5
    <3>2. b.height <= b.height
      BY <1>1
    <3> QED
      BY <3>1, <3>2
  <2> HIDE DEF s
  <2> QED
    BY <1>1, <1>2, <2>1 DEF s
<1>7. s[1] = GenesisBlock
  <2> HIDE DEF s
  <2>1. s[1] \in known /\ s[1].height = 0
    BY <1>1, <1>6
  <2> QED
    BY <2>1, BlockFacts
<1> QED
  BY <1>6, <1>7 DEF IsBranch

LEMMA BranchUnique ==
  ASSUME NEW b, b.height \in Nat, NEW S, NEW R,
         NEW s, IsBranch(s, b, S), NEW t, IsBranch(t, b, R)
  PROVE  s = t
<1> DEFINE n == b.height + 1
           H == {i \in Nat : i < n => s[n - i] = t[n - i]}
<1>1. /\ s \in Seq(S) /\ Len(s) = n /\ t \in Seq(R) /\ Len(t) = n /\ n \in Nat
      /\ s[n] = t[n]
      /\ \A i \in 2..n : s[i].prev = s[i - 1] /\ t[i].prev = t[i - 1]
  BY DEF IsBranch
<1> HIDE DEF n
<1>2. 0 \in H
  BY <1>1
<1>3. ASSUME NEW i \in Nat, i \in H PROVE i + 1 \in H
  <2> SUFFICES ASSUME i + 1 < n PROVE s[n - (i + 1)] = t[n - (i + 1)]
    OBVIOUS
  <2>1. n - i \in 2..n /\ n - (i + 1) = (n - i) - 1 /\ s[n - i] = t[n - i]
    BY <1>1, <1>3
  <2> QED
    BY <1>1, <2>1
<1>4. Nat \subseteq H
  <2> HIDE DEF H
  <2> QED
    BY <1>2, <1>3, Induction
<1>5. \A j \in 1..n : s[j] = t[j]
  <2> SUFFICES ASSUME NEW j \in 1..n PROVE s[j] = t[j]
    OBVIOUS
  <2>1. n - j \in Nat /\ n - j < n /\ n - (n - j) = j
    BY <1>1
  <2> QED
    BY <1>4, <2>1
<1> QED
  BY <1>1, <1>5

LEMMA BranchAppend ==
  ASSUME NEW b, b.prev.height \in Nat, b.height = b.prev.height + 1,
         NEW S, NEW s, IsBranch(s, b.prev, S)
  PROVE  IsBranch(Append(s, b), b, S \cup {b})
<1> DEFINE n == Len(s)
           t == Append(s, b)
<1>1. /\ s \in Seq(S) /\ n = b.prev.height + 1 /\ s[1] = GenesisBlock /\ s[n] = b.prev
      /\ \A i \in 1..n : s[i].height = i - 1
      /\ \A i \in 2..n : s[i].prev = s[i - 1]
  BY DEF IsBranch
<1>2. n \in Nat /\ n = b.height /\ 1 \in 1..n /\ n \in 1..n
  BY <1>1
<1>3. s \in Seq(S \cup {b})
  BY <1>1
<1>4. /\ t \in Seq(S \cup {b}) /\ Len(t) = n + 1 /\ t[n + 1] = b
      /\ \A i \in 1..n : t[i] = s[i]
  BY <1>3
<1> HIDE DEF n, t
<1>5. \A i \in 1..(n + 1) : i \in 1..n \/ i = n + 1
  BY <1>2
<1>6. \A i \in 1..(n + 1) : t[i].height = i - 1
  <2>1. \A i \in 1..n : t[i].height = i - 1
    BY <1>1, <1>4
  <2>2. t[n + 1].height = n
    BY <1>2, <1>4
  <2>3. ASSUME NEW i \in 1..(n + 1) PROVE t[i].height = i - 1
    <3>1. CASE i \in 1..n
      BY <2>1, <3>1
    <3>2. CASE i = n + 1
      BY <1>2, <2>2, <3>2
    <3> QED
      BY <1>5, <3>1, <3>2
  <2> QED
    BY <2>3
<1>7. ASSUME NEW i \in 2..(n + 1) PROVE t[i].prev = t[i - 1]
  <2>1. CASE i = n + 1
    <3>1. i - 1 = n
      BY <1>2, <2>1
    <3> QED
      BY <1>1, <1>2, <1>4, <2>1, <3>1
  <2>2. CASE i # n + 1
    <3>1. i \in 2..n /\ i \in 1..n /\ i - 1 \in 1..n
      BY <1>2, <2>2
    <3> QED
      BY <1>1, <1>4, <3>1
  <2> QED
    BY <2>1, <2>2
<1>8. Len(t) = b.height + 1 /\ t[1] = GenesisBlock /\ t[Len(t)] = b
  BY <1>1, <1>2, <1>4
<1> QED
  BY <1>4, <1>6, <1>7, <1>8 DEF IsBranch, t

(* c holds a part of the blocks of d, with the same entries. *)
Within(c, d) ==
  Known(c) \subseteq Known(d) /\ \A k \in Known(c) : c.entries[k] = d.entries[k]

LEMMA BranchWithin ==
  ASSUME NEW c, TreeSound(c), NEW d, TreeSound(d), Within(c, d), NEW k \in Known(c)
  PROVE  Branch(c.entries, k) = Branch(d.entries, k)
<1>1. k \in Known(d) /\ k.height \in Nat
  BY BlockFacts DEF Within
<1>2. IsBranch(Branch(c.entries, k), k, Known(c)) /\ IsBranch(Branch(d.entries, k), k, Known(d))
  BY <1>1, BranchIsBranch
<1> QED
  BY <1>1, <1>2, BranchUnique

LEMMA AddIsWithin ==
  ASSUME NEW c, EntriesTyped(c), NEW b, AddOutcome(c, b) = "accepted"
  PROVE  Within(c, AddBlock(c, b))
BY AddEffects DEF Within

(* A block accepted extends the branch of its parent; the others stay. *)
LEMMA BranchGrows ==
  ASSUME NEW c, TreeSound(c), NEW b, AddOutcome(c, b) = "accepted"
  PROVE  LET d == AddBlock(c, b) IN
         /\ Branch(d.entries, b) = Append(Branch(c.entries, b.prev), b)
         /\ \A k \in Known(c) : Branch(d.entries, k) = Branch(c.entries, k)
<1> DEFINE d == AddBlock(c, b)
           s == Branch(c.entries, b.prev)
           t == Append(s, b)
<1>1. /\ b.prev \in Known(c) /\ b.height = b.prev.height + 1
      /\ Known(d) = Known(c) \cup {b}
  BY AddEffects DEF TreeSound
<1>2. TreeSound(d) /\ Within(c, d)
  BY AddKeepsSound, AddIsWithin DEF TreeSound
<1> HIDE DEF d
<1>3. \A k \in Known(c) : Branch(d.entries, k) = Branch(c.entries, k)
  BY <1>2, BranchWithin
<1>4. IsBranch(t, b, Known(d))
  <2>1. IsBranch(s, b.prev, Known(c)) /\ b.prev.height \in Nat
    BY <1>1, BranchIsBranch, BlockFacts
  <2> HIDE DEF s
  <2> QED
    BY <1>1, <2>1, BranchAppend
<1>5. b \in Known(d) /\ b.height \in Nat /\ IsBranch(Branch(d.entries, b), b, Known(d))
  BY <1>1, <1>2, BranchIsBranch, BlockFacts
<1>6. Branch(d.entries, b) = t
  <2> HIDE DEF t
  <2> QED
    BY <1>4, <1>5, BranchUnique
<1> QED
  BY <1>3, <1>6 DEF d

-----------------------------------------------------------------------------
(***************************************************************************)
(* Ancestors.  The walk of _ancestor_at_height stays on the branch, so the *)
(* target of a child depends on that branch alone.                         *)
(***************************************************************************)
IsUp(up, E, b, n) ==
  up = [i \in 0..n |-> IF i = 0 THEN b ELSE E[up[i - 1]].parent]

LEMMA UpExists ==
  ASSUME NEW E, NEW b, E[b].height \in Nat
  PROVE  \E up : /\ IsUp(up, E, b, E[b].height)
                 /\ \A h : AncestorAtHeight(E, b, h) = up[E[b].height - h]
<1> DEFINE Step(x) == E[x].parent
           Body(g, i) == IF i = 0 THEN b ELSE Step(g[i - 1])
           H == {n \in Nat : \E g : g = [i \in 0..n |-> Body(g, i)]}
<1>1. 0 \in H
  <2> DEFINE g == [i \in 0..0 |-> b]
  <2>1. g = [i \in 0..0 |-> Body(g, i)]
    OBVIOUS
  <2> QED
    BY <2>1
<1>2. ASSUME NEW n \in Nat, n \in H PROVE n + 1 \in H
  <2>1. PICK g : g = [i \in 0..n |-> Body(g, i)]
    BY <1>2
  <2> DEFINE h == [i \in 0..(n + 1) |-> IF i <= n THEN g[i] ELSE Step(g[n])]
  <2> HIDE DEF Step
  <2>2. (\A i \in 0..n : h[i] = g[i]) /\ h[n + 1] = Step(h[n])
    OBVIOUS
  <2>3. \A i \in 0..n : g[i] = Body(g, i)
    <3> HIDE DEF Body
    <3> QED
      BY <2>1
  <2>4. h = [i \in 0..(n + 1) |-> h[i]]
    OBVIOUS
  <2> HIDE DEF h
  <2>5. \A i \in 0..n : h[i] = Body(h, i)
    <3>1. \A i \in 0..n : i # 0 => i - 1 \in 0..n
      OBVIOUS
    <3> QED
      BY <2>2, <2>3, <3>1
  <2>6. \A i \in 0..(n + 1) : h[i] = Body(h, i)
    <3>1. h[n + 1] = Body(h, n + 1)
      BY <2>2
    <3>2. \A i \in 0..(n + 1) : i \in 0..n \/ i = n + 1
      OBVIOUS
    <3> HIDE DEF Body
    <3> QED
      BY <2>5, <3>1, <3>2
  <2> HIDE DEF Body
  <2>7. h = [i \in 0..(n + 1) |-> Body(h, i)]
    BY <2>4, <2>6
  <2> QED
    BY <2>7
<1>3. Nat \subseteq H
  <2> HIDE DEF H
  <2> QED
    BY <1>1, <1>2, Induction
<1>4. \E g : g = [i \in 0..E[b].height |-> Body(g, i)]
  <2> HIDE DEF Body
  <2> QED
    BY <1>3
<1> QED
  BY <1>4, Zenon DEF IsUp, AncestorAtHeight

LEMMA AncestorOnBranch ==
  ASSUME NEW E, NEW b, b.height \in Nat, E[b].height = b.height,
         NEW S, NEW s, IsBranch(s, b, S),
         \A i \in 2..Len(s) : E[s[i]].parent = s[i - 1],
         NEW h \in 0..b.height
  PROVE  AncestorAtHeight(E, b, h) = s[h + 1]
<1> DEFINE n == b.height
<1>1. PICK up : /\ IsUp(up, E, b, n)
                /\ \A k : AncestorAtHeight(E, b, k) = up[n - k]
  BY UpExists
<1>2. Len(s) = n + 1 /\ s[n + 1] = b
  BY DEF IsBranch
<1>3. up[0] = b /\ \A i \in 1..n : up[i] = E[up[i - 1]].parent
  <2> HIDE DEF n
  <2>1. n \in Nat
    BY DEF n
  <2> QED
    BY <1>1, <2>1 DEF IsUp
<1> DEFINE H == {i \in Nat : i <= n => up[i] = s[n + 1 - i]}
<1>4. 0 \in H
  BY <1>2, <1>3
<1>5. ASSUME NEW i \in Nat, i \in H PROVE i + 1 \in H
  <2> SUFFICES ASSUME i + 1 <= n PROVE up[i + 1] = s[n + 1 - (i + 1)]
    OBVIOUS
  <2>1. up[i] = s[n + 1 - i]
    BY <1>5
  <2>2. i + 1 \in 1..n /\ (i + 1) - 1 = i
    OBVIOUS
  <2>3. n + 1 - i \in 2..Len(s) /\ (n + 1 - i) - 1 = n + 1 - (i + 1)
    BY <1>2
  <2> HIDE DEF n
  <2> QED
    BY <1>3, <2>1, <2>2, <2>3
<1>6. Nat \subseteq H
  <2> HIDE DEF H
  <2> QED
    BY <1>4, <1>5, Induction
<1>7. n - h \in Nat /\ n - h <= n /\ n + 1 - (n - h) = h + 1
  OBVIOUS
<1>8. up[n - h] = s[h + 1]
  <2> HIDE DEF n
  <2> QED
    BY <1>6, <1>7
<1> QED
  BY <1>1, <1>8

(* Two trees that agree on the branch of p expect the same of its child. *)
LEMMA TargetIsLocal ==
  ASSUME NEW p, p.height \in Nat, NEW S, NEW s, IsBranch(s, p, S),
         NEW E, E[p].height = p.height, NEW F, F[p].height = p.height,
         \A i \in 2..Len(s) : E[s[i]].parent = s[i - 1] /\ F[s[i]].parent = s[i - 1]
  PROVE  ExpectedTargetForChild(E, p) = ExpectedTargetForChild(F, p)
<1> DEFINE next == p.height + 1
<1>1. CASE next % DifficultyInterval # 0
  BY <1>1 DEF ExpectedTargetForChild
<1>2. CASE next % DifficultyInterval = 0
  <2> DEFINE h == next - DifficultyInterval
  <2>1. h \in 0..p.height
    <3> DEFINE d == DifficultyInterval
               q == next \div d
    <3>1. d \in Nat /\ d > 0 /\ next \in Nat /\ next > 0
      BY BlockTreeAssumption DEF BlockTreeAssumption
    <3>2. q \in Int /\ next = d * q + (next % d)
      <4> HIDE DEF d, next
      <4> QED
        BY <3>1
    <3> HIDE DEF d, q
    <3>3. next = d * q
      BY <1>2, <3>1, <3>2 DEF d
    <3> HIDE DEF next
    <3>4. q > 0
      <4>1. SUFFICES ASSUME q <= 0 PROVE FALSE
        BY <3>2
      <4>2. d * q <= 0
        BY <3>1, <3>2, <4>1
      <4> QED
        BY <3>1, <3>3, <4>2
    <3>5. d * q >= d
      BY <3>1, <3>2, <3>4
    <3> QED
      BY <3>1, <3>3, <3>5 DEF d, next
  <2> HIDE DEF h
  <2>2. AncestorAtHeight(E, p, h) = s[h + 1] /\ AncestorAtHeight(F, p, h) = s[h + 1]
    <3>1. \A i \in 2..Len(s) : E[s[i]].parent = s[i - 1]
      OBVIOUS
    <3>2. \A i \in 2..Len(s) : F[s[i]].parent = s[i - 1]
      OBVIOUS
    <3>3. AncestorAtHeight(E, p, h) = s[h + 1]
      BY <2>1, <3>1, AncestorOnBranch
    <3>4. AncestorAtHeight(F, p, h) = s[h + 1]
      BY <2>1, <3>2, AncestorOnBranch
    <3> QED
      BY <3>3, <3>4
  <2> QED
    BY <2>2 DEF ExpectedTargetForChild, h
<1> QED
  BY <1>1, <1>2

(* The entries along a branch. *)
LEMMA BranchParents ==
  ASSUME NEW c, TreeSound(c), NEW p \in Known(c)
  PROVE  LET s == Branch(c.entries, p) IN
         /\ Range(s) \subseteq Known(c) /\ p \in Range(s)
         /\ \A i \in 2..Len(s) : /\ s[i] \in Range(s)
                               /\ c.entries[s[i]].parent = s[i - 1]
<1> DEFINE s == Branch(c.entries, p)
<1>1. IsBranch(s, p, Known(c)) /\ p.height \in Nat
  BY BranchIsBranch, BlockFacts
<1> HIDE DEF s
<1>2. /\ s \in Seq(Known(c)) /\ Len(s) \in 1..Len(s) /\ s[Len(s)] = p
      /\ \A i \in 1..Len(s) : s[i].height = i - 1
      /\ \A i \in 2..Len(s) : s[i].prev = s[i - 1]
  BY <1>1 DEF IsBranch
<1>3. Range(s) \subseteq Known(c) /\ p \in Range(s)
  BY <1>2 DEF Range
<1>4. \A i \in 2..Len(s) : s[i] \in Range(s) /\ c.entries[s[i]].parent = s[i - 1]
  <2> SUFFICES ASSUME NEW i \in 2..Len(s)
               PROVE  s[i] \in Range(s) /\ c.entries[s[i]].parent = s[i - 1]
    OBVIOUS
  <2>1. i \in 1..Len(s) /\ i - 1 > 0
    BY <1>2
  <2>2. s[i] \in Known(c) /\ s[i] \in Range(s)
    BY <1>2, <2>1 DEF Range
  <2>3. s[i].height > 0 /\ s[i].prev = s[i - 1]
    BY <1>2, <2>1
  <2> QED
    BY <2>2, <2>3, BlockFacts
<1> QED
  BY <1>3, <1>4 DEF s

(* The clamp in numbers: the new target is between the old one divided by the
   factor and the old one times the factor. *)
LEMMA ClampedRatio ==
  ASSUME NEW old \in Nat \ {0}, NEW span \in Nat \ {0}, NEW factor \in Nat \ {0},
         span % factor = 0, NEW actual \in Int
  PROVE  LET t == (old * Between(span \div factor, actual, span * factor)) \div span
         IN  t \in Nat /\ t <= old * factor /\ old < (t + 1) * factor
<1> DEFINE low  == span \div factor
           high == span * factor
           x    == Between(low, actual, high)
           y    == old * x
           t    == y \div span
<1>1. low \in Nat /\ span = factor * low /\ low >= 1
  <2>1. low \in Int /\ span = factor * low + (span % factor)
    OBVIOUS
  <2>2. span = factor * low
    BY <2>1
  <2>3. low >= 1
    <3> HIDE DEF low
    <3>1. SUFFICES ASSUME low <= 0 PROVE FALSE
      BY <2>1
    <3>2. factor * low <= 0
      BY <2>1, <3>1
    <3> QED
      BY <2>2, <3>2
  <2> QED
    BY <2>1, <2>2, <2>3
<1>2. high \in Nat /\ high >= low
  <2> HIDE DEF low
  <2>1. factor * low >= low /\ span * factor >= span
    BY <1>1
  <2> QED
    BY <1>1, <2>1
<1>3. x \in Nat /\ low <= x /\ x <= high
  <2> HIDE DEF low, high
  <2> QED
    BY <1>1, <1>2 DEF Between
<1>4. y \in Nat
  BY <1>3
<1>5. t \in Int /\ span * t <= y /\ y < span * (t + 1) /\ t >= 0
  <2> DEFINE w == span * t
             u == span * (t + 1)
  <2> HIDE DEF y
  <2>1. t \in Int /\ y = w + (y % span) /\ y % span \in 0..(span - 1)
    BY <1>4
  <2> HIDE DEF t
  <2>2. w \in Int /\ u \in Int /\ u = w + span
    BY <2>1
  <2>3. t + 1 <= 0 => u <= 0
    BY <2>1
  <2> HIDE DEF w, u
  <2>4. w <= y /\ y < u
    BY <1>4, <2>1, <2>2
  <2>5. t >= 0
    BY <1>4, <2>1, <2>2, <2>3, <2>4
  <2> QED
    BY <2>1, <2>4, <2>5 DEF w, u
<1>6. t <= old * factor
  <2>1. y <= old * high
    BY <1>2, <1>3
  <2>2. old * high = span * (old * factor)
    OBVIOUS
  <2> DEFINE z == old * factor
  <2>3. z \in Nat
    OBVIOUS
  <2> HIDE DEF t, y, z, high
  <2>4. span * t <= span * z
    BY <1>4, <1>5, <2>1, <2>2, <2>3 DEF z
  <2>5. SUFFICES ASSUME z + 1 <= t PROVE FALSE
    BY <1>5, <2>3 DEF z
  <2>6. span * (z + 1) <= span * t /\ span * (z + 1) = span * z + span
    BY <1>5, <2>3, <2>5
  <2>7. span * z \in Int /\ span * t \in Int
    BY <1>5, <2>3
  <2> QED
    BY <2>4, <2>6, <2>7
<1>7. old < (t + 1) * factor
  <2> DEFINE z == (t + 1) * factor
  <2> HIDE DEF t, low
  <2>1. z \in Int /\ span * (t + 1) = low * z
    BY <1>1, <1>5
  <2>2. old * low <= y
    BY <1>1, <1>3
  <2> HIDE DEF y, z
  <2>3. low * old < low * z
    BY <1>1, <1>4, <1>5, <2>1, <2>2
  <2>4. SUFFICES ASSUME z <= old PROVE FALSE
    BY <2>1 DEF z
  <2>5. low * z <= low * old
    BY <1>1, <2>1, <2>4
  <2> QED
    BY <1>1, <2>1, <2>3, <2>5
<1> QED
  BY <1>5, <1>6, <1>7

(* The target of a block's children: legal, the block's own within a window, and
   bounded by the factor at the end of one (expected_target_for_child). *)
TargetsTyped(c) == \A k \in Known(c) : k.timestamp \in Int /\ k.target \in 1..MaxTarget

LEMMA TargetBounds ==
  ASSUME NEW c, TreeSound(c), TargetsTyped(c), NEW p \in Known(c)
  PROVE  LET t == ExpectedTargetForChild(c.entries, p) IN
         /\ t \in 1..MaxTarget
         /\ (p.height + 1) % DifficultyInterval # 0 => t = p.target
         /\ t <= p.target * MaxAdjustmentFactor
         /\ p.target < (t + 1) * MaxAdjustmentFactor
<1> DEFINE E == c.entries
           next == E[p].height + 1
           start == AncestorAtHeight(E, p, next - DifficultyInterval)
           actual == p.timestamp - start.timestamp
           x == (p.target * BoundedTimespan(actual)) \div ExpectedTimespan
           t == ExpectedTargetForChild(E, p)
<1>1. /\ p.height \in Nat /\ E[p].height = p.height
      /\ p.timestamp \in Int /\ p.target \in 1..MaxTarget /\ MaxTarget \in Nat \ {0}
      /\ MaxAdjustmentFactor \in Nat \ {0}
  BY BlockFacts, LedgerAssumption, BlockTreeAssumption
  DEF TargetsTyped, LedgerAssumption, BlockTreeAssumption
<1>2. CASE next % DifficultyInterval # 0
  <2>1. t = p.target
    BY <1>2 DEF ExpectedTargetForChild
  <2> HIDE DEF t
  <2>2. p.target * MaxAdjustmentFactor >= p.target
        /\ (p.target + 1) * MaxAdjustmentFactor >= p.target + 1
    BY <1>1
  <2>3. p.target * MaxAdjustmentFactor \in Int /\ (p.target + 1) * MaxAdjustmentFactor \in Int
    BY <1>1
  <2> QED
    BY <1>1, <2>1, <2>2, <2>3 DEF t
<1>3. CASE next % DifficultyInterval = 0
  <2>1. t = Between(1, x, MaxTarget)
    BY <1>3 DEF ExpectedTargetForChild
  <2>2. next - DifficultyInterval \in 0..p.height
    <3> DEFINE d == DifficultyInterval
    <3>1. next \in Nat /\ next > 0 /\ d \in Nat /\ d > 1 /\ next = p.height + 1 /\ next % d = 0
      BY <1>1, <1>3, BlockTreeAssumption DEF BlockTreeAssumption
    <3> HIDE DEF next, d
    <3>2. next >= d
      <4>1. next < d => next % d = next
        BY <3>1
      <4> QED
        BY <3>1, <4>1
    <3> QED
      BY <1>1, <3>1, <3>2 DEF d
  <2>3. start.timestamp \in Int
    <3> DEFINE s == Branch(E, p)
               h == next - DifficultyInterval
    <3>1. IsBranch(s, p, Known(c)) /\ \A i \in 2..Len(s) : E[s[i]].parent = s[i - 1]
      BY BranchIsBranch, BranchParents
    <3> HIDE DEF s, h
    <3>2. start = s[h + 1]
      <4>1. start = AncestorAtHeight(E, p, h) /\ h \in 0..p.height
        BY <2>2 DEF h
      <4> HIDE DEF start, E
      <4> QED
        BY <1>1, <3>1, <4>1, AncestorOnBranch
    <3>3. h + 1 \in 1..Len(s)
      BY <1>1, <2>2, <3>1 DEF h, IsBranch
    <3>4. s[h + 1] \in Known(c)
      BY <3>1, <3>3 DEF IsBranch
    <3> HIDE DEF start
    <3> QED
      BY <3>2, <3>4 DEF TargetsTyped
  <2>4. x \in Nat /\ x <= p.target * MaxAdjustmentFactor
        /\ p.target < (x + 1) * MaxAdjustmentFactor
    <3>1. /\ ExpectedTimespan \in Nat \ {0} /\ MaxAdjustmentFactor \in Nat \ {0}
          /\ ExpectedTimespan % MaxAdjustmentFactor = 0
      BY BlockTreeAssumption, RetargetAssumption
      DEF BlockTreeAssumption, RetargetAssumption, ExpectedTimespan
    <3>2. actual \in Int /\ p.target \in Nat \ {0}
      BY <1>1, <2>3
    <3> HIDE DEF actual
    <3> QED
      BY <3>1, <3>2, ClampedRatio DEF BoundedTimespan
  <2> DEFINE f == MaxAdjustmentFactor
             up == p.target * f
  <2> HIDE DEF x, t, f
  <2>5. up \in Int /\ up >= p.target /\ p.target >= 1
    BY <1>1 DEF f
  <2>6. CASE x < 1
    <3>1. t = 1 /\ x = 0
      BY <1>1, <2>1, <2>4, <2>6 DEF Between
    <3>2. (x + 1) * f = f /\ (t + 1) * f = f + f /\ f \in Nat
      BY <1>1, <3>1 DEF f
    <3> QED
      BY <1>1, <1>3, <2>4, <2>5, <3>1, <3>2 DEF f, t
  <2>7. CASE x > MaxTarget
    <3>1. t = MaxTarget
      BY <1>1, <2>1, <2>4, <2>7 DEF Between
    <3>2. (t + 1) * f >= t + 1 /\ (t + 1) * f \in Int
      BY <1>1, <3>1 DEF f
    <3> HIDE DEF up
    <3> QED
      BY <1>1, <1>3, <2>4, <2>5, <2>7, <3>1, <3>2 DEF f, t, up
  <2>8. CASE x \in 1..MaxTarget
    <3>1. t = x
      BY <1>1, <2>1, <2>8 DEF Between
    <3> QED
      BY <1>3, <1>1, <2>4, <2>8, <3>1 DEF t
  <2> QED
    BY <1>1, <2>4, <2>6, <2>7, <2>8
<1> QED
  BY <1>1, <1>2, <1>3

(* What a block does, and its entry, depend only on the branch it extends: not
   on what else a tree holds, on its active tip, or on what came first
   (add_block). *)
LEMMA EntryOnBranch ==
  ASSUME NEW c, TreeSound(c), NEW b, b.prev \in Known(c), NEW d,
         \A k \in Range(Branch(c.entries, b.prev)) : d.entries[k] = c.entries[k]
  PROVE  /\ d.entries[b.prev] = c.entries[b.prev]
         /\ Execution(c, b) = Execution(d, b) /\ NewEntry(c, b) = NewEntry(d, b)
<1> DEFINE p == b.prev
           s == Branch(c.entries, p)
<1>1. IsBranch(s, p, Known(c)) /\ p.height \in Nat /\ c.entries[p].height = p.height
  BY BranchIsBranch, BlockFacts
<1>2. /\ p \in Range(s)
      /\ \A i \in 2..Len(s) : s[i] \in Range(s) /\ c.entries[s[i]].parent = s[i - 1]
  BY BranchParents
<1>3. \A k \in Range(s) : d.entries[k] = c.entries[k]
  OBVIOUS
<1> HIDE DEF s
<1>4. ExpectedTargetForChild(c.entries, p) = ExpectedTargetForChild(d.entries, p)
  <2>1. d.entries[p].height = p.height
    BY <1>1, <1>2, <1>3
  <2>2. \A i \in 2..Len(s) : /\ c.entries[s[i]].parent = s[i - 1]
                            /\ d.entries[s[i]].parent = s[i - 1]
    BY <1>2, <1>3
  <2> HIDE DEF p
  <2> QED
    BY <1>1, <2>1, <2>2, TargetIsLocal
<1>5. d.entries[p] = c.entries[p]
  BY <1>2, <1>3
<1>6. Execution(c, b) = Execution(d, b)
  BY <1>4, <1>5 DEF Execution, ParentEntry
<1> QED
  BY <1>5, <1>6 DEF NewEntry, EntryFor

LEMMA VerdictOnBranch ==
  ASSUME NEW c, TreeSound(c), NEW b, b.prev \in Known(c), NEW d, b.prev \in Known(d),
         \A k \in Range(Branch(c.entries, b.prev)) : d.entries[k] = c.entries[k],
         b \notin Known(c), b \notin Known(d)
  PROVE  AddOutcome(c, b) = AddOutcome(d, b) /\ NewEntry(c, b) = NewEntry(d, b)
<1>1. /\ d.entries[b.prev] = c.entries[b.prev]
      /\ Execution(c, b) = Execution(d, b) /\ NewEntry(c, b) = NewEntry(d, b)
  BY EntryOnBranch
<1> QED
  BY <1>1 DEF AddOutcome

LEMMA EntryWithin ==
  ASSUME NEW c, TreeSound(c), NEW d, Within(c, d), NEW b, b.prev \in Known(c)
  PROVE  NewEntry(c, b) = NewEntry(d, b)
<1>1. \A k \in Range(Branch(c.entries, b.prev)) : d.entries[k] = c.entries[k]
  BY BranchParents DEF Within
<1> QED
  BY <1>1, EntryOnBranch

LEMMA VerdictWithin ==
  ASSUME NEW c, TreeSound(c), NEW d, Within(c, d), NEW b, b.prev \in Known(c), b \notin Known(d)
  PROVE  AddOutcome(c, b) = AddOutcome(d, b) /\ NewEntry(c, b) = NewEntry(d, b)
<1>1. b.prev \in Known(d) /\ b \notin Known(c)
  BY DEF Within
<1>2. \A k \in Range(Branch(c.entries, b.prev)) : d.entries[k] = c.entries[k]
  BY BranchParents DEF Within
<1> QED
  BY <1>1, <1>2, VerdictOnBranch

-----------------------------------------------------------------------------
(***************************************************************************)
(* Reorganisations.  Both cursors of _reorganization_paths stay on their   *)
(* branches, the longer one comes down first, and they pass only blocks    *)
(* that differ: where they meet is the end of the common prefix.           *)
(***************************************************************************)
LEMMA AppendFacts ==
  ASSUME NEW S, NEW u \in Seq(S), NEW x \in S
  PROVE  /\ Append(u, x) \in Seq(S) /\ Len(Append(u, x)) = Len(u) + 1
         /\ Append(u, x)[Len(u) + 1] = x /\ \A i \in 1..Len(u) : Append(u, x)[i] = u[i]
OBVIOUS

LEMMA ReverseFacts ==
  ASSUME NEW S, NEW u \in Seq(S)
  PROVE  /\ Reverse(u) \in Seq(S) /\ Len(Reverse(u)) = Len(u)
         /\ \A i \in 1..Len(u) : Reverse(u)[i] = u[Len(u) - i + 1]
<1> DEFINE n == Len(u)
           r == Reverse(u)
<1>1. n \in Nat /\ r = [i \in 1..n |-> u[(n - i) + 1]] /\ \A i \in 1..n : u[i] \in S
  BY DEF Reverse
<1> HIDE DEF n, r
<1>2. \A i \in 1..n : (n - i) + 1 \in 1..n
  BY <1>1
<1>3. r \in [1..n -> S] /\ \A i \in 1..n : r[i] = u[(n - i) + 1]
  BY <1>1, <1>2
<1> QED
  BY <1>1, <1>3 DEF n, r

LEMMA LongerSuffix ==
  ASSUME NEW S, NEW s \in Seq(S), NEW p \in 1..Len(s)
  PROVE  /\ <<s[p]>> \o SubSeq(s, p + 1, Len(s)) = SubSeq(s, p, Len(s))
         /\ Append(Reverse(SubSeq(s, p + 1, Len(s))), s[p]) = Reverse(SubSeq(s, p, Len(s)))
<1> DEFINE n == Len(s)
           u == SubSeq(s, p + 1, n)
           v == SubSeq(s, p, n)
<1>1. n \in Nat /\ p \in Nat /\ 1 <= p /\ p <= n /\ s[p] \in S /\ \A i \in 1..n : s[i] \in S
  OBVIOUS
<1>2. u \in Seq(S) /\ Len(u) = n - p /\ \A i \in 1..(n - p) : u[i] = s[p + i]
  OBVIOUS
<1>3. v \in Seq(S) /\ Len(v) = n - p + 1 /\ \A i \in 1..(n - p + 1) : v[i] = s[p + i - 1]
  OBVIOUS
<1> HIDE DEF u, v, n
<1>4. <<s[p]>> \o u = v
  <2> DEFINE w == <<s[p]>> \o u
  <2>1. /\ w \in Seq(S) /\ Len(w) = n - p + 1 /\ w[1] = s[p]
        /\ \A i \in 2..(n - p + 1) : w[i] = u[i - 1]
    BY <1>1, <1>2
  <2> HIDE DEF w
  <2>2. \A i \in 1..(n - p + 1) : w[i] = v[i]
    <3> SUFFICES ASSUME NEW i \in 1..(n - p + 1) PROVE w[i] = v[i]
      OBVIOUS
    <3>1. CASE i = 1
      BY <1>1, <1>3, <2>1, <3>1
    <3>2. CASE i # 1
      <4>1. i \in 2..(n - p + 1) /\ i - 1 \in 1..(n - p) /\ p + (i - 1) = p + i - 1
        BY <1>1, <3>2
      <4> QED
        BY <1>2, <1>3, <2>1, <4>1
    <3> QED
      BY <3>1, <3>2
  <2> QED
    BY <1>3, <2>1, <2>2 DEF w
<1>5. Append(Reverse(u), s[p]) = Reverse(v)
  <2> DEFINE ru == Reverse(u)
             rv == Reverse(v)
             w == Append(ru, s[p])
  <2>1. ru \in Seq(S) /\ Len(ru) = n - p /\ \A i \in 1..(n - p) : ru[i] = s[n - i + 1]
    <3>1. ru \in Seq(S) /\ Len(ru) = n - p /\ \A i \in 1..(n - p) : ru[i] = u[n - p - i + 1]
      <4> DEFINE k == n - p
      <4>1. u \in Seq(S) /\ Len(u) = k
        BY <1>2
      <4> HIDE DEF k, ru
      <4>2. ru \in Seq(S) /\ Len(ru) = k /\ \A i \in 1..k : ru[i] = u[k - i + 1]
        BY <4>1, ReverseFacts DEF ru
      <4> QED
        BY <4>2 DEF k
    <3>2. \A i \in 1..(n - p) : /\ n - p - i + 1 \in 1..(n - p)
                                /\ p + (n - p - i + 1) = n - i + 1
      BY <1>1
    <3> QED
      BY <1>2, <3>1, <3>2
  <2>2. rv \in Seq(S) /\ Len(rv) = n - p + 1 /\ \A i \in 1..(n - p + 1) : rv[i] = s[n - i + 1]
    <3> DEFINE k == n - p + 1
    <3>1. v \in Seq(S) /\ Len(v) = k
      BY <1>3
    <3> HIDE DEF k, rv
    <3>2. rv \in Seq(S) /\ Len(rv) = k /\ \A i \in 1..k : rv[i] = v[k - i + 1]
      BY <3>1, ReverseFacts DEF rv
    <3>3. \A i \in 1..k : k - i + 1 \in 1..(n - p + 1) /\ p + (k - i + 1) - 1 = n - i + 1
      BY <1>1 DEF k
    <3>4. \A i \in 1..k : rv[i] = s[n - i + 1]
      BY <1>3, <3>2, <3>3
    <3> QED
      BY <3>2, <3>4 DEF k
  <2> HIDE DEF ru, rv
  <2>3. /\ w \in Seq(S) /\ Len(w) = n - p + 1 /\ w[n - p + 1] = s[p]
        /\ \A i \in 1..(n - p) : w[i] = ru[i]
    <3> DEFINE k == n - p
    <3>1. s[p] \in S /\ Len(ru) = k /\ ru \in Seq(S)
      BY <1>1, <2>1
    <3> HIDE DEF w, k
    <3>2. Append(ru, s[p]) = w
      BY DEF w
    <3> DEFINE x == s[p]
    <3> HIDE DEF x
    <3>3. x \in S /\ Append(ru, x) = w
      BY <3>1, <3>2 DEF x
    <3>4. /\ w \in Seq(S) /\ Len(w) = k + 1 /\ w[k + 1] = x
          /\ \A i \in 1..k : w[i] = ru[i]
      BY <3>1, <3>3, AppendFacts
    <3> QED
      BY <3>4 DEF k, x
  <2> HIDE DEF w
  <2>4. \A i \in 1..(n - p + 1) : w[i] = rv[i]
    <3> SUFFICES ASSUME NEW i \in 1..(n - p + 1) PROVE w[i] = rv[i]
      OBVIOUS
    <3>1. CASE i = n - p + 1
      <4>1. n - i + 1 = p
        BY <1>1, <3>1
      <4> QED
        BY <2>2, <2>3, <3>1, <4>1
    <3>2. CASE i # n - p + 1
      <4>1. i \in 1..(n - p)
        BY <1>1, <3>2
      <4> QED
        BY <2>1, <2>2, <2>3, <4>1
    <3> QED
      BY <3>1, <3>2
  <2>5. w = rv
    BY <2>2, <2>3, <2>4
  <2> QED
    BY <2>5 DEF w, ru, rv
<1> QED
  BY <1>4, <1>5 DEF u, v, n

LEMMA NoSuffix ==
  ASSUME NEW S, NEW s \in Seq(S)
  PROVE  SubSeq(s, Len(s) + 1, Len(s)) = <<>> /\ Reverse(SubSeq(s, Len(s) + 1, Len(s))) = <<>>
<1> DEFINE u == SubSeq(s, Len(s) + 1, Len(s))
<1>1. u \in Seq(S) /\ Len(u) = 0
  OBVIOUS
<1> HIDE DEF u
<1>2. u = <<>>
  BY <1>1
<1>3. Reverse(u) \in Seq(S) /\ Len(Reverse(u)) = 0
  BY <1>1, ReverseFacts
<1> QED
  BY <1>2, <1>3 DEF u

(* The cursors of w have come down to A[p] and B[q]. *)
IsAt(w, A, B, p, q) ==
  /\ p \in 1..Len(A) /\ q \in 1..Len(B)
  /\ w = [old |-> A[p], new |-> B[q],
          disconnected |-> Reverse(SubSeq(A, p + 1, Len(A))),
          connected |-> SubSeq(B, q + 1, Len(B))]
  /\ p > q => q = Len(B)
  /\ q > p => p = Len(A)
  /\ \A k \in 1..Len(A) : k \in 1..Len(B) /\ k > p /\ k > q => A[k] # B[k]

(* The entries of E for the blocks of S. *)
Follows(E, S) ==
  \A k \in S : /\ k.height \in Nat /\ E[k].height = k.height
               /\ k.height > 0 => E[k].parent = k.prev

LEMMA StepEffects ==
  ASSUME NEW E, NEW w, w = [old |-> w.old, new |-> w.new,
                            disconnected |-> w.disconnected, connected |-> w.connected]
  PROVE  /\ OldStep(E, w) = [old |-> E[w.old].parent, new |-> w.new,
                             disconnected |-> Append(w.disconnected, w.old),
                             connected |-> w.connected]
         /\ NewStep(E, w) = [old |-> w.old, new |-> E[w.new].parent,
                             disconnected |-> w.disconnected,
                             connected |-> <<w.new>> \o w.connected]
<1>1. DOMAIN w = {"old", "new", "disconnected", "connected"}
  OBVIOUS
<1>2. OldStep(E, w) = [k \in DOMAIN w |->
                         IF k = "disconnected" THEN Append(w.disconnected, w.old)
                         ELSE IF k = "old" THEN E[w.old].parent ELSE w[k]]
  BY DEF OldStep
<1>3. NewStep(E, w) = [k \in DOMAIN w |->
                         IF k = "connected" THEN <<w.new>> \o w.connected
                         ELSE IF k = "new" THEN E[w.new].parent ELSE w[k]]
  BY DEF NewStep
<1> QED
  BY <1>1, <1>2, <1>3

LEMMA WalkRests ==
  ASSUME NEW E, NEW w, w.old = w.new, E[w.old].height \in Nat
  PROVE  WalkStep(E, w) = w
BY DEF WalkStep

LEMMA WalkStepDown ==
  ASSUME NEW E, NEW S, Follows(E, S), NEW a, NEW b, NEW A, IsBranch(A, a, S),
         NEW B, IsBranch(B, b, S), NEW w, NEW p, NEW q, IsAt(w, A, B, p, q), w.old # w.new
  PROVE  \E x, y : x + y < p + q /\ IsAt(WalkStep(E, w), A, B, x, y)
<1>1. /\ A \in Seq(S) /\ B \in Seq(S) /\ A[1] = GenesisBlock /\ B[1] = GenesisBlock
      /\ \A i \in 1..Len(A) : A[i] \in S /\ A[i].height = i - 1
      /\ \A i \in 1..Len(B) : B[i] \in S /\ B[i].height = i - 1
      /\ \A i \in 2..Len(A) : A[i].prev = A[i - 1]
      /\ \A i \in 2..Len(B) : B[i].prev = B[i - 1]
  BY DEF IsBranch
<1>2. /\ p \in 1..Len(A) /\ q \in 1..Len(B)
      /\ Len(A) \in Nat /\ Len(B) \in Nat /\ p \in Nat /\ q \in Nat
  BY <1>1 DEF IsAt
<1> DEFINE n == Len(A)
           m == Len(B)
           ds(i) == Reverse(SubSeq(A, i, n))
           cs(i) == SubSeq(B, i, m)
<1>3. /\ w = [old |-> A[p], new |-> B[q], disconnected |-> ds(p + 1), connected |-> cs(q + 1)]
      /\ p > q => q = m
      /\ q > p => p = n
      /\ \A k \in 1..n : k \in 1..m /\ k > p /\ k > q => A[k] # B[k]
  BY DEF IsAt
<1>3a. /\ w = [old |-> w.old, new |-> w.new,
               disconnected |-> w.disconnected, connected |-> w.connected]
       /\ w.old = A[p] /\ w.new = B[q]
       /\ w.disconnected = ds(p + 1) /\ w.connected = cs(q + 1)
  <2> HIDE DEF ds, cs
  <2> QED
    BY <1>3
<1>4. Append(ds(p + 1), A[p]) = ds(p) /\ <<B[q]>> \o cs(q + 1) = cs(q)
  BY <1>1, <1>2, LongerSuffix
<1> HIDE DEF ds, cs, n, m
<1>5. E[A[p]].height = p - 1 /\ E[B[q]].height = q - 1
  BY <1>1, <1>2 DEF Follows
<1>6. p > 1 => E[A[p]].parent = A[p - 1] /\ p - 1 \in 1..n
  <2> SUFFICES ASSUME p > 1 PROVE E[A[p]].parent = A[p - 1] /\ p - 1 \in 1..n
    OBVIOUS
  <2>1. p \in 2..Len(A) /\ A[p] \in S /\ A[p].height > 0 /\ A[p].prev = A[p - 1]
    BY <1>1, <1>2
  <2> QED
    BY <1>2, <2>1 DEF Follows, n
<1>7. q > 1 => E[B[q]].parent = B[q - 1] /\ q - 1 \in 1..m
  <2> SUFFICES ASSUME q > 1 PROVE E[B[q]].parent = B[q - 1] /\ q - 1 \in 1..m
    OBVIOUS
  <2>1. q \in 2..Len(B) /\ B[q] \in S /\ B[q].height > 0 /\ B[q].prev = B[q - 1]
    BY <1>1, <1>2
  <2> QED
    BY <1>2, <2>1 DEF Follows, m
<1>8. n \in Nat /\ m \in Nat /\ p \in 1..n /\ q \in 1..m
  BY <1>2 DEF n, m
<1>9. CASE p > q
  <2>1. p > 1 /\ q = m /\ (p - 1) + 1 = p
    BY <1>3, <1>8, <1>9
  <2>2. WalkStep(E, w) = OldStep(E, w)
    BY <1>2, <1>3, <1>5, <1>9 DEF WalkStep
  <2>3. OldStep(E, w) = [old |-> A[p - 1], new |-> B[q],
                         disconnected |-> ds((p - 1) + 1), connected |-> cs(q + 1)]
    <3>1. OldStep(E, w) = [old |-> E[A[p]].parent, new |-> B[q],
                           disconnected |-> Append(ds(p + 1), A[p]), connected |-> cs(q + 1)]
      BY <1>3a, StepEffects
    <3> QED
      BY <1>4, <1>6, <2>1, <3>1
  <2>4. p - 1 \in 1..n /\ ~(q > p - 1) /\ (p - 1) + q < p + q
    BY <1>8, <1>9, <2>1
  <2>5. \A k \in 1..n : k \in 1..m /\ k > p - 1 /\ k > q => A[k] # B[k]
    BY <1>8, <2>1
  <2>6. IsAt(WalkStep(E, w), A, B, p - 1, q)
    BY <1>8, <2>1, <2>2, <2>3, <2>4, <2>5 DEF IsAt, ds, cs, n, m
  <2> QED
    BY <2>4, <2>6
<1>10. CASE q > p
  <2>1. q > 1 /\ p = n /\ (q - 1) + 1 = q
    BY <1>3, <1>8, <1>10
  <2>2. WalkStep(E, w) = NewStep(E, w)
    BY <1>2, <1>3, <1>5, <1>10 DEF WalkStep
  <2>3. NewStep(E, w) = [old |-> A[p], new |-> B[q - 1],
                         disconnected |-> ds(p + 1), connected |-> cs((q - 1) + 1)]
    <3>1. NewStep(E, w) = [old |-> A[p], new |-> E[B[q]].parent,
                           disconnected |-> ds(p + 1), connected |-> <<B[q]>> \o cs(q + 1)]
      BY <1>3a, StepEffects
    <3> QED
      BY <1>4, <1>7, <2>1, <3>1
  <2>4. q - 1 \in 1..m /\ ~(p > q - 1) /\ p + (q - 1) < p + q
    BY <1>8, <1>10, <2>1
  <2>5. \A k \in 1..n : k \in 1..m /\ k > p /\ k > q - 1 => A[k] # B[k]
    BY <1>8, <2>1
  <2>6. IsAt(WalkStep(E, w), A, B, p, q - 1)
    BY <1>8, <2>1, <2>2, <2>3, <2>4, <2>5 DEF IsAt, ds, cs, n, m
  <2> QED
    BY <2>4, <2>6
<1>11. CASE p = q
  <2>1. A[p] # B[p] /\ p > 1
    BY <1>1, <1>2, <1>3, <1>11
  <2>2. WalkStep(E, w) = NewStep(E, OldStep(E, w))
    BY <1>2, <1>3, <1>5, <1>11, <2>1 DEF WalkStep
  <2>3. OldStep(E, w) = [old |-> A[p - 1], new |-> B[p],
                         disconnected |-> ds(p), connected |-> cs(p + 1)]
    <3>1. OldStep(E, w) = [old |-> E[A[p]].parent, new |-> B[q],
                           disconnected |-> Append(ds(p + 1), A[p]), connected |-> cs(q + 1)]
      BY <1>3a, StepEffects
    <3> QED
      BY <1>4, <1>6, <1>11, <2>1, <3>1
  <2>4. NewStep(E, OldStep(E, w)) = [old |-> A[p - 1], new |-> B[p - 1],
                                     disconnected |-> ds(p), connected |-> cs(p)]
    <3> DEFINE v == OldStep(E, w)
    <3>1. NewStep(E, v) = [old |-> A[p - 1], new |-> E[B[p]].parent,
                           disconnected |-> ds(p), connected |-> <<B[p]>> \o cs(p + 1)]
      <4> HIDE DEF v
      <4>1. /\ v = [old |-> v.old, new |-> v.new,
                    disconnected |-> v.disconnected, connected |-> v.connected]
            /\ v.old = A[p - 1] /\ v.new = B[p]
            /\ v.disconnected = ds(p) /\ v.connected = cs(p + 1)
        BY <2>3 DEF v
      <4> QED
        BY <4>1, StepEffects
    <3> QED
      BY <1>4, <1>7, <1>11, <2>1, <3>1
  <2>5. /\ (p - 1) + 1 = p /\ p - 1 \in 1..n /\ p - 1 \in 1..m
        /\ (p - 1) + (p - 1) < p + q /\ ~(p - 1 > p - 1)
    BY <1>8, <1>11, <2>1
  <2>6. \A k \in 1..n : k \in 1..m /\ k > p - 1 => A[k] # B[k]
    <3> SUFFICES ASSUME NEW k \in 1..n, k \in 1..m, k > p - 1 PROVE A[k] # B[k]
      OBVIOUS
    <3>1. k = p \/ k > p
      BY <1>8
    <3> QED
      BY <1>3, <1>11, <2>1, <3>1
  <2>7. IsAt(WalkStep(E, w), A, B, p - 1, p - 1)
    BY <2>2, <2>4, <2>5, <2>6 DEF IsAt, ds, cs, n, m
  <2> QED
    BY <2>5, <2>7
<1> QED
  BY <1>8, <1>9, <1>10, <1>11
IsWalk(walk, E, a, b, n) ==
  walk = [i \in 0..n |-> IF i = 0 THEN [old |-> a, new |-> b,
                                        disconnected |-> <<>>, connected |-> <<>>]
                                  ELSE WalkStep(E, walk[i - 1])]

LEMMA WalkExists ==
  ASSUME NEW E, NEW a, NEW b, E[a].height \in Nat, E[b].height \in Nat
  PROVE  LET n == E[a].height + E[b].height
         IN  \E walk : IsWalk(walk, E, a, b, n) /\ ReorganizationPaths(E, a, b) = walk[n]
<1> DEFINE Step(x) == WalkStep(E, x)
           first == [old |-> a, new |-> b, disconnected |-> <<>>, connected |-> <<>>]
           Body(g, i) == IF i = 0 THEN first ELSE Step(g[i - 1])
           H == {n \in Nat : \E g : g = [i \in 0..n |-> Body(g, i)]}
<1>1. 0 \in H
  <2> DEFINE g == [i \in 0..0 |-> first]
  <2> HIDE DEF first
  <2>1. g = [i \in 0..0 |-> Body(g, i)]
    OBVIOUS
  <2> QED
    BY <2>1
<1>2. ASSUME NEW n \in Nat, n \in H PROVE n + 1 \in H
  <2>1. PICK g : g = [i \in 0..n |-> Body(g, i)]
    BY <1>2
  <2> DEFINE h == [i \in 0..(n + 1) |-> IF i <= n THEN g[i] ELSE Step(g[n])]
  <2> HIDE DEF Step, first
  <2>2. (\A i \in 0..n : h[i] = g[i]) /\ h[n + 1] = Step(h[n])
    OBVIOUS
  <2>3. \A i \in 0..n : g[i] = Body(g, i)
    <3> HIDE DEF Body
    <3> QED
      BY <2>1
  <2>4. h = [i \in 0..(n + 1) |-> h[i]]
    OBVIOUS
  <2> HIDE DEF h
  <2>5. \A i \in 0..n : h[i] = Body(h, i)
    <3>1. \A i \in 0..n : i # 0 => i - 1 \in 0..n
      OBVIOUS
    <3> QED
      BY <2>2, <2>3, <3>1
  <2>6. \A i \in 0..(n + 1) : h[i] = Body(h, i)
    <3>1. h[n + 1] = Body(h, n + 1)
      BY <2>2
    <3>2. \A i \in 0..(n + 1) : i \in 0..n \/ i = n + 1
      OBVIOUS
    <3> HIDE DEF Body
    <3> QED
      BY <2>5, <3>1, <3>2
  <2> HIDE DEF Body
  <2>7. h = [i \in 0..(n + 1) |-> Body(h, i)]
    BY <2>4, <2>6
  <2> QED
    BY <2>7
<1>3. Nat \subseteq H
  <2> HIDE DEF H
  <2> QED
    BY <1>1, <1>2, Induction
<1>4. \E g : g = [i \in 0..(E[a].height + E[b].height) |-> Body(g, i)]
  <2> HIDE DEF Body
  <2>1. E[a].height + E[b].height \in Nat
    OBVIOUS
  <2> QED
    BY <1>3, <2>1
<1> QED
  BY <1>4, Zenon DEF IsWalk, ReorganizationPaths

(* The cursors meet within the sum of the two heights. *)
LEMMA WalkMeets ==
  ASSUME NEW E, NEW S, Follows(E, S), NEW a \in S, NEW b \in S, NEW A, IsBranch(A, a, S),
         NEW B, IsBranch(B, b, S)
  PROVE  \E n : IsAt(ReorganizationPaths(E, a, b), A, B, n, n) /\ A[n] = B[n]
<1>1. /\ A \in Seq(S) /\ B \in Seq(S) /\ A[1] = GenesisBlock /\ B[1] = GenesisBlock
      /\ A[Len(A)] = a /\ B[Len(B)] = b
      /\ Len(A) = a.height + 1 /\ Len(B) = b.height + 1
      /\ \A i \in 1..Len(A) : A[i].height = i - 1
      /\ \A i \in 1..Len(B) : B[i].height = i - 1
  BY DEF IsBranch
<1>2. /\ Len(A) \in Nat /\ Len(B) \in Nat /\ Len(A) > 0 /\ Len(B) > 0
      /\ a \in S /\ b \in S
      /\ a.height = Len(A) - 1 /\ b.height = Len(B) - 1
  <2>1. Len(A) \in Nat /\ Len(B) \in Nat
    BY <1>1
  <2>2. Len(A) # 0 /\ Len(B) # 0
    <3>1. a.height \in Nat /\ b.height \in Nat
      BY DEF Follows
    <3> QED
      BY <1>1, <3>1
  <2> QED
    BY <1>1, <2>1, <2>2
<1> DEFINE n == E[a].height + E[b].height
<1>3. n \in Nat /\ n = Len(A) + Len(B) - 2 /\ E[a].height \in Nat /\ E[b].height \in Nat
  BY <1>2 DEF Follows
<1>4. PICK walk : IsWalk(walk, E, a, b, n) /\ ReorganizationPaths(E, a, b) = walk[n]
  BY <1>3, WalkExists
<1> HIDE DEF n
<1> DEFINE Good(i) == \E p, q : /\ IsAt(walk[i], A, B, p, q)
                                /\ A[p] = B[q] \/ p + q + i <= Len(A) + Len(B)
           H == {i \in Nat : i <= n => Good(i)}
<1>5. 0 \in H
  <2>1. walk[0] = [old |-> a, new |-> b, disconnected |-> <<>>, connected |-> <<>>]
    BY <1>3, <1>4 DEF IsWalk
  <2>2. /\ Reverse(SubSeq(A, Len(A) + 1, Len(A))) = <<>>
        /\ SubSeq(B, Len(B) + 1, Len(B)) = <<>>
    BY <1>1, NoSuffix
  <2>3. IsAt(walk[0], A, B, Len(A), Len(B))
    <3>1. Len(A) \in 1..Len(A) /\ Len(B) \in 1..Len(B)
      BY <1>2
    <3>2. \A k \in 1..Len(A) : ~(k > Len(A))
      BY <1>2
    <3> QED
      BY <1>1, <2>1, <2>2, <3>1, <3>2 DEF IsAt
  <2>4. Good(0)
    BY <1>2, <2>3
  <2> QED
    BY <2>4
<1>6. ASSUME NEW i \in Nat, i \in H PROVE i + 1 \in H
  <2> SUFFICES ASSUME i + 1 <= n PROVE Good(i + 1)
    OBVIOUS
  <2>1. PICK p, q : /\ IsAt(walk[i], A, B, p, q)
                    /\ A[p] = B[q] \/ p + q + i <= Len(A) + Len(B)
    BY <1>3, <1>6
  <2>2. walk[i + 1] = WalkStep(E, walk[i])
    <3>1. i + 1 \in 0..n /\ i + 1 # 0 /\ (i + 1) - 1 = i
      BY <1>3
    <3> QED
      BY <1>4, <3>1 DEF IsWalk
  <2>3. walk[i].old = A[p] /\ walk[i].new = B[q] /\ p \in Nat /\ q \in Nat
    BY <2>1 DEF IsAt
  <2>4. CASE A[p] = B[q]
    <3>1. walk[i + 1] = walk[i]
      <4>1. A[p] \in S
        <5>1. p \in 1..Len(A) /\ A \in Seq(S)
          BY <1>1, <2>1 DEF IsAt
        <5> QED
          BY <5>1
      <4> QED
        BY <2>2, <2>3, <2>4, <4>1, WalkRests DEF Follows
    <3> QED
      BY <2>1, <2>4, <3>1
  <2>5. CASE A[p] # B[q]
    <3>1. PICK x, y : x + y < p + q /\ IsAt(WalkStep(E, walk[i]), A, B, x, y)
      BY <2>1, <2>3, <2>5, WalkStepDown
    <3>2. x \in Nat /\ y \in Nat
      BY <3>1 DEF IsAt
    <3>3. x + y + (i + 1) <= Len(A) + Len(B)
      BY <1>2, <2>1, <2>3, <2>5, <3>1, <3>2
    <3> QED
      BY <2>2, <3>1, <3>3
  <2> QED
    BY <2>4, <2>5
<1>7. Nat \subseteq H
  <2> HIDE DEF H
  <2> QED
    BY <1>5, <1>6, Induction
<1>8. PICK p, q : IsAt(walk[n], A, B, p, q) /\ (A[p] = B[q] \/ p + q + n <= Len(A) + Len(B))
  <2>1. n \in H /\ n <= n
    <3> HIDE DEF H
    <3> QED
      BY <1>3, <1>7
  <2> QED
    BY <2>1
<1>9. p \in 1..Len(A) /\ q \in 1..Len(B)
  BY <1>8 DEF IsAt
<1>10. A[p] = B[q]
  <2>1. CASE p + q + n <= Len(A) + Len(B)
    <3>1. p = 1 /\ q = 1
      BY <1>2, <1>3, <1>9, <2>1
    <3> QED
      BY <1>1, <3>1
  <2> QED
    BY <1>8, <2>1
<1>11. p = q
  <2>1. p - 1 = q - 1
    BY <1>1, <1>9, <1>10
  <2> QED
    BY <1>9, <2>1
<1> QED
  BY <1>4, <1>8, <1>10, <1>11

(* Two branches that agree at a height agree below it. *)
LEMMA CommonPrefix ==
  ASSUME NEW S, NEW a, NEW A, IsBranch(A, a, S), NEW b, NEW B, IsBranch(B, b, S),
         NEW n, n \in 1..Len(A), n \in 1..Len(B), A[n] = B[n]
  PROVE  SubSeq(A, 1, n) = SubSeq(B, 1, n)
<1>1. /\ A \in Seq(S) /\ B \in Seq(S)
      /\ \A i \in 2..Len(A) : A[i].prev = A[i - 1]
      /\ \A i \in 2..Len(B) : B[i].prev = B[i - 1]
  BY DEF IsBranch
<1> DEFINE H == {i \in Nat : i < n => A[n - i] = B[n - i]}
<1>2. 0 \in H
  OBVIOUS
<1>3. ASSUME NEW i \in Nat, i \in H PROVE i + 1 \in H
  <2> SUFFICES ASSUME i + 1 < n PROVE A[n - (i + 1)] = B[n - (i + 1)]
    OBVIOUS
  <2>1. A[n - i] = B[n - i]
    BY <1>3
  <2>2. n - i \in 2..Len(A) /\ n - i \in 2..Len(B) /\ (n - i) - 1 = n - (i + 1)
    BY <1>1
  <2> QED
    BY <1>1, <2>1, <2>2
<1>4. Nat \subseteq H
  <2> HIDE DEF H
  <2> QED
    BY <1>2, <1>3, Induction
<1>5. \A j \in 1..n : A[j] = B[j]
  <2> SUFFICES ASSUME NEW j \in 1..n PROVE A[j] = B[j]
    OBVIOUS
  <2>1. n - j \in Nat /\ n - j < n /\ n - (n - j) = j
    OBVIOUS
  <2>2. n - j \in H
    <3> HIDE DEF H
    <3> QED
      BY <1>4, <2>1
  <2> QED
    BY <2>1, <2>2
<1> DEFINE u == SubSeq(A, 1, n)
           v == SubSeq(B, 1, n)
<1>6. u \in Seq(S) /\ Len(u) = n /\ \A i \in 1..n : u[i] = A[i]
  BY <1>1
<1>7. v \in Seq(S) /\ Len(v) = n /\ \A i \in 1..n : v[i] = B[i]
  BY <1>1
<1> HIDE DEF u, v
<1>8. u = v
  BY <1>5, <1>6, <1>7
<1> QED
  BY <1>8 DEF u, v

(* u reports the switch from the chain A to the chain B: the ancestor is the
   last block of their longest common prefix, everything after it in A is
   disconnected tip first, and everything after it in B connected in order. *)
Reports(u, A, B) ==
  \E n \in 1..Len(A) :
    /\ n <= Len(B)
    /\ SubSeq(A, 1, n) = SubSeq(B, 1, n)
    /\ n < Len(A) /\ n < Len(B) => A[n + 1] # B[n + 1]
    /\ u.ancestor = A[n]
    /\ u.reorganized = (n < Len(A))
    /\ u.connected = SubSeq(B, n + 1, Len(B))
    /\ u.disconnected = Reverse(SubSeq(A, n + 1, Len(A)))

LEMMA SwitchReported ==
  ASSUME NEW E, NEW S, Follows(E, S), NEW a \in S, NEW A, IsBranch(A, a, S),
         NEW b \in S, NEW B, IsBranch(B, b, S)
  PROVE  Reports(SwitchUpdate(b, ReorganizationPaths(E, a, b)), A, B)
<1> DEFINE w == ReorganizationPaths(E, a, b)
           u == SwitchUpdate(b, w)
<1>1. PICK n : IsAt(w, A, B, n, n) /\ A[n] = B[n]
  BY WalkMeets
<1> HIDE DEF w
<1>2. /\ n \in 1..Len(A) /\ n \in 1..Len(B)
      /\ w.old = A[n]
      /\ w.disconnected = Reverse(SubSeq(A, n + 1, Len(A)))
      /\ w.connected = SubSeq(B, n + 1, Len(B))
      /\ \A k \in 1..Len(A) : k \in 1..Len(B) /\ k > n => A[k] # B[k]
  BY <1>1 DEF IsAt
<1>3. /\ u.ancestor = A[n] /\ u.connected = w.connected /\ u.disconnected = w.disconnected
      /\ u.reorganized = (w.disconnected # <<>>)
  BY <1>2 DEF SwitchUpdate
<1>4. SubSeq(A, 1, n) = SubSeq(B, 1, n)
  <2>1. n \in 1..Len(A) /\ n \in 1..Len(B) /\ A[n] = B[n]
    BY <1>1, <1>2
  <2> QED
    BY <2>1, CommonPrefix
<1>5. (w.disconnected # <<>>) = (n < Len(A))
  <2>1. A \in Seq(S) /\ Len(A) \in Nat
    BY DEF IsBranch
  <2> DEFINE s == SubSeq(A, n + 1, Len(A))
  <2>2. s \in Seq(S) /\ Len(s) = Len(A) - n
    BY <1>2, <2>1
  <2> HIDE DEF s
  <2>3. Reverse(s) \in Seq(S) /\ Len(Reverse(s)) = Len(A) - n
    BY <2>2, ReverseFacts
  <2>4. Len(Reverse(s)) = 0 <=> Reverse(s) = <<>>
    BY <2>3
  <2>5. w.disconnected # <<>> <=> n < Len(A)
    BY <1>2, <2>1, <2>3, <2>4 DEF s
  <2> QED
    BY <2>5
<1>6. n < Len(A) /\ n < Len(B) => A[n + 1] # B[n + 1]
  <2>1. n < Len(A) /\ n < Len(B) => n + 1 \in 1..Len(A) /\ n + 1 \in 1..Len(B) /\ n + 1 > n
    BY <1>2
  <2> QED
    BY <1>2, <2>1
<1> HIDE DEF u
<1>7. /\ n \in 1..Len(A) /\ n <= Len(B)
      /\ u.reorganized = (n < Len(A))
      /\ u.connected = SubSeq(B, n + 1, Len(B))
      /\ u.disconnected = Reverse(SubSeq(A, n + 1, Len(A)))
  BY <1>2, <1>3, <1>5
<1> QED
  BY <1>3, <1>4, <1>6, <1>7 DEF u, w, Reports

LEMMA SoundFollows == ASSUME NEW c, TreeSound(c) PROVE Follows(c.entries, Known(c))
BY BlockFacts DEF Follows

(* What add_block returns when b becomes the tip. *)
LEMMA UpdateIsExact ==
  ASSUME NEW c, TreeSound(c), NEW b, AddOutcome(c, b) = "accepted", AddBlock(c, b).tip = b
  PROVE  /\ UpdateFor(c, b).becameActive
         /\ Reports(UpdateFor(c, b), Branch(c.entries, c.tip),
                    Branch(AddBlock(c, b).entries, b))
<1> DEFINE d == AddBlock(c, b)
           A == Branch(c.entries, c.tip)
           B == Branch(d.entries, b)
           E == d.entries
           paths == ReorganizationPaths(E, c.tip, b)
<1>1. UpdateFor(c, b) = SwitchUpdate(b, paths)
  BY DEF UpdateFor, UpdateBetween
<1>2. SwitchUpdate(b, paths).becameActive = TRUE
  BY DEF SwitchUpdate
<1>3. TreeSound(d) /\ Known(d) = Known(c) \cup {b} /\ c.tip \in Known(c)
  BY AddKeepsSound, AddEffects DEF TreeSound, EntriesTyped
<1>4. A = Branch(E, c.tip)
  BY <1>3, BranchGrows
<1>5. IsBranch(A, c.tip, Known(d)) /\ IsBranch(B, b, Known(d)) /\ Follows(E, Known(d))
  <2> HIDE DEF d
  <2>1. IsBranch(Branch(E, c.tip), c.tip, Known(d)) /\ IsBranch(B, b, Known(d))
    BY <1>3, BranchIsBranch
  <2> QED
    BY <1>3, <1>4, <2>1, SoundFollows
<1> HIDE DEF d, A, B, E
<1>6. c.tip \in Known(d) /\ b \in Known(d)
  BY <1>3
<1>7. Reports(SwitchUpdate(b, paths), A, B)
  BY <1>5, <1>6, SwitchReported
<1> HIDE DEF paths
<1> QED
  BY <1>1, <1>2, <1>7 DEF A, B, E, d
=============================================================================
