---------------------------- MODULE ChainProofs ----------------------------
(***************************************************************************)
(* What holds of the block tree of Chain for every set of blocks, every    *)
(* reward schedule and every difficulty rule the constants allow.          *)
(*                                                                         *)
(* Inductive invariants carry the rest: the tree is sound, and so is       *)
(* the account state of every entry.  What one accepted block does to them *)
(* is proved in BlockTreeProofs.                                           *)
(***************************************************************************)
EXTENDS Chain, BlockTreeProofs, TLAPS

IInv == TreeSound(chain) /\ known \subseteq Blocks \cup {GenesisBlock}

(* The targets along every branch. *)
Retargeted ==
  TargetsTyped(chain) /\ \A b \in known \ {GenesisBlock} : RetargetIsBounded(b)

(* The invariants in the words of Chain. *)
LEMMA IInvMeans == IInv => RecordsTyped
BY DEF IInv, TreeSound, EntriesTyped, RecordsTyped, known, entries

LEMMA BranchSoundMeans == IInv /\ Retargeted => BranchSound
BY DEF IInv, Retargeted, TreeSound, ParentsKnown, BranchSound, Children, known, entries

(* A tree that rejects a block, or is not asked anything, is the same tree. *)
LEMMA NextCases ==
  ASSUME [Next]_vars
  PROVE  \/ \E b \in Blocks : Accept(b)
         \/ UNCHANGED chain
BY DEF Next, Reject, vars

LEMMA AcceptEffects ==
  ASSUME IInv, NEW b \in Blocks, Accept(b)
  PROVE  /\ AddOutcome(chain, b) = "accepted" /\ chain' = AddBlock(chain, b)
         /\ b \notin known /\ b.prev \in known
         /\ b.height = b.prev.height + 1
         /\ b.target \in 1..MaxTarget
         /\ known' = known \cup {b}
         /\ \A k \in known : entries'[k] = entries[k]
         /\ entries'[b].work = entries[b.prev].work + WorkForTarget(b.target)
         /\ chain'.tip = IF entries'[b].work > entries[chain.tip].work
                           THEN b ELSE chain.tip
<1>1. AddOutcome(chain, b) = "accepted" /\ chain' = AddBlock(chain, b) /\ EntriesTyped(chain)
  BY DEF Accept, IInv, TreeSound
<1> QED
  BY <1>1, AddEffects DEF known, entries

(* The genesis tree satisfies the invariant, and every step preserves it. *)
LEMMA InitIInv == Init => IInv
BY EmptyChainSound DEF Init, IInv, known

LEMMA NextIInv == IInv /\ [Next]_vars => IInv'
<1> SUFFICES ASSUME IInv, [Next]_vars PROVE IInv'
  OBVIOUS
<1>1. CASE UNCHANGED chain
  BY <1>1 DEF IInv, known
<1>2. ASSUME NEW b \in Blocks, Accept(b) PROVE IInv'
  <2>1. chain' = AddBlock(chain, b) /\ known' = known \cup {b} /\ TreeSound(AddBlock(chain, b))
    BY <1>2, AcceptEffects, AddKeepsSound DEF IInv
  <2> QED
    BY <2>1 DEF IInv
<1> QED
  BY <1>1, <1>2, NextCases

(* The inductive invariant holds in every reachable state of the tree. *)
THEOREM Invariance == Spec => []IInv
BY InitIInv, NextIInv, PTL DEF Spec

(* The tip and the genesis block are always known, and every entry has the
   height of its block and a positive work (TypeOK without the account states):
   no lookup of add_block or of the tip properties can miss. *)
THEOREM RecordsTypedTheorem == Spec => []RecordsTyped
BY Invariance, IInvMeans, PTL

LEMMA InitRetargeted == Init => Retargeted
<1>1. GenesisBlock.timestamp \in Int /\ GenesisBlock.target \in 1..MaxTarget
  BY LedgerAssumption DEF LedgerAssumption, GenesisBlock
<1> QED
  BY <1>1, EmptyChainSound DEF Init, Retargeted, TargetsTyped, known

LEMMA NextRetargeted == IInv /\ Retargeted /\ [Next]_vars => Retargeted'
<1> SUFFICES ASSUME IInv, Retargeted, [Next]_vars PROVE Retargeted'
  OBVIOUS
<1>1. CASE UNCHANGED chain
  BY <1>1 DEF Retargeted, TargetsTyped, RetargetIsBounded, known, Known
<1>2. ASSUME NEW b \in Blocks, Accept(b) PROVE Retargeted'
  <2>1. /\ AddOutcome(chain, b) = "accepted" /\ known' = known \cup {b}
        /\ b.prev \in known /\ b.target \in 1..MaxTarget /\ b.height = b.prev.height + 1
    BY <1>2, AcceptEffects
  <2>2. b.sealed /\ b.target = ExpectedTargetForChild(chain.entries, b.prev)
    BY <2>1 DEF AddOutcome, Execution, ValidateAndExecuteBlock, Verdict
  <2>3. b.timestamp \in Int
    BY <2>2, ChainAssumption, LedgerAssumption DEF ChainAssumption, LedgerAssumption
  <2>4. RetargetIsBounded(b)
    BY <2>1, <2>2, TargetBounds DEF IInv, Retargeted, RetargetIsBounded, known
  <2>5. TargetsTyped(chain)' /\ \A k \in known' \ {GenesisBlock} : RetargetIsBounded(k)
    BY <2>1, <2>3, <2>4 DEF Retargeted, TargetsTyped, known
  <2> QED
    BY <2>5 DEF Retargeted, RetargetIsBounded
<1> QED
  BY <1>1, <1>2, NextCases

(* Every known block extends a known block, at the next height and a later
   time, with its own work added, and no window of timestamps moves the target
   by more than the factor (add_block, expected_target_for_child). *)
THEOREM BranchSoundTheorem == Spec => []BranchSound
BY Invariance, InitRetargeted, NextRetargeted, BranchSoundMeans, PTL DEF Spec

(* No known block has more cumulative work than the active tip. *)
THEOREM HeaviestStoredTheorem == Spec => []TipHeaviest(chain)
<1>1. IInv => TipHeaviest(chain)
  BY DEF IInv, TreeSound
<1> QED
  BY <1>1, Invariance, PTL

-----------------------------------------------------------------------------
(* The active tip moves only to strictly more work (became_active). *)
THEOREM FirstSeenWinsTheorem == Spec => FirstSeenWins
<1>1. IInv /\ [Next]_vars =>
        [chain'.tip # chain.tip => TipEntry(chain').work > TipEntry(chain).work]_vars
  <2> SUFFICES ASSUME IInv, [Next]_vars, chain'.tip # chain.tip
               PROVE  TipEntry(chain').work > TipEntry(chain).work
    OBVIOUS
  <2>1. PICK b \in Blocks : Accept(b)
    BY NextCases
  <2>2. chain'.tip = b /\ entries'[b].work > entries[chain.tip].work
    BY <2>1, AcceptEffects
  <2> QED
    BY <2>2 DEF TipEntry, entries
<1> QED
  BY <1>1, Invariance, PTL DEF Spec, FirstSeenWins

(***************************************************************************)
(* Refinement: every behaviour of the tree is one of the abstract fork     *)
(* choice.  An accepted block is a Learn step, everything else stutters.   *)
(***************************************************************************)
LEMMA InitRefines == Init => FC!Init
<1> SUFFICES ASSUME Init PROVE FC!Init
  OBVIOUS
<1>1. IInv /\ chain = EmptyChain
  BY InitIInv DEF Init
<1>2. known = {GenesisBlock} /\ chain.tip = GenesisBlock
  BY <1>1 DEF EmptyChain, known, Known
<1>3. [b \in known |-> entries[b].work] \in [{GenesisBlock} -> Nat \ {0}]
  BY <1>1, <1>2 DEF IInv, TreeSound, EntriesTyped, known, entries
<1> QED
  BY <1>2, <1>3 DEF FC!Init

LEMMA NextRefines == IInv /\ [Next]_vars => [FC!Learn]_(FC!vars)
<1> SUFFICES ASSUME IInv, [Next]_vars PROVE [FC!Learn]_(FC!vars)
  OBVIOUS
<1>1. CASE UNCHANGED chain
  BY <1>1 DEF FC!vars, known, entries, Known
<1>2. ASSUME NEW b \in Blocks, Accept(b) PROVE FC!Learn
  <2> DEFINE w == [k \in known |-> entries[k].work]
  <2>1. /\ b \notin known
        /\ b.prev \in known
        /\ b.target \in 1..MaxTarget
        /\ known' = known \cup {b}
        /\ \A k \in known : entries'[k] = entries[k]
        /\ entries'[b].work = entries[b.prev].work + WorkForTarget(b.target)
        /\ chain'.tip = IF entries'[b].work > entries[chain.tip].work
                          THEN b ELSE chain.tip
    BY <1>2, AcceptEffects
  <2>2. WorkForTarget(b.target) \in Nat \ {0}
    BY <2>1, WorkIsPositive
  <2>3. \A k \in known : entries[k].work \in Nat \ {0}
    BY DEF IInv, TreeSound, EntriesTyped, known, entries
  <2>4. chain.tip \in known
    BY DEF IInv, TreeSound, EntriesTyped, known, entries
  <2>5. w' = [k \in known' |-> entries'[k].work]
    OBVIOUS
  <2>6. \A k \in known : w'[k] = w[k]
    BY <2>1, <2>5
  <2>7. w'[b] = w[b.prev] + WorkForTarget(b.target)
    BY <2>1, <2>5
  <2>8. w' \in [known' -> Nat] /\ w'[b] > w[b.prev]
    BY <2>1, <2>2, <2>3, <2>5, <2>7
  <2>9. chain'.tip = IF w'[b] > w[chain.tip] THEN b ELSE chain.tip
    BY <2>1, <2>4, <2>5
  <2>10. b \in known' \ known
    BY <2>1
  <2> HIDE DEF w
  <2>11. /\ known' = known \cup {b}
         /\ b.prev \in known
         /\ w' \in [known' -> Nat]
         /\ \A k \in known : w'[k] = w[k]
         /\ w'[b] > w[b.prev]
         /\ chain'.tip = IF w'[b] > w[chain.tip] THEN b ELSE chain.tip
    BY <2>1, <2>6, <2>8, <2>9
  <2> USE DEF w
  <2> QED
    BY <2>10, <2>11 DEF FC!Learn
<1> QED
  BY <1>1, <1>2, NextCases

(* Whatever blocks are submitted, the tree keeps the promise of ForkChoice. *)
THEOREM ChainImplementsForkChoice == Spec => ImplementsForkChoice
BY InitRefines, NextRefines, Invariance, PTL DEF Spec, FC!Spec, ImplementsForkChoice

-----------------------------------------------------------------------------
(***************************************************************************)
(* The accounts: every entry carries a sound state, whatever the branch.   *)
(***************************************************************************)
StatesSound == \A b \in known : StateSound(entries[b].state, entries[b].supply)

(* The execution of an accepted block. *)
LEMMA ExecutionEffects ==
  ASSUME IInv, StatesSound, NEW b \in Blocks, Accept(b)
  PROVE  LET before == entries[b.prev]
             after  == entries'[b]
             txs    == b.transactions
         IN  /\ StateSound(after.state, after.supply)
             /\ after.state.confirmed = before.state.confirmed \cup {txs[j] : j \in 1..Len(txs)}
             /\ Cardinality(after.state.confirmed) =
                  Cardinality(before.state.confirmed) + Len(txs)
             /\ \A j \in 1..Len(txs) : b.height <= txs[j].validUntil
<1> DEFINE before == entries[b.prev]
           txs == b.transactions
           body == RunBody(before.state, before.supply, b.height, b.reward.miner, txs)
<1>1. /\ b \notin known /\ b.prev \in known /\ b.height = b.prev.height + 1
      /\ Execution(chain, b).ok
  <2>1. AddOutcome(chain, b) = "accepted" /\ EntriesTyped(chain)
    BY AcceptEffects DEF IInv, TreeSound
  <2> QED
    BY <2>1, AddEffects DEF known
<1>2. entries'[b] = NewEntry(chain, b)
  BY <1>1 DEF Accept, AddBlock, InsertEntry, entries
<1>3. /\ entries'[b].state = body.state /\ entries'[b].supply = body.supply
      /\ body.ok /\ b.sealed /\ b.reward.miner = b.miner
  BY <1>1, <1>2 DEF NewEntry, EntryFor, Execution, ValidateAndExecuteBlock, Verdict,
                    ParentEntry, entries
<1>4. b.height \in Nat /\ StateSound(before.state, before.supply)
  <2>1. b.prev.height \in Nat
    BY <1>1, LedgerAssumption DEF LedgerAssumption, IInv, TreeSound, EntriesTyped, known, entries
  <2> QED
    BY <1>1, <2>1 DEF StatesSound
<1>5. b.reward.miner \in Addresses
  BY <1>3, ChainAssumption DEF ChainAssumption
<1>6. txs \in Seq(Range(txs)) /\ Len(txs) \in Nat
  BY ChainAssumption DEF ChainAssumption
<1>7. \A i \in 1..Len(txs) : txs[i].authentic => NamesAddresses(txs[i])
  <2>1. \A i \in 1..Len(txs) : txs[i] \in Range(txs)
    BY <1>6
  <2> QED
    BY <2>1, ChainAssumption DEF ChainAssumption, NamesAddresses
<1>8. /\ StateSound(body.state, body.supply)
      /\ body.state.confirmed = before.state.confirmed \cup {txs[j] : j \in 1..Len(txs)}
      /\ Cardinality(body.state.confirmed) = Cardinality(before.state.confirmed) + Len(txs)
      /\ \A j \in 1..Len(txs) : b.height <= txs[j].validUntil
  <2> HIDE DEF before, txs
  <2>1. /\ StateSound(body.state, body.supply)
        /\ body.state.confirmed = before.state.confirmed \cup {txs[j] : j \in 1..Len(txs)}
        /\ Cardinality(body.state.confirmed) = Cardinality(before.state.confirmed) + Len(txs)
        /\ \A j \in 1..Len(txs) : ValidTransaction(txs[j], b.height)
    BY <1>3, <1>4, <1>5, <1>6, <1>7, BodyEffects
  <2> QED
    BY <2>1 DEF ValidTransaction
<1> QED
  BY <1>3, <1>8

LEMMA InitStatesSound == Init => StatesSound
<1> SUFFICES ASSUME Init PROVE StatesSound
  OBVIOUS
<1>1. /\ known = {GenesisBlock}
      /\ entries[GenesisBlock].state = EmptyState /\ entries[GenesisBlock].supply = 0
  BY DEF Init, EmptyChain, known, entries, Known
<1> QED
  BY <1>1, EmptyStateSound DEF StatesSound

LEMMA NextStatesSound == IInv /\ StatesSound /\ [Next]_vars => StatesSound'
<1> SUFFICES ASSUME IInv, StatesSound, [Next]_vars PROVE StatesSound'
  OBVIOUS
<1>1. CASE UNCHANGED chain
  BY <1>1 DEF StatesSound, known, entries, Known
<1>2. ASSUME NEW b \in Blocks, Accept(b) PROVE StatesSound'
  <2>1. known' = known \cup {b} /\ \A k \in known : entries'[k] = entries[k]
    BY <1>2, AcceptEffects
  <2>2. StateSound(entries'[b].state, entries'[b].supply)
    BY <1>2, ExecutionEffects
  <2> QED
    BY <2>1, <2>2 DEF StatesSound
<1> QED
  BY <1>1, <1>2, NextCases

THEOREM StatesSoundTheorem == Spec => []StatesSound
<1>1. Init => IInv /\ StatesSound
  BY InitIInv, InitStatesSound
<1>2. (IInv /\ StatesSound) /\ [Next]_vars => (IInv /\ StatesSound)'
  BY NextIInv, NextStatesSound
<1> QED
  BY <1>1, <1>2, PTL DEF Spec

(* The type invariant: heights, work, supply and accounts stay within the
   widths of the wire format, on every branch. *)
THEOREM TypeOKTheorem == Spec => []TypeOK
<1>1. IInv /\ StatesSound => TypeOK
  BY IInvMeans DEF TypeOK, StatesTyped, StatesSound, StateSound, Table
<1> QED
  BY <1>1, Invariance, StatesSoundTheorem, PTL

(* On every branch the coins in the accounts are the coins minted, and never
   more than the maximum supply: no order of submissions, no fee, no transfer
   to oneself and no reward at the cap creates or destroys a coin. *)
THEOREM ConservationTheorem == Spec => []Conservation
<1>1. \A b : Balances(entries[b].state) = Total(entries[b].state.accounts)
  BY Zenon DEF Balances, Total
<1>2. IInv /\ StatesSound => Conservation
  BY <1>1, LedgerAssumption DEF LedgerAssumption, Conservation, StatesSound, StateSound
<1> QED
  BY <1>2, Invariance, StatesSoundTheorem, PTL

-----------------------------------------------------------------------------
(***************************************************************************)
(* What a branch has confirmed.                                            *)
(***************************************************************************)
(* n pairs that start with h make a set larger by n. *)
WithPairs(C, h, n) == C \cup {<<h, i>> : i \in 1..n}

LEMMA PairsAdd ==
  ASSUME NEW C, IsFiniteSet(C), NEW h, \A i \in Nat : <<h, i>> \notin C
  PROVE  \A n \in Nat : /\ IsFiniteSet(WithPairs(C, h, n))
                       /\ Cardinality(WithPairs(C, h, n)) = Cardinality(C) + n
<1> DEFINE D(n) == WithPairs(C, h, n)
           H == {n \in Nat : IsFiniteSet(D(n)) /\ Cardinality(D(n)) = Cardinality(C) + n}
<1>1. Cardinality(C) \in Nat
  BY FS_CardinalityType
<1>2. 0 \in H
  <2>1. D(0) = C
    BY DEF WithPairs
  <2> HIDE DEF D
  <2> QED
    BY <1>1, <2>1
<1>3. ASSUME NEW n \in Nat, n \in H PROVE n + 1 \in H
  <2>1. D(n + 1) = D(n) \cup {<<h, n + 1>>}
    <3>1. 1..(n + 1) = 1..n \cup {n + 1}
      OBVIOUS
    <3> QED
      BY <3>1 DEF WithPairs
  <2>2. <<h, n + 1>> \notin D(n)
    <3>1. \A i \in 1..n : i # n + 1
      OBVIOUS
    <3> QED
      BY <3>1 DEF WithPairs
  <2> HIDE DEF D
  <2>3. IsFiniteSet(D(n)) /\ Cardinality(D(n)) = Cardinality(C) + n
    BY <1>3
  <2>4. /\ IsFiniteSet(D(n) \cup {<<h, n + 1>>})
        /\ Cardinality(D(n) \cup {<<h, n + 1>>}) = Cardinality(D(n)) + 1
    BY <2>2, <2>3, FS_AddElement
  <2> QED
    BY <1>1, <2>1, <2>3, <2>4
<1>4. Nat \subseteq H
  <2> HIDE DEF H
  <2> QED
    BY <1>2, <1>3, Induction
<1> QED
  BY <1>4

(* NoReplay for the blocks of one branch; the nonces are in StateSound. *)
BranchConfirmed(s, st) ==
  LET confirmations == UNION { {<<x.height, i>> : i \in DOMAIN x.transactions} : x \in Range(s) }
  IN  /\ st.confirmed = UNION { Range(x.transactions) : x \in Range(s) }
      /\ IsFiniteSet(confirmations)
      /\ Cardinality(confirmations) = Cardinality(st.confirmed)
      /\ \A x \in Range(s) : \A t \in Range(x.transactions) : x.height <= t.validUntil

LEMMA RangeAppend ==
  ASSUME NEW S, NEW s \in Seq(S), NEW b
  PROVE  Range(Append(s, b)) = Range(s) \cup {b}
<1> DEFINE t == Append(s, b)
           n == Len(s)
<1>1. n \in Nat /\ DOMAIN s = 1..n
  OBVIOUS
<1>2. DOMAIN t = 1..(n + 1) /\ t[n + 1] = b /\ \A i \in 1..n : t[i] = s[i]
  <2>1. s \in Seq(S \cup {b})
    OBVIOUS
  <2> QED
    BY <2>1
<1>3. 1..(n + 1) = 1..n \cup {n + 1}
  BY <1>1
<1> HIDE DEF t, n
<1>4. Range(t) = {t[i] : i \in 1..n} \cup {t[n + 1]}
  BY <1>2, <1>3 DEF Range
<1>5. Range(s) = {t[i] : i \in 1..n}
  BY <1>1, <1>2 DEF Range
<1> QED
  BY <1>2, <1>4, <1>5 DEF t

LEMMA ConfirmedExtends ==
  ASSUME NEW S, NEW s \in Seq(S), NEW b, \A x \in Range(s) : x.height # b.height,
         NEW st, BranchConfirmed(s, st), IsFiniteSet(st.confirmed),
         NEW T, b.transactions \in Seq(T), NEW after,
         after.confirmed = st.confirmed \cup {b.transactions[j] : j \in 1..Len(b.transactions)},
         Cardinality(after.confirmed) = Cardinality(st.confirmed) + Len(b.transactions),
         \A j \in 1..Len(b.transactions) : b.height <= b.transactions[j].validUntil
  PROVE  BranchConfirmed(Append(s, b), after)
<1> DEFINE txs == b.transactions
           C == UNION { {<<x.height, i>> : i \in DOMAIN x.transactions} : x \in Range(s) }
           D == UNION { {<<x.height, i>> : i \in DOMAIN x.transactions} : x \in Range(Append(s, b)) }
<1>1. Range(Append(s, b)) = Range(s) \cup {b}
  BY RangeAppend
<1>2. Len(txs) \in Nat /\ DOMAIN txs = 1..Len(txs) /\ Range(txs) = {txs[j] : j \in 1..Len(txs)}
  BY DEF Range
<1>3. after.confirmed = UNION { Range(x.transactions) : x \in Range(Append(s, b)) }
  BY <1>1, <1>2 DEF BranchConfirmed
<1>4. D = C \cup {<<b.height, i>> : i \in 1..Len(txs)}
  BY <1>1, <1>2
<1>5. \A i \in Nat : <<b.height, i>> \notin C
  OBVIOUS
<1>6. IsFiniteSet(C) /\ Cardinality(C) = Cardinality(st.confirmed)
  BY DEF BranchConfirmed
<1>7. IsFiniteSet(D) /\ Cardinality(D) = Cardinality(after.confirmed)
  <2> DEFINE n == Len(txs)
             h == b.height
             G == WithPairs(C, h, n)
  <2>1. n \in Nat /\ (\A i \in Nat : <<h, i>> \notin C) /\ IsFiniteSet(C)
    BY <1>2, <1>5, <1>6
  <2>2. D = G
    BY <1>4 DEF WithPairs
  <2> HIDE DEF C, n, h
  <2>3. IsFiniteSet(G) /\ Cardinality(G) = Cardinality(C) + n
    BY <2>1, PairsAdd
  <2> HIDE DEF D, G
  <2> QED
    BY <1>6, <2>2, <2>3 DEF n
<1>8. \A x \in Range(Append(s, b)) : \A t \in Range(x.transactions) : x.height <= t.validUntil
  <2>1. \A x \in Range(s) : \A t \in Range(x.transactions) : x.height <= t.validUntil
    BY DEF BranchConfirmed
  <2>2. \A t \in Range(txs) : b.height <= t.validUntil
    BY <1>2
  <2> QED
    BY <1>1, <2>1, <2>2
<1> QED
  BY <1>3, <1>7, <1>8 DEF BranchConfirmed

BranchesConfirmed == \A b \in known : BranchConfirmed(Branch(entries, b), entries[b].state)

LEMMA InitBranchesConfirmed == Init => BranchesConfirmed
<1> SUFFICES ASSUME Init PROVE BranchesConfirmed
  OBVIOUS
<1>1. IInv /\ known = {GenesisBlock} /\ entries[GenesisBlock].state = EmptyState
  BY InitIInv DEF Init, EmptyChain, known, entries, Known
<1> DEFINE s == Branch(entries, GenesisBlock)
<1>2. s \in Seq(known) /\ Len(s) = 1 /\ s[1] = GenesisBlock
  <2>1. IsBranch(s, GenesisBlock, known) /\ GenesisBlock.height = 0
    BY <1>1, BranchIsBranch DEF IInv, known, entries, GenesisBlock
  <2> HIDE DEF s
  <2> QED
    BY <2>1 DEF IsBranch
<1>3. Range(s) = {GenesisBlock} /\ GenesisBlock.transactions = <<>>
  <2>1. DOMAIN s = {1}
    <3>1. DOMAIN s = 1..1 /\ 1..1 = {1}
      BY <1>2
    <3> QED
      BY <3>1
  <2>2. Range(s) = {s[1]}
    <3> HIDE DEF s
    <3> QED
      BY <2>1 DEF Range
  <2> QED
    BY <1>2, <2>2 DEF GenesisBlock
<1>4. Range(GenesisBlock.transactions) = {} /\ DOMAIN GenesisBlock.transactions = {}
  BY <1>3 DEF Range
<1>5. EmptyState.confirmed = {} /\ IsFiniteSet({})
  BY FS_EmptySet DEF EmptyState
<1> HIDE DEF s
<1>6. BranchConfirmed(s, EmptyState)
  <2>1. {<<GenesisBlock.height, i>> : i \in DOMAIN GenesisBlock.transactions} = {}
    BY <1>4
  <2>2. UNION { {<<x.height, i>> : i \in DOMAIN x.transactions} : x \in Range(s) } = {}
    BY <1>3, <2>1
  <2>3. UNION { Range(x.transactions) : x \in Range(s) } = {}
    BY <1>3, <1>4
  <2> QED
    BY <1>3, <1>4, <1>5, <2>2, <2>3 DEF BranchConfirmed
<1> QED
  BY <1>1, <1>6 DEF BranchesConfirmed, s

LEMMA NextBranchesConfirmed ==
  IInv /\ IInv' /\ StatesSound /\ BranchesConfirmed /\ [Next]_vars => BranchesConfirmed'
<1> SUFFICES ASSUME IInv, IInv', StatesSound, BranchesConfirmed, [Next]_vars
             PROVE  BranchesConfirmed'
  OBVIOUS
<1>1. CASE UNCHANGED chain
  BY <1>1 DEF BranchesConfirmed, known, entries, Known
<1>2. ASSUME NEW b \in Blocks, Accept(b) PROVE BranchesConfirmed'
  <2>1. /\ b.prev \in known /\ b.height = b.prev.height + 1
        /\ known' = known \cup {b} /\ \A k \in known : entries'[k] = entries[k]
    BY <1>2, AcceptEffects
  <2>2. /\ Branch(entries', b) = Append(Branch(entries, b.prev), b)
        /\ \A k \in known : Branch(entries', k) = Branch(entries, k)
    <3>1. AddOutcome(chain, b) = "accepted" /\ chain' = AddBlock(chain, b) /\ TreeSound(chain)
      BY <1>2, AcceptEffects DEF IInv
    <3> QED
      BY <3>1, BranchGrows DEF known, entries
  <2> DEFINE s == Branch(entries, b.prev)
             st == entries[b.prev].state
             after == entries'[b].state
             txs == b.transactions
  <2>3. s \in Seq(known) /\ \A x \in Range(s) : x.height # b.height
    <3>1. IsBranch(s, b.prev, known) /\ b.prev.height \in Nat
      BY <2>1, BranchIsBranch, BlockFacts DEF IInv, known, entries
    <3> HIDE DEF s
    <3>2. s \in Seq(known) /\ \A i \in 1..Len(s) : s[i].height = i - 1
      BY <3>1 DEF IsBranch
    <3>3. Len(s) = b.height /\ b.height \in Nat
      BY <2>1, <3>1 DEF IsBranch
    <3>4. \A i \in 1..Len(s) : s[i].height # b.height
      BY <3>2, <3>3
    <3> QED
      BY <3>2, <3>4 DEF Range
  <2>4. BranchConfirmed(s, st) /\ IsFiniteSet(st.confirmed)
    BY <2>1 DEF BranchesConfirmed, StatesSound, StateSound
  <2>5. /\ after.confirmed = st.confirmed \cup {txs[j] : j \in 1..Len(txs)}
        /\ Cardinality(after.confirmed) = Cardinality(st.confirmed) + Len(txs)
        /\ \A j \in 1..Len(txs) : b.height <= txs[j].validUntil
    BY <1>2, ExecutionEffects
  <2>6. txs \in Seq(Range(txs))
    BY ChainAssumption DEF ChainAssumption
  <2>7. BranchConfirmed(Append(s, b), after)
    <3> HIDE DEF s, st, after
    <3> QED
      BY <2>3, <2>4, <2>5, <2>6, ConfirmedExtends
  <2> HIDE DEF s, after
  <2> QED
    BY <2>1, <2>2, <2>7 DEF BranchesConfirmed, s, after
<1> QED
  BY <1>1, <1>2, NextCases

THEOREM BranchesConfirmedTheorem == Spec => []BranchesConfirmed
<1>1. Init => IInv /\ StatesSound /\ BranchesConfirmed
  BY InitIInv, InitStatesSound, InitBranchesConfirmed
<1>2. (IInv /\ StatesSound /\ BranchesConfirmed) /\ [Next]_vars
        => (IInv /\ StatesSound /\ BranchesConfirmed)'
  BY NextIInv, NextStatesSound, NextBranchesConfirmed
<1> QED
  BY <1>1, <1>2, PTL DEF Spec

(* On every branch a transaction is confirmed once and in time, and the nonces
   of a sender are 0, 1, 2, ... up to its account nonce. *)
THEOREM NoReplayTheorem == Spec => []NoReplay
<1>1. StatesSound /\ BranchesConfirmed => NoReplay
  <2> SUFFICES ASSUME StatesSound, BranchesConfirmed, NEW b \in known
               PROVE  LET st == entries[b].state IN
                      /\ st.confirmed = UNION { Range(x.transactions) : x \in Range(Branch(entries, b)) }
                      /\ Cardinality(Confirmations(b)) = Cardinality(st.confirmed)
                      /\ \A x \in Range(Branch(entries, b)) :
                           \A t \in Range(x.transactions) : x.height <= t.validUntil
                      /\ \A a \in Addresses :
                           LET sent == {t \in st.confirmed : t.sender = a} IN
                           /\ {t.nonce : t \in sent} = 0..(st.accounts[a].nonce - 1)
                           /\ Cardinality(sent) = st.accounts[a].nonce
    BY DEF NoReplay
  <2>1. BranchConfirmed(Branch(entries, b), entries[b].state)
    BY DEF BranchesConfirmed
  <2>2. NoncesExact(entries[b].state)
    BY DEF StatesSound, StateSound
  <2> QED
    BY <2>1, <2>2 DEF BranchConfirmed, Confirmations, NoncesExact, Sent
<1> QED
  BY <1>1, StatesSoundTheorem, BranchesConfirmedTheorem, PTL

-----------------------------------------------------------------------------
(* A verdict, and the entry of an accepted block, do not depend on what else
   the tree holds, on its active tip, or on what came first (add_block). *)
THEOREM VerdictIsLocalTheorem == Spec => []VerdictIsLocal
<1>1. IInv => VerdictIsLocal
  <2> SUFFICES ASSUME IInv, NEW b \in Blocks \ known, b.prev \in known
               PROVE  LET alone == BranchOnly(b.prev) IN
                      /\ AddOutcome(chain, b) = AddOutcome(alone, b)
                      /\ NewEntry(chain, b) = NewEntry(alone, b)
    BY DEF VerdictIsLocal
  <2> DEFINE p == b.prev
             s == Branch(chain.entries, p)
             alone == BranchOnly(p)
  <2>1. /\ alone.entries = [k \in Range(s) |-> chain.entries[k]]
        /\ TreeSound(chain) /\ p \in Known(chain) /\ b \notin Known(chain)
    BY DEF BranchOnly, IInv, known, entries
  <2>2. Range(s) \subseteq Known(chain) /\ p \in Range(s)
    BY <2>1, BranchParents
  <2> HIDE DEF alone
  <2>3. /\ p \in Known(alone) /\ b \notin Known(alone)
        /\ \A k \in Range(s) : alone.entries[k] = chain.entries[k]
    <3> HIDE DEF s
    <3> QED
      BY <2>1, <2>2 DEF Known
  <2>4. AddOutcome(chain, b) = AddOutcome(alone, b) /\ NewEntry(chain, b) = NewEntry(alone, b)
    BY <2>1, <2>3, VerdictOnBranch
  <2> QED
    BY <2>4 DEF alone
<1> QED
  BY <1>1, Invariance, PTL

(* The ChainUpdate that announces a switch lists exactly the blocks of the old
   branch above the common ancestor, tip first, and exactly those of the new
   one, oldest first (_reorganization_paths): the mempool that replays it
   returns and confirms neither too much nor too little. *)
THEOREM SwitchIsExactTheorem == Spec => SwitchIsExact
<1>1. IInv /\ [Next]_vars =>
        [chain'.tip # chain.tip =>
           /\ update'.becameActive
           /\ ReportsSwitch(Branch(entries, chain.tip), Branch(entries', chain'.tip), update')]_vars
  <2> SUFFICES ASSUME IInv, [Next]_vars, chain'.tip # chain.tip
               PROVE  /\ update'.becameActive
                      /\ ReportsSwitch(Branch(entries, chain.tip),
                                       Branch(entries', chain'.tip), update')
    OBVIOUS
  <2>1. PICK b \in Blocks : Accept(b)
    BY NextCases
  <2>2. /\ AddOutcome(chain, b) = "accepted" /\ chain' = AddBlock(chain, b)
        /\ chain'.tip = b /\ update' = UpdateFor(chain, b) /\ TreeSound(chain)
    BY <2>1, AcceptEffects DEF Accept, IInv
  <2>3. /\ UpdateFor(chain, b).becameActive
        /\ Reports(UpdateFor(chain, b), Branch(chain.entries, chain.tip),
                   Branch(AddBlock(chain, b).entries, b))
    BY <2>2, UpdateIsExact
  <2>4. /\ update'.becameActive
        /\ Reports(update', Branch(entries, chain.tip), Branch(entries', chain'.tip))
    BY <2>2, <2>3 DEF entries
  <2> QED
    BY <2>4, Zenon DEF Reports, ReportsSwitch
<1> QED
  BY <1>1, Invariance, PTL DEF Spec, SwitchIsExact
=============================================================================
