------------------------------- MODULE Chain -------------------------------
(***************************************************************************)
(* The state machine of chain.py's Chain: a block tree to which blocks are *)
(* submitted in any order, any number of times, valid or not.              *)
(***************************************************************************)
EXTENDS BlockTree, Functions, SequencesExt

CONSTANT Blocks         \* the blocks that may be submitted

(* A transaction that is authentic names two addresses (validate_transaction
   decodes both), and so does a sealed header its miner; its time is 64 bits. *)
ASSUME ChainAssumption ==
  \A b \in Blocks :
    /\ b.transactions \in Seq(Range(b.transactions))
    /\ b.sealed => b.miner \in Addresses /\ b.timestamp \in 0..U64Max
    /\ \A t \in Range(b.transactions) :
         t.authentic => t.sender \in Addresses /\ t.recipient \in Addresses

VARIABLES
  chain,                \* _entries and _active_tip_hash
  update                \* what the last add_block returned: a ChainUpdate,
                        \*   or [error |-> the reason why it raised]

vars == <<chain, update>>

Init ==
  /\ chain = EmptyChain
  /\ update = [error |-> "none"]

(* add_block raises and leaves the tree as it was. *)
Reject(b) ==
  /\ AddOutcome(chain, b) # "accepted"
  /\ update' = [error |-> AddOutcome(chain, b)]
  /\ UNCHANGED chain

(* add_block inserts b, and switches to it when it is strictly heavier. *)
Accept(b) ==
  /\ AddOutcome(chain, b) = "accepted"
  /\ chain' = AddBlock(chain, b)
  /\ update' = UpdateFor(chain, b)

Next == \E b \in Blocks : Reject(b) \/ Accept(b)

Spec == Init /\ [][Next]_vars

-----------------------------------------------------------------------------
(* Shorthands for the properties. *)
known == Known(chain)
entries == chain.entries
Children == known \ {GenesisBlock}

(* Each entry of the tree is well formed ... *)
RecordsTyped ==
  /\ chain = [entries |-> chain.entries, tip |-> chain.tip]
  /\ GenesisBlock \in known
  /\ known \subseteq Blocks \cup {GenesisBlock}
  /\ chain.tip \in known
  /\ \A b \in known : /\ entries[b].height = b.height
                      /\ entries[b].height \in 0..U64Max
                      /\ entries[b].work \in Nat \ {0}

(* ... and so is the account state it carries. *)
StatesTyped ==
  \A b \in known : /\ entries[b].supply \in 0..MaxSupply
                   /\ entries[b].state.accounts \in [Addresses -> Account]

(* Type invariant: the tip and the genesis block are always in the tree, which
   holds only submitted blocks, with heights, work, supply and accounts within
   the widths of the wire format (BlockRecord, StateSnapshot, Account). *)
TypeOK == RecordsTyped /\ StatesTyped

(* The target changes only where a difficulty window ends, and there it grows or
   shrinks by the maximal factor at most (down to rounding), whatever times the
   miners of the window wrote. *)
RetargetIsBounded(b) ==
  /\ b.height % DifficultyInterval # 0 => b.target = b.prev.target
  /\ b.target <= b.prev.target * MaxAdjustmentFactor
  /\ b.prev.target < (b.target + 1) * MaxAdjustmentFactor

(* Every known block extends a known block by one height, at a later time, its
   entry adds its own work to its parent's, and extreme timestamps make no branch
   suddenly cheap or heavy: no insertion order can leave a hole in a branch
   (add_block's parent lookup and header checks, expected_target_for_child). *)
BranchSound ==
  /\ entries[GenesisBlock].parent = NoBlock
  /\ \A b \in Children :
       /\ b.prev \in known
       /\ entries[b].parent = b.prev
       /\ b.height = b.prev.height + 1
       /\ b.timestamp > b.prev.timestamp
       /\ entries[b].work = entries[b.prev].work + WorkForTarget(b.target)
       /\ RetargetIsBounded(b)

(* A block's verdict and its resulting entry depend on its own branch only:
   the tree cut down to the branch of its parent decides the same.  What else
   is known, which branch is active and what arrived first have no influence
   (parent_state is rebuilt from the parent's snapshot, the difficulty window
   is read along the parent's branch).  The genesis block alone is a branch. *)
BranchOnly(b) ==
  [entries |-> [k \in Range(Branch(entries, b)) |-> entries[k]], tip |-> b]
VerdictIsLocal ==
  Children # {} =>
    \A b \in Blocks \ known :
      b.prev \in known =>
        LET alone == BranchOnly(b.prev) IN
        /\ AddOutcome(chain, b) = AddOutcome(alone, b)
        /\ AddOutcome(alone, b) = "accepted" => NewEntry(chain, b) = NewEntry(alone, b)

(* On every branch the coins in the accounts are exactly the coins minted, and
   never more than the maximum supply: fees only move, transfers to oneself
   and conflicting histories create and destroy nothing (RunBody). *)
Balances(st) == MapThenSumSet(LAMBDA a : st.accounts[a].balance, Addresses)
Conservation ==
  \A b \in known : /\ Balances(entries[b].state) = entries[b].supply
                   /\ entries[b].supply <= MaxSupply

(* On every branch a transaction is confirmed once, within its lifetime, and a
   sender's confirmed transactions carry the nonces 0, 1, 2, ... up to its
   account nonce: no payment is replayed, skipped or double spent
   (AccountState.validate). *)
Confirmations(b) ==
  UNION { {<<x.height, i>> : i \in DOMAIN x.transactions} : x \in Range(Branch(entries, b)) }
NoReplay ==
  \A b \in known :
    LET st == entries[b].state IN
    /\ st.confirmed = UNION { Range(x.transactions) : x \in Range(Branch(entries, b)) }
    /\ Cardinality(Confirmations(b)) = Cardinality(st.confirmed)
    /\ \A x \in Range(Branch(entries, b)) :
         \A t \in Range(x.transactions) : x.height <= t.validUntil
    /\ \A a \in Addresses :
         LET sent == {t \in st.confirmed : t.sender = a} IN
         /\ {t.nonce : t \in sent} = 0..(st.accounts[a].nonce - 1)
         /\ Cardinality(sent) = st.accounts[a].nonce

(* The active tip moves only to a strictly heavier branch: of two branches of
   equal work the one that was active first stays (became_active). *)
FirstSeenWins ==
  [][chain'.tip # chain.tip => TipEntry(chain').work > TipEntry(chain).work]_vars

(* A reported switch is the whole difference between the two active chains:
   both share a longest prefix that ends in the common ancestor, the rest of
   the old one is disconnected tip first, and the rest of the new one is
   connected oldest first (_reorganization_paths, ChainUpdate). *)
ReportsSwitch(old, new, u) ==
  \E n \in 1..Len(old) :
    /\ n <= Len(new)
    /\ SubSeq(old, 1, n) = SubSeq(new, 1, n)
    /\ n < Len(old) /\ n < Len(new) => old[n + 1] # new[n + 1]
    /\ u.ancestor = old[n]
    /\ u.reorganized = (n < Len(old))
    /\ u.connected = SubSeq(new, n + 1, Len(new))
    /\ u.disconnected = Reverse(SubSeq(old, n + 1, Len(old)))
SwitchIsExact ==
  [][chain'.tip # chain.tip =>
       /\ update'.becameActive
       /\ ReportsSwitch(Branch(entries, chain.tip), Branch(entries', chain'.tip), update')]_vars

(* The tree implements the abstract fork choice. *)
FC == INSTANCE ForkChoice WITH
        Root   <- GenesisBlock,
        known  <- known,
        weight <- [b \in known |-> entries[b].work],
        tip    <- chain.tip
ImplementsForkChoice == FC!Spec
=============================================================================
