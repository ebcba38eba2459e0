----------------------------- MODULE BlockTree -----------------------------
(***************************************************************************)
(* The validated block tree of chain.py as a value and the operations on   *)
(* it.  A chain value is                                                   *)
(*     [entries |-> known block -> entry, tip |-> active tip]              *)
(* where an entry keeps the fields of BlockRecord and of StateSnapshot     *)
(* (the dictionary's key is the block itself, see Ledger).                 *)
(*                                                                         *)
(* The in-memory node, its persistent variant and the storage reindexing   *)
(* all go through AddBlock; their modules instantiate this one.            *)
(***************************************************************************)
EXTENDS Ledger

CONSTANTS
  DifficultyInterval,   \* DIFFICULTY_ADJUSTMENT_INTERVAL
  TargetBlockSeconds,   \* TARGET_BLOCK_SECONDS
  MaxAdjustmentFactor   \* DIFFICULTY_MAX_ADJUSTMENT_FACTOR

ASSUME BlockTreeAssumption ==
  /\ DifficultyInterval \in Nat \ {0, 1}
  /\ TargetBlockSeconds \in Nat \ {0}
  /\ MaxAdjustmentFactor \in Nat \ {0}

(* EXPECTED_ADJUSTMENT_TIMESPAN: the seconds between the first and the last
   block of an interval. *)
ExpectedTimespan == (DifficultyInterval - 1) * TargetBlockSeconds

(* The lower limit of the retarget is a whole number of seconds. *)
ASSUME RetargetAssumption == ExpectedTimespan % MaxAdjustmentFactor = 0

(* work_for_target: MaxTarget + 1 is 2^256 in the code. *)
WorkForTarget(target) == (MaxTarget + 1) \div (target + 1)

Between(low, x, high) == IF x < low THEN low ELSE IF x > high THEN high ELSE x

Known(chain) == DOMAIN chain.entries
TipEntry(chain) == chain.entries[chain.tip]

(* Chain.__init__: the genesis block executed on an empty state. *)
EmptyChain ==
  [entries |-> [b \in {GenesisBlock} |->
                  [parent |-> NoBlock, height |-> 0,
                   work |-> WorkForTarget(InitialTarget),
                   supply |-> 0, state |-> EmptyState]],
   tip |-> GenesisBlock]

(***************************************************************************)
(* Difficulty.                                                             *)
(***************************************************************************)
(* _ancestor_at_height: up[i] is the i-th ancestor of b. *)
AncestorAtHeight(entries, b, height) ==
  LET up[i \in 0..entries[b].height] ==
        IF i = 0 THEN b ELSE entries[up[i - 1]].parent
  IN  up[entries[b].height - height]

(* The clamp of the window's length, and none. *)
UnboundedTimespan(actual) == actual
BoundedTimespan(actual) ==
  Between(ExpectedTimespan \div MaxAdjustmentFactor, actual,
          ExpectedTimespan * MaxAdjustmentFactor)

(* expected_target_for_child *)
ExpectedTargetForChild(entries, parent) ==
  LET next   == entries[parent].height + 1
      start  == AncestorAtHeight(entries, parent, next - DifficultyInterval)
      actual == parent.timestamp - start.timestamp
  IN  IF next % DifficultyInterval # 0
        THEN parent.target
        ELSE Between(1, (parent.target * BoundedTimespan(actual)) \div ExpectedTimespan,
                     MaxTarget)

(* build_candidate: the block this tree would offer for mining on parent. *)
BuildCandidate(chain, parent, miner, txs, timestamp) ==
  LET entry == chain.entries[parent]
  IN  BuildBlockCandidate(parent, entry.state, entry.supply, miner, txs, timestamp,
                          ExpectedTargetForChild(chain.entries, parent))

(***************************************************************************)
(* _reorganization_paths.  A walk is a pair of cursors with the blocks     *)
(* each has left behind: the old cursor walks down from the old tip, the   *)
(* new one from the new tip, the higher one first, until they meet.        *)
(* (The unreversed step collects the connected blocks tip first.)          *)
(***************************************************************************)
OldStep(entries, w) ==
  [w EXCEPT !.old = entries[w.old].parent, !.disconnected = Append(@, w.old)]
NewStepUnreversed(entries, w) ==
  [w EXCEPT !.new = entries[w.new].parent, !.connected = Append(@, w.new)]
NewStep(entries, w) ==
  [w EXCEPT !.new = entries[w.new].parent, !.connected = <<w.new>> \o @]

WalkStep(entries, w) ==
  CASE w.old = w.new -> w
    [] entries[w.old].height > entries[w.new].height -> OldStep(entries, w)
    [] entries[w.new].height > entries[w.old].height -> NewStep(entries, w)
    [] OTHER -> NewStep(entries, OldStep(entries, w))

ReorganizationPaths(entries, oldTip, newTip) ==
  LET steps == entries[oldTip].height + entries[newTip].height
      walk[i \in 0..steps] ==
        IF i = 0 THEN [old |-> oldTip, new |-> newTip,
                       disconnected |-> <<>>, connected |-> <<>>]
                 ELSE WalkStep(entries, walk[i - 1])
  IN  walk[steps]

(***************************************************************************)
(* add_block.                                                              *)
(***************************************************************************)
BecomesActive(work, tipWork) == work > tipWork

(* The work of a new entry; a sum that starts afresh at every block. *)
WorkOfBlockAlone(parentWork, b) == WorkForTarget(b.target)
CumulativeWork(parentWork, b) == parentWork + WorkForTarget(b.target)

(* The entry b executes on, and the one a tree with a single shared state
   would use. *)
ActiveEntry(chain, b) == chain.entries[chain.tip]
ParentEntry(chain, b) == chain.entries[b.prev]

Execution(chain, b) ==
  ValidateAndExecuteBlock(b, b.prev, ParentEntry(chain, b).state,
                          ParentEntry(chain, b).supply,
                          ExpectedTargetForChild(chain.entries, b.prev))

(* Why add_block raises, or "accepted": its checks in the code's order. *)
AddOutcome(chain, b) ==
  IF b \in Known(chain) THEN "already known"
  ELSE IF b.prev \notin Known(chain) THEN "parent unknown"
  ELSE IF \/ chain.entries[b.prev].height = U64Max
          \/ ~Execution(chain, b).ok THEN "invalid"
  ELSE "accepted"

EntryFor(chain, b, run) ==
  [parent |-> b.prev, height |-> b.height,
   work   |-> CumulativeWork(chain.entries[b.prev].work, b),
   supply |-> run.supply, state |-> run.state]

NewEntry(chain, b) == EntryFor(chain, b, Execution(chain, b))

(* The tree with b and its entry. *)
InsertEntry(chain, b, entry) ==
  [entries |-> [k \in Known(chain) \cup {b} |->
                  IF k = b THEN entry ELSE chain.entries[k]],
   tip     |-> IF BecomesActive(entry.work, TipEntry(chain).work)
                 THEN b ELSE chain.tip]

(* The tree after b is accepted. *)
AddBlock(chain, b) == InsertEntry(chain, b, NewEntry(chain, b))

(* The ChainUpdate that add_block returns when b made the tree after. *)
SideBranchUpdate(chain, b) ==
  [added |-> b, activeTip |-> chain.tip, becameActive |-> FALSE,
   reorganized |-> FALSE, ancestor |-> NoBlock,
   disconnected |-> <<>>, connected |-> <<>>]

SwitchUpdate(b, paths) ==
  [added |-> b, activeTip |-> b, becameActive |-> TRUE,
   reorganized |-> paths.disconnected # <<>>,
   ancestor |-> paths.old,
   disconnected |-> paths.disconnected, connected |-> paths.connected]

UpdateBetween(chain, after, b) ==
  IF after.tip = b
    THEN SwitchUpdate(b, ReorganizationPaths(after.entries, chain.tip, b))
    ELSE SideBranchUpdate(chain, b)

UpdateFor(chain, b) == UpdateBetween(chain, AddBlock(chain, b), b)

(* active_chain for any head: the blocks from genesis to b. *)
Branch(entries, b) ==
  LET down[i \in 0..entries[b].height] ==
        IF i = 0 THEN <<b>> ELSE <<entries[Head(down[i - 1])].parent>> \o down[i - 1]
  IN  down[entries[b].height]
=============================================================================
