------------------------------ MODULE Samples ------------------------------
(***************************************************************************)
(* Blocks and transactions for the model-checking modules.  A block is     *)
(* made as a miner makes it, by the tree's own BuildCandidate; a candidate *)
(* is taken even when the rules refuse it, which yields blocks that break  *)
(* exactly one rule and are consistent otherwise.                          *)
(***************************************************************************)
EXTENDS BlockTree

RECURSIVE TreeOf(_)
(* The tree that holds b and its ancestors. *)
TreeOf(b) == IF b = GenesisBlock THEN EmptyChain ELSE AddBlock(TreeOf(b.prev), b)

(* A child of parent, mined delta seconds after it. *)
Child(parent, miner, txs, delta) ==
  BuildCandidate(TreeOf(parent), parent, miner, txs, parent.timestamp + delta).block

Tx(id, sender, recipient, amount, fee, nonce, validUntil) ==
  [id |-> id, sender |-> sender, recipient |-> recipient, amount |-> amount,
   fee |-> fee, nonce |-> nonce, validUntil |-> validUntil, authentic |-> TRUE]
=============================================================================
