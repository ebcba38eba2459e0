----------------------------- MODULE ForkChoice ----------------------------
(***************************************************************************)
(* What a block tree promises its users, whatever blocks it is offered: it *)
(* only ever learns blocks that build on a block it knows, it never        *)
(* forgets or re-weighs one, and its tip is a heaviest known block and     *)
(* moves only to the block just learned, and only when that block is       *)
(* strictly heavier.                                                       *)
(*                                                                         *)
(* The in-memory tree (Chain), the node (Node) and the database file       *)
(* (Storage) are each shown to implement it.                               *)
(***************************************************************************)
EXTENDS Integers

CONSTANT Root           \* the genesis block

VARIABLES
  known,                \* the blocks in the tree
  weight,               \* their cumulative work
  tip                   \* the head of the active branch

vars == <<known, weight, tip>>

Init ==
  /\ known = {Root}
  /\ weight \in [{Root} -> Nat \ {0}]
  /\ tip = Root

(* The tree gains one block b on a block it knows. *)
Learn ==
  \E b \in known' \ known :
    /\ known' = known \cup {b}
    /\ b.prev \in known
    /\ weight' \in [known' -> Nat]
    /\ \A k \in known : weight'[k] = weight[k]
    /\ weight'[b] > weight[b.prev]
    /\ tip' = IF weight'[b] > weight[tip] THEN b ELSE tip

Spec == Init /\ [][Learn]_vars
=============================================================================
