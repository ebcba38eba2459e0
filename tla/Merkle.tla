------------------------------- MODULE Merkle -------------------------------
(***************************************************************************)
(* merkle_root: the root of a list of hashes, one level after the other.   *)
(*                                                                         *)
(* Hashes are injective: the hash of two nodes is the pair of them, and    *)
(* the domain separators keep it apart from a leaf and from the root of    *)
(* no leaves.                                                              *)
(***************************************************************************)
EXTENDS Integers, Sequences, SequencesExt

CONSTANTS
  Leaf,          \* the hashes that may be leaves: txids, account hashes
  NoLeaves,      \* sha256(EMPTY_MERKLE_DOMAIN)
  MaxLeaves      \* bound: the length of a list

ASSUME MerkleAssumption == NoLeaves \notin Leaf /\ MaxLeaves \in Nat

VARIABLES
  leaves,    \* the argument
  level      \* the nodes of the level the loop is at

merkleVars == <<leaves, level>>

Lists == UNION {[1 .. n -> Leaf] : n \in 0 .. MaxLeaves}

MerkleInit ==
  /\ leaves \in Lists
  /\ level = IF leaves = <<>> THEN <<NoLeaves>> ELSE leaves

Node(left, right) == <<left, right>>

(* An odd last node is taken twice; a level that loses it. *)
DropOdd(nodes) == IF Len(nodes) % 2 = 1 THEN Front(nodes) ELSE nodes

Even(nodes) == IF Len(nodes) % 2 = 1 THEN Append(nodes, Last(nodes)) ELSE nodes

Pairs(nodes) == [i \in 1 .. Len(nodes) \div 2 |-> Node(nodes[2 * i - 1], nodes[2 * i])]

Step ==
  /\ Len(level) > 1
  /\ level' = Pairs(Even(level))
  /\ UNCHANGED leaves

MerkleNext == Step

MerkleSpec == MerkleInit /\ [][MerkleNext]_merkleVars

-----------------------------------------------------------------------------
(* The complete binary tree over a list, from the root down.  Over the leaves from
   the i-th one, a tree of height h has a left half of the next smaller height, and
   a right one that begins where the left one ends; where the list ends before that,
   the left half is taken twice.  No tree is higher than the list is long. *)
Heights == 0 .. MaxLeaves

Width[h \in Heights] == IF h = 0 THEN 1 ELSE 2 * Width[h - 1]

Doubled(list, half, width) ==
  [i \in 1 .. Len(list) |->
     Node(half[i], half[IF i + width > Len(list) THEN i ELSE i + width])]

Trees(list) ==
  LET over[h \in Heights] ==
        IF h = 0 THEN list ELSE Doubled(list, over[h - 1], Width[h - 1])
  IN  over

Height(n) == CHOOSE h \in Heights : Width[h] >= n /\ (h = 0 \/ Width[h - 1] < n)

Root(list) == IF list = <<>> THEN NoLeaves ELSE Trees(list)[Height(Len(list))][1]

Repeats(list) == \E i, j \in DOMAIN list : i # j /\ list[i] = list[j]

Done == Len(level) = 1

(* A list of hashes and a level of nodes that is not longer. *)
MerkleTypeOK ==
  /\ leaves \in Lists
  /\ Len(level) \in 1 .. (IF leaves = <<>> THEN 1 ELSE Len(leaves))

(* Lists without repetition that have the same root are equal.  A block's header
   holds the root of its transaction ids (transactions_root), and no block with a
   transaction twice is executed: a block that is accepted under a hash is the
   only one that could be.  Lists with repetition do share roots, as the odd node
   is taken twice. *)
RootFixesList ==
  Done /\ ~Repeats(leaves) =>
    \A other \in Lists : ~Repeats(other) /\ Root(other) = level[1] => other = leaves
=============================================================================
