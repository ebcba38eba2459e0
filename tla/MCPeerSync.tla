----------------------------- MODULE MCPeerSync ----------------------------
(***************************************************************************)
(* Small networks for PeerSync.  Blocks are numbers, 0 is genesis, and     *)
(* every block adds one unit of work, so its work is its height plus one.  *)
(***************************************************************************)
EXTENDS PeerSync

CONSTANTS alice, bob, carol

(* Two branches from genesis: 1-2-3 and 11-12-13-14-15. *)
MCBlocks == {1, 2, 3, 11, 12, 13, 14, 15}
MCParent == [x \in MCBlocks |-> IF x \in {1, 11} THEN 0 ELSE x - 1]
MCWork   == [x \in MCBlocks \cup {0} |-> 1 + (x % 10)]

(* What each of the three has or does. *)
Each(ofAlice, ofBob, ofCarol) ==
  [n \in Nodes |-> IF n = alice THEN ofAlice ELSE IF n = bob THEN ofBob ELSE ofCarol]

(* alice is more than a batch behind bob, on his branch or on a fork that one
   batch outweighs even when she mines; the connection may be lost once. *)
Behind(loaded, next) ==
  [loads    |-> Each(loaded, {11, 12, 13, 14}, {}),
   mines    |-> Each(next, {15}, {}),
   contacts |-> {<<alice, bob>>}, maxDials |-> 2, maxDrops |-> 1]

(* The ends of a line share nothing but genesis with the middle, which may
   have to fetch what one end relays. *)
Line ==
  [loads    |-> Each({1}, {}, {}),
   mines    |-> Each({2}, {}, {11}),
   contacts |-> {<<alice, bob>>, <<bob, carol>>}, maxDials |-> 2, maxDrops |-> 0]

(* Three nodes in a ring start level, and one of them mines. *)
Ring ==
  [loads    |-> Each({}, {}, {}),
   mines    |-> Each({1}, {}, {}),
   contacts |-> {<<alice, bob>>, <<bob, carol>>, <<alice, carol>>},
   maxDials |-> 3, maxDrops |-> 0]

(* One batch of bob's longer branch only draws level with alice's. *)
DeepFork ==
  [loads    |-> Each({1, 2, 3}, {11, 12, 13, 14}, {}),
   mines    |-> Each({}, {15}, {}),
   contacts |-> {<<alice, bob>>}, maxDials |-> 1, maxDrops |-> 0]

AllNetworks == {Behind({}, {1}), Behind({1}, {2}), Line, Ring, DeepFork}
DeepForkOnly == {DeepFork}
=============================================================================
