------------------------------ MODULE MCTxRelay ----------------------------
(* The instance of TxRelay for TLC: alice mines, on three networks. *)
EXTENDS TxRelay, Samples

CONSTANTS alice, bob, carol

MCAddresses == {1, 2}

Pay     == Tx(1, 1, 2, 1, 1, 0, 9)   \* 1 pays 2
PayMore == Tx(2, 1, 2, 1, 0, 1, 9)   \* the next payment of 1
PayBack == Tx(3, 2, 1, 1, 1, 0, 9)   \* 2 pays 1

MCTxs == {Pay, PayMore, PayBack}

\* alice mines for both addresses; each wallet is used on one node.
AliceMines == [n \in Nodes |-> IF n = alice THEN {1, 2} ELSE {}]
TwoWallets == [n \in Nodes |-> IF n = alice THEN {1} ELSE IF n = bob THEN {2} ELSE {}]

BothWays(pairs) == pairs \cup {<<p[2], p[1]>> : p \in pairs}

\* Every two nodes connected; a line; two nodes, one of which joins alice late.
Triangle ==
  [linked |-> BothWays({<<alice, bob>>, <<bob, carol>>, <<carol, alice>>}),
   mayJoin |-> {}, txs |-> {Pay, PayBack}, maxHeight |-> 2]
Line ==
  [linked |-> BothWays({<<alice, bob>>, <<bob, carol>>}),
   mayJoin |-> {}, txs |-> {Pay, PayBack}, maxHeight |-> 2]
Late ==
  [linked |-> BothWays({<<bob, carol>>}),
   mayJoin |-> {<<bob, alice>>}, txs |-> MCTxs, maxHeight |-> 3]

MCNetworks == {Triangle, Line, Late}
=============================================================================
