------------------------------- MODULE MCNode -------------------------------
(***************************************************************************)
(* A node that receives two rival branches, is asked to relay six         *)
(* transactions, and mines for both addresses up to height 3.  The slow branch  *)
(* S confirms payments and is then overtaken by a shorter, heavier branch  *)
(* F that confirms a conflicting one, or none.                             *)
(***************************************************************************)
EXTENDS Node, Samples

MCAddresses == {1, 2}

Pay     == Tx(1, 1, 2, 2, 1, 0, 9)     \* 1 pays 2
SelfPay == Tx(2, 1, 1, 3, 1, 0, 9)     \* in conflict with Pay
PayMore == Tx(3, 1, 2, 1, 0, 1, 9)     \* the next payment of 1
PayBack == Tx(4, 2, 1, 1, 1, 0, 3)     \* 2 pays 1; expires above height 3
PayOn   == Tx(6, 2, 1, 1, 0, 1, 9)     \* the next payment of 2
Empty   == Tx(5, 1, 2, 4, 0, 1, 9)     \* needs all that Pay may have left

S1 == Child(GenesisBlock, 1, <<>>, 40)
S2 == Child(S1, 2, <<Pay>>, 4)
S3 == Child(S2, 1, <<PayMore, PayBack>>, 4)
F1 == Child(GenesisBlock, 1, <<>>, 1)
F2 == Child(F1, 1, <<SelfPay>>, 4)
G2 == Child(F1, 2, <<>>, 4)

MCTxs == {Pay, SelfPay, PayMore, PayBack, PayOn, Empty}
MCBlocks == {S1, S2, S3, F1, F2, G2, [F2 EXCEPT !.sealed = FALSE]}
MCMiners == {1, 2}
MCBlockLimits == {1, 3}
MCMineDelays == {0, 4}
=============================================================================
