------------------------------ MODULE MCStorage -----------------------------
(***************************************************************************)
(* Two branches on which all the order effects of a database show: L2 and  *)
(* R2 tie, so that the first one stored stays active, and R3 overtakes L2. *)
(* The payment in L2 makes the account tables of the branches differ.      *)
(***************************************************************************)
EXTENDS Storage, Samples

MCAddresses == {1, 2}
Pay == Tx(1, 1, 2, 2, 1, 0, 9)

L1 == Child(GenesisBlock, 1, <<>>, 4)
L2 == Child(L1, 2, <<Pay>>, 4)
R1 == Child(GenesisBlock, 2, <<>>, 4)
R2 == Child(R1, 2, <<>>, 4)
R3 == Child(R2, 1, <<>>, 4)

MCBlocks == {L1, L2, R1, R2, R3}
MCFewBlocks == {L1, L2, R1, R2}
=============================================================================
