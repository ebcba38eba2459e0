------------------------------ MODULE MCChain ------------------------------
(***************************************************************************)
(* A tree of thirteen valid blocks and thirteen blocks that break one rule *)
(* each.  Blocks are 8 seconds apart when the network keeps its pace; the  *)
(* difficulty is retargeted at heights 2 and 4; a block mined 1 second     *)
(* after its parent makes its branch harder, and heavier, than one mined   *)
(* 40 seconds after it.  Addresses 1 and 2 each mine.                      *)
(***************************************************************************)
EXTENDS Chain, Samples

MCAddresses == {1, 2}

Pay      == Tx(1, 1, 2, 2, 1, 0, 9)     \* 1 pays 2
SelfPay  == Tx(2, 1, 1, 3, 1, 0, 9)     \* 1 pays itself, in conflict with Pay
PayMore  == Tx(3, 1, 2, 1, 0, 1, 9)     \* the next payment of 1
PayBack  == Tx(4, 2, 1, 1, 1, 0, 9)     \* 2 pays 1 with money it received
Overdraw == Tx(5, 1, 2, 5, 1, 0, 9)     \* covers the amount, not the fee
Expired  == Tx(6, 1, 2, 1, 0, 0, 1)     \* may not execute above height 1
Unsigned == [Pay EXCEPT !.authentic = FALSE]

(* A fast branch: hard, hence heavy. *)
A1 == Child(GenesisBlock, 1, <<>>, 1)
A2 == Child(A1, 1, <<Pay>>, 8)
A3 == Child(A2, 2, <<PayMore, PayBack>>, 8)
A4 == Child(A3, 1, <<>>, 40)
(* A rival of the same weight as A2. *)
R2 == Child(A1, 2, <<Pay, PayMore>>, 8)
R3 == Child(R2, 1, <<PayBack>>, 8)
(* A slow branch: long, but light; it mints the whole supply. *)
B1 == Child(GenesisBlock, 1, <<>>, 40)
B2 == Child(B1, 2, <<SelfPay>>, 1)
B3 == Child(B2, 1, <<PayMore>>, 1)
B4 == Child(B3, 1, <<>>, 8)
(* A branch at the expected pace. *)
C1 == Child(GenesisBlock, 2, <<>>, 8)
C2 == Child(C1, 1, <<>>, 8)
C3 == Child(C2, 2, <<SelfPay>>, 1)

Valid == {A1, A2, A3, A4, R2, R3, B1, B2, B3, B4, C1, C2, C3}

Invalid ==
  { Child(A1, 1, <<PayMore>>, 4),                   \* skips a nonce
    Child(A2, 1, <<Pay>>, 8),                       \* confirms Pay again
    Child(A1, 2, <<Overdraw>>, 8),
    Child(A1, 1, <<Expired>>, 8),
    Child(A1, 1, <<Unsigned>>, 8),
    Child(A1, 1, <<>>, 0),                          \* same time as its parent
    [A2 EXCEPT !.sealed = FALSE],
    [A2 EXCEPT !.target = A1.target],               \* the target before the retarget
    [A2 EXCEPT !.reward.amount = @ + 1],
    [A2 EXCEPT !.reward.miner = 2],
    [A2 EXCEPT !.stateRoot = A1.stateRoot],
    [A1 EXCEPT !.height = 2],
    [A1 EXCEPT !.prev = NoBlock] }

MCBlocks == Valid \cup Invalid \cup {GenesisBlock}
=============================================================================
