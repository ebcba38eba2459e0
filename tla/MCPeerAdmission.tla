--------------------------- MODULE MCPeerAdmission -------------------------
(* The instance of PeerAdmission for TLC: alice and bob dial each other, and
   carol, of another chain, dials bob; all share one loopback address. *)
EXTENDS PeerAdmission, TLC

CONSTANTS alice, bob, carol, l1, l2, l3, loopback

CrossDialer   == l1 :> alice @@ l2 :> bob @@ l3 :> carol
CrossAcceptor == l1 :> bob @@ l2 :> alice @@ l3 :> bob
OneHost       == [l \in Links |-> loopback]

CarolApart == [n \in Nodes |-> IF n = carol THEN "devnet" ELSE "testnet"]
OneVersion == [n \in Nodes |-> 1]

(* While the stranger's dial lives at most one thing goes wrong, and at most two
   when its end of the link is closed; where it never dials, a third may. *)
CarolCostsTroubles ==
  \/ task'[<<l3, "out">>] = "none"
  \/ task'[<<l3, "out">>] = "done" /\ troubles' < MaxTroubles
  \/ troubles' < MaxTroubles - 1

MCSpec == Init /\ [][Next /\ CarolCostsTroubles]_vars /\ WF_vars(Proceed)
=============================================================================
