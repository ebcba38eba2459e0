--------------------------- MODULE MCChainShutdown ------------------------
(***************************************************************************)
(* Two components that share no state, checked by one run: the block tree  *)
(* and the end of a node, this one in two settings.  `unit` is what runs   *)
(* in a behaviour; the other component rests in its initial state.         *)
(***************************************************************************)
EXTENDS MCChain, MCShutdown

VARIABLE unit

MCInit == unit \in {"chain", "pair", "line"} /\ Init /\ ShutdownInit

MCNext ==
  /\ UNCHANGED unit
  /\ \/ unit = "chain" /\ Next /\ UNCHANGED shutdownVars
     \/ unit = "pair" /\ PairStep /\ UNCHANGED vars
     \/ unit = "line" /\ LineStep /\ UNCHANGED vars

MCSpec ==
  MCInit /\ [][MCNext]_<<unit, vars, shutdownVars>>
         /\ WF_shutdownVars(unit # "chain" /\ Proceed)
=============================================================================
