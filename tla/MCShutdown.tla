----------------------------- MODULE MCShutdown ----------------------------
(***************************************************************************)
(* Instances of Shutdown for TLC: the two nodes of the README, and three   *)
(* nodes in a line, bob dialling alice and alice dialling carol, so that   *)
(* alice relays between a connection it accepted and one it dialled.       *)
(***************************************************************************)
EXTENDS Shutdown, TLC

CONSTANTS alice, bob, carol, l1, l2

ReadmeDialer    == l1 :> bob
ReadmeAcceptor  == l1 :> alice
ReadmeEndpoints == alice :> <<>> @@ bob :> <<l1>>

LineDialer    == l1 :> bob @@ l2 :> alice
LineAcceptor  == l1 :> alice @@ l2 :> carol
LineEndpoints == alice :> <<l2>> @@ bob :> <<l1>> @@ carol :> <<>>

-----------------------------------------------------------------------------
(* Steps of the line in two settings.  In the first bob hangs from the start,
   which leaves alice and carol, the dialler and the acceptor of one link. *)
PairStep == ShutdownNext /\ bob \in frozen'

(* In the second the nodes come up undisturbed; then bob may hang, all may be
   stopped and alice handles frames, two of these at most besides alice's own
   stop. *)
AllServed == \A n \in Nodes : main[n] \notin {"starting", "connecting"}

Disturbed(n) == n \in frozen \/ Stopping(n)

Disturbances == frames + (IF Disturbed(bob) THEN 1 ELSE 0) + (IF Disturbed(carol) THEN 1 ELSE 0)

LineStep ==
  /\ ShutdownNext
  /\ ~AllServed => frozen' = {} /\ frames' = 0 /\ \A n \in Nodes : ~Stopping(n)'
  /\ frozen' \subseteq {bob} /\ Disturbances' <= 2
  /\ \A e \in Ends : task[e] # "handling" /\ task'[e] = "handling" => Owner(e) = alice
=============================================================================
