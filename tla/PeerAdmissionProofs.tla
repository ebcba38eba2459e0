------------------------ MODULE PeerAdmissionProofs -------------------------
(***************************************************************************)
(* What holds of the admission of peers for any nodes, links, hosts,       *)
(* limits and threshold: the limits are kept, the index by node ID is      *)
(* exact, and a ban lasts.                                                 *)
(***************************************************************************)
EXTENDS PeerAdmission, FiniteSetTheorems, TLAPS

Pairs == Nodes \X Nodes
Places == Nodes \X Hosts

(* The index, one entry and one connection at a time. *)
IndexPointwise ==
  \A p \in Pairs : \A x \in connections :
    byNodeId[p] = x <=> task[x] = "ready" /\ PeerOf(x) = p

(* What has been in the index has been ready: it is not registered again. *)
IndexedWereReady ==
  \A p \in Pairs : byNodeId[p] \in Ends => task[byNodeId[p]] \in {"ready", "done"}

(* Nothing runs at the accepting end before the dial is through. *)
AcceptedWasDialled ==
  \A l \in Links :
    task[<<l, "out">>] \in {"none", "dialling"} => task[<<l, "in">>] = "none"

(* When the threshold was last reached, and the ban that came of it. *)
BanRecorded ==
  \A p \in Places : lastBan[p] # -1 =>
    \/ bannedUntil[p] = lastBan[p] + BanTime
    \/ bannedUntil[p] = 0 /\ now >= lastBan[p] + BanTime

IInv ==
  /\ TypeOK /\ IsFiniteSet(connections)
  /\ IndexPointwise /\ IndexedWereReady /\ AcceptedWasDialled
  /\ OverThresholdIsBanned /\ BanRecorded
  /\ LimitsHold

-----------------------------------------------------------------------------
LEMMA EndFacts ==
  ASSUME NEW e \in Ends
  PROVE  /\ Owner(e) \in Nodes /\ Host(e) \in Hosts /\ Peer(e) \in Ends
         /\ PeerOf(e) \in Pairs /\ Here(e) \in Places
<1>1. e[1] \in Links /\ e[2] \in {"out", "in"}
  BY DEF Ends
<1>2. Peer(e) \in Ends
  BY <1>1 DEF Peer, Ends
<1>3. \A x \in Ends : Owner(x) \in Nodes
  BY PeerAdmissionAssumption DEF PeerAdmissionAssumption, Owner, Ends
<1>4. Host(e) \in Hosts
  BY <1>1 DEF Host, Hosts
<1> QED
  BY <1>2, <1>3, <1>4 DEF PeerOf, Here, Pairs, Places

LEMMA LinkEnds ==
  ASSUME NEW l \in Links
  PROVE  <<l, "out">> \in Ends /\ <<l, "in">> \in Ends
BY DEF Ends

LEMMA PointwiseIsExact == TypeOK => (IndexPointwise <=> IdIndexExact)
<1> SUFFICES ASSUME TypeOK PROVE IndexPointwise <=> IdIndexExact
  OBVIOUS
<1>1. ASSUME NEW p \in Pairs
      PROVE  (\A x \in connections : byNodeId[p] = x <=> task[x] = "ready" /\ PeerOf(x) = p)
             <=> ReadyEnds(p) = {byNodeId[p]} \cap connections
  BY DEF ReadyEnds
<1> QED
  BY <1>1 DEF IndexPointwise, IdIndexExact, Pairs

-----------------------------------------------------------------------------
(* The limits, when connections come and go. *)

LEMMA LimitsOfFewer ==
  ASSUME LimitsHold, IsFiniteSet(connections), connections' \subseteq connections
  PROVE  LimitsHold' /\ IsFiniteSet(connections')
<1> USE PeerAdmissionAssumption DEF PeerAdmissionAssumption
<1>1. IsFiniteSet(connections')
  BY FS_Subset
<1>2. ASSUME NEW n \in Nodes
      PROVE  /\ Cardinality(Open(n)') <= Cardinality(Open(n))
             /\ Cardinality(Open(n)') \in Nat /\ Cardinality(Open(n)) \in Nat
  <2>1. Open(n)' \subseteq Open(n) /\ IsFiniteSet(Open(n))
    BY FS_Subset DEF Open
  <2> QED
    BY <2>1, FS_Subset, FS_CardinalityType
<1>3. ASSUME NEW n \in Nodes PROVE Cardinality(Open(n)') <= MaxPeers
  BY <1>2 DEF LimitsHold
<1>4. ASSUME NEW n \in Nodes, NEW h \in Hosts
      PROVE  Cardinality({e \in Open(n)' : Host(e) = h}) <= MaxPeersPerIp
  <2> DEFINE new == {e \in Open(n)' : Host(e) = h}
             old == {e \in Open(n) : Host(e) = h}
  <2>1. new \subseteq old /\ IsFiniteSet(old)
    BY FS_Subset DEF Open
  <2>2. Cardinality(old) <= MaxPeersPerIp
    BY DEF LimitsHold
  <2> HIDE DEF new, old
  <2>3. Cardinality(new) <= MaxPeersPerIp
    BY <2>1, <2>2, FS_Subset, FS_CardinalityType
  <2> QED
    BY <2>3 DEF new
<1> QED
  BY <1>1, <1>3, <1>4 DEF LimitsHold

LEMMA LimitsOfOneMore ==
  ASSUME LimitsHold, IsFiniteSet(connections), NEW e \in Ends, e \notin connections,
         CanAccept(e), connections' = connections \cup {e}
  PROVE  LimitsHold' /\ IsFiniteSet(connections')
<1> USE PeerAdmissionAssumption DEF PeerAdmissionAssumption
<1>1. IsFiniteSet(connections')
  BY FS_AddElement
<1>2. ASSUME NEW n \in Nodes PROVE Cardinality(Open(n)') <= MaxPeers
  <2>1. IsFiniteSet(Open(n)) /\ e \notin Open(n)
    BY FS_Subset DEF Open
  <2>2. Cardinality(Open(n)) \in Nat
    BY <2>1, FS_CardinalityType
  <2>3. CASE Owner(e) = n
    <3>1. Open(n)' = Open(n) \cup {e}
      BY <2>3 DEF Open
    <3>2. Cardinality(Open(n)') = Cardinality(Open(n)) + 1
      BY <3>1, <2>1, FS_AddElement
    <3> QED
      BY <2>2, <2>3, <3>2 DEF CanAccept
  <2>4. CASE Owner(e) # n
    <3>1. Open(n)' = Open(n)
      BY <2>4 DEF Open
    <3> QED
      BY <3>1 DEF LimitsHold
  <2> QED
    BY <2>3, <2>4
<1>3. ASSUME NEW n \in Nodes, NEW h \in Hosts
      PROVE  Cardinality({x \in Open(n)' : Host(x) = h}) <= MaxPeersPerIp
  <2> DEFINE old == {x \in Open(n) : Host(x) = h}
             new == {x \in Open(n)' : Host(x) = h}
  <2>1. IsFiniteSet(old) /\ e \notin old
    BY FS_Subset DEF Open
  <2>2. Cardinality(old) \in Nat
    BY <2>1, FS_CardinalityType
  <2>3. CASE Owner(e) = n /\ Host(e) = h
    <3>1. new = old \cup {e}
      BY <2>3 DEF Open
    <3>2. Cardinality(old) < MaxPeersPerIp
      BY <2>3 DEF CanAccept
    <3> HIDE DEF old, new
    <3>3. Cardinality(new) = Cardinality(old) + 1
      BY <3>1, <2>1, FS_AddElement
    <3>4. Cardinality(new) <= MaxPeersPerIp
      BY <2>2, <3>2, <3>3
    <3> QED
      BY <3>4 DEF new
  <2>4. CASE ~(Owner(e) = n /\ Host(e) = h)
    <3>1. new = old
      BY <2>4 DEF Open
    <3>2. Cardinality(old) <= MaxPeersPerIp
      BY DEF LimitsHold
    <3> QED
      BY <3>1, <3>2
  <2> QED
    BY <2>3, <2>4
<1> QED
  BY <1>1, <1>2, <1>3 DEF LimitsHold

-----------------------------------------------------------------------------
LEMMA InitIInv == Init => IInv
<1> SUFFICES ASSUME Init PROVE IInv
  OBVIOUS
<1> USE PeerAdmissionAssumption DEF PeerAdmissionAssumption, Init
<1>1. TypeOK
  BY DEF TypeOK
<1>2. IsFiniteSet(connections)
  BY FS_EmptySet
<1>3. IndexPointwise /\ IndexedWereReady /\ AcceptedWasDialled
  BY DEF IndexPointwise, IndexedWereReady, AcceptedWasDialled, Pairs, Ends
<1>4. OverThresholdIsBanned /\ BanRecorded
  BY DEF OverThresholdIsBanned, BanRecorded, Places
<1>5. LimitsHold
  <2>1. Cardinality({}) = 0
    BY FS_EmptySet
  <2>2. ASSUME NEW n \in Nodes PROVE Cardinality(Open(n)) <= MaxPeers
    <3>1. Open(n) = {}
      BY DEF Open
    <3>2. Cardinality(Open(n)) = 0
      BY <2>1, <3>1, Zenon
    <3> HIDE DEF Init
    <3> QED
      BY <3>2
  <2>3. ASSUME NEW n \in Nodes, NEW h \in Hosts
        PROVE  Cardinality({e \in Open(n) : Host(e) = h}) <= MaxPeersPerIp
    <3> DEFINE here == {e \in Open(n) : Host(e) = h}
    <3>1. here = {}
      BY DEF Open
    <3> HIDE DEF here, Init
    <3>2. Cardinality(here) = 0
      BY <2>1, <3>1, Zenon
    <3>3. Cardinality(here) <= MaxPeersPerIp
      BY <3>2
    <3> QED
      BY <3>3 DEF here
  <2> QED
    BY <2>2, <2>3 DEF LimitsHold
<1> QED
  BY <1>1, <1>2, <1>3, <1>4, <1>5 DEF IInv

-----------------------------------------------------------------------------
(* What the two parts of a step do: the scores and bans of a place, and the
   life of a connection. *)

BansOK == OverThresholdIsBanned /\ BanRecorded
IndexOK == IndexPointwise /\ IndexedWereReady /\ AcceptedWasDialled

BanTypes ==
  /\ score \in [Ends -> Nat]
  /\ idScore \in [Nodes \X Nodes -> Nat]
  /\ hostScore \in [Nodes \X Hosts -> Nat]
  /\ bannedUntil \in [Nodes \X Hosts -> 0..(MaxTime + BanTime)]
  /\ lastBan \in [Nodes \X Hosts -> -1..MaxTime]
  /\ overlapped \subseteq Nodes \X Nodes

ConnectionTypes ==
  /\ task \in [Ends -> {"none", "dialling", "connected", "started", "greeted",
                        "ready", "done"}]
  /\ connections \subseteq {e \in Ends : task[e] \in {"started", "greeted", "ready"}}
  /\ greeted \subseteq {e \in Ends : task[e] \in {"greeted", "ready", "done"}}
  /\ byNodeId \in [Nodes \X Nodes -> Ends \cup {NoEnd}]

LEMMA PenaltyKeepsBans ==
  ASSUME TypeOK, BansOK, NEW e \in Ends, NEW points \in Nat, Penalize(e, points), now' = now
  PROVE  BansOK' /\ BanTypes'
<1> USE PeerAdmissionAssumption DEF PeerAdmissionAssumption
<1>1. Here(e) \in Places /\ PeerOf(e) \in Pairs
  BY EndFacts
<1>2. BanTypes'
  BY <1>1 DEF Penalize, TypeOK, BanTypes, Pairs, Places
<1>3. OverThresholdIsBanned'
  BY <1>1 DEF Penalize, AtThreshold, TypeOK, BansOK, OverThresholdIsBanned, Places
<1>4. BanRecorded'
  BY <1>1 DEF Penalize, TypeOK, BansOK, BanRecorded, Places
<1> QED
  BY <1>2, <1>3, <1>4 DEF BansOK

LEMMA ExpiryKeepsBans ==
  ASSUME TypeOK, BansOK, NEW e \in Ends, ExpireBan(e), now' = now,
         UNCHANGED <<score, idScore, lastBan, overlapped>>
  PROVE  BansOK' /\ BanTypes'
<1> USE PeerAdmissionAssumption DEF PeerAdmissionAssumption
<1>1. Here(e) \in Places
  BY EndFacts
<1>2. BanTypes'
  BY <1>1 DEF ExpireBan, TypeOK, BanTypes, Places
<1>3. OverThresholdIsBanned'
  BY <1>1 DEF ExpireBan, TypeOK, BansOK, OverThresholdIsBanned, Places
<1>4. BanRecorded'
  BY <1>1 DEF ExpireBan, BanExpired, TypeOK, BansOK, BanRecorded, Places
<1> QED
  BY <1>2, <1>3, <1>4 DEF BansOK

(* A connection is closed, by its task or under it. *)
LEMMA CloseKeepsIndex ==
  ASSUME TypeOK, IndexOK, NEW e \in Ends, Close(e), greeted' = greeted,
         task' = task \/ (task' = [task EXCEPT ![e] = "done"]
                          /\ task[e] \in {"started", "greeted", "ready"})
  PROVE  IndexOK' /\ ConnectionTypes' /\ connections' \subseteq connections
<1>1. PeerOf(e) \in Pairs /\ NoEnd \notin Ends
  BY EndFacts, PeerAdmissionAssumption DEF PeerAdmissionAssumption, Ends
<1>2. connections' = connections \ {e}
  BY DEF Close
<1>3. ConnectionTypes'
  BY <1>1 DEF Close, TypeOK, ConnectionTypes, Pairs
<1>4. \A p \in Pairs : \A x \in connections' : byNodeId'[p] = x <=> byNodeId[p] = x
  BY <1>1, <1>2 DEF Close, TypeOK, Pairs
<1>5. \A x \in connections' : task'[x] = task[x]
  BY <1>2 DEF TypeOK
<1>6. IndexPointwise'
  BY <1>2, <1>4, <1>5 DEF IndexOK, IndexPointwise
<1>7. IndexedWereReady'
  BY <1>1 DEF Close, TypeOK, IndexOK, IndexedWereReady, Pairs
<1>8. AcceptedWasDialled'
  BY LinkEnds DEF TypeOK, IndexOK, AcceptedWasDialled
<1> QED
  BY <1>2, <1>3, <1>6, <1>7, <1>8 DEF IndexOK

(* A step that leaves the scores, or the connections, alone. *)
LEMMA SameScores ==
  ASSUME TypeOK, BansOK, UNCHANGED scoreVars, now' \in {now, now + 1}
  PROVE  BansOK' /\ BanTypes'
<1> USE PeerAdmissionAssumption DEF PeerAdmissionAssumption, TypeOK, scoreVars
<1>1. BanTypes' /\ OverThresholdIsBanned'
  BY DEF BanTypes, BansOK, OverThresholdIsBanned
<1>2. BanRecorded'
  BY DEF BansOK, BanRecorded, Places
<1> QED
  BY <1>1, <1>2 DEF BansOK

LEMMA SameConnections ==
  ASSUME TypeOK, IndexOK, LimitsHold, IsFiniteSet(connections), UNCHANGED admissionVars
  PROVE  ConnectionTypes' /\ IndexOK' /\ LimitsHold' /\ IsFiniteSet(connections')
<1>1. ConnectionTypes'
  BY DEF TypeOK, ConnectionTypes, admissionVars
<1>2. IndexOK'
  BY DEF IndexOK, IndexPointwise, IndexedWereReady, AcceptedWasDialled, admissionVars
<1>3. LimitsHold' /\ IsFiniteSet(connections')
  BY LimitsOfFewer DEF admissionVars
<1> QED
  BY <1>1, <1>2, <1>3

LEMMA Parts ==
  ASSUME ConnectionTypes', BanTypes', IndexOK', BansOK', LimitsHold', IsFiniteSet(connections'),
         (now \in 0..MaxTime)', (troubles \in 0..MaxTroubles)'
  PROVE  IInv'
BY DEF IInv, TypeOK, ConnectionTypes, BanTypes, IndexOK, BansOK

-----------------------------------------------------------------------------
(* One lemma per way a connection lives. *)

LEMMA DialKeeps ==
  ASSUME IInv, NEW l \in Links, Dial(l)
  PROVE  IInv'
<1> DEFINE e == <<l, "out">>
<1>1. e \in Ends /\ <<l, "in">> \in Ends /\ task[e] = "none" /\ TypeOK
  BY LinkEnds DEF Dial, IInv
<1>2. BansOK' /\ BanTypes'
  BY <1>1, ExpiryKeepsBans DEF Dial, IInv, BansOK
<1>3. /\ UNCHANGED <<now, connections, greeted, byNodeId, troubles>>
      /\ task' \in {[task EXCEPT ![e] = "dialling"], [task EXCEPT ![e] = "done"]}
  BY DEF Dial
<1> HIDE DEF e
<1>4. ConnectionTypes'
  BY <1>1, <1>3 DEF TypeOK, ConnectionTypes
<1>5. \A x \in Ends : x # e => task'[x] = task[x]
  BY <1>3, <1>1 DEF TypeOK
<1>6. IndexPointwise' /\ IndexedWereReady'
  BY <1>1, <1>3, <1>5 DEF TypeOK, IInv, IndexPointwise, IndexedWereReady
<1>7. AcceptedWasDialled'
  BY <1>1, <1>3, LinkEnds DEF TypeOK, IInv, AcceptedWasDialled, e
<1>8. LimitsHold' /\ IsFiniteSet(connections')
  BY <1>3, LimitsOfFewer DEF IInv
<1> QED
  BY <1>1, <1>2, <1>3, <1>4, <1>6, <1>7, <1>8, Parts DEF TypeOK, IndexOK

LEMMA EstablishKeeps ==
  ASSUME IInv, NEW l \in Links, Establish(l)
  PROVE  IInv'
<1>1. <<l, "out">> \in Ends /\ <<l, "in">> \in Ends /\ TypeOK
  BY LinkEnds DEF IInv
<1>2. /\ task[<<l, "out">>] = "dialling" /\ task[<<l, "in">>] = "none"
      /\ UNCHANGED <<now, connections, greeted, byNodeId, scoreVars, troubles>>
      /\ task' = [task EXCEPT ![<<l, "out">>] = "connected", ![<<l, "in">>] = "connected"]
  BY DEF Establish, IInv, AcceptedWasDialled
<1>3. BansOK' /\ BanTypes'
  BY <1>1, <1>2, SameScores DEF IInv, BansOK
<1>4. ConnectionTypes'
  BY <1>1, <1>2 DEF TypeOK, ConnectionTypes
<1>5. \A x \in Ends : task[x] \notin {"none", "dialling"} => task'[x] = task[x]
  BY <1>1, <1>2 DEF TypeOK
<1>6. IndexPointwise' /\ IndexedWereReady'
  <2>1. \A x \in connections : x \in Ends /\ task[x] \notin {"none", "dialling"}
    BY <1>1 DEF TypeOK
  <2>2. IndexPointwise'
    <3>1. \A x \in connections : task'[x] = task[x]
      BY <1>5, <2>1
    <3>2. connections' = connections /\ byNodeId' = byNodeId
      BY <1>2
    <3> QED
      BY <3>1, <3>2 DEF IInv, IndexPointwise
  <2>3. IndexedWereReady'
    BY <1>2, <1>5 DEF IInv, IndexedWereReady
  <2> QED
    BY <2>2, <2>3
<1>7. AcceptedWasDialled'
  BY <1>1, <1>2, LinkEnds DEF TypeOK, IInv, AcceptedWasDialled
<1>8. LimitsHold' /\ IsFiniteSet(connections')
  BY <1>2, LimitsOfFewer DEF IInv
<1> QED
  BY <1>1, <1>2, <1>3, <1>4, <1>6, <1>7, <1>8, Parts DEF TypeOK, IndexOK

LEMMA RegisterKeeps ==
  ASSUME IInv, NEW e \in Ends, Register(e)
  PROVE  IInv'
<1>1. TypeOK /\ task[e] = "connected" /\ e \notin connections
  BY DEF Register, IInv, TypeOK
<1>2. UNCHANGED <<now, greeted, byNodeId, score, idScore, lastBan, overlapped, troubles>>
  BY DEF Register
<1>3. BansOK' /\ BanTypes'
  BY <1>1, <1>2, ExpiryKeepsBans DEF Register, IInv, BansOK
<1>4. \/ /\ task' = [task EXCEPT ![e] = "started"]
         /\ connections' = connections \cup {e} /\ CanAccept(e)
      \/ task' = [task EXCEPT ![e] = "done"] /\ connections' = connections
  BY DEF Register
<1>5. ConnectionTypes'
  BY <1>1, <1>2, <1>4 DEF TypeOK, ConnectionTypes
<1>6. /\ \A x \in Ends : x # e => task'[x] = task[x]
      /\ task'[e] \in {"started", "done"}
  BY <1>1, <1>4 DEF TypeOK
<1>7. \A p \in Pairs : byNodeId[p] # e
  BY <1>1 DEF IInv, IndexedWereReady
<1>8. IndexPointwise'
  <2>1. ASSUME NEW p \in Pairs, NEW x \in connections'
        PROVE  byNodeId[p] = x <=> task'[x] = "ready" /\ PeerOf(x) = p
    <3>1. CASE x = e
      BY <1>6, <1>7, <3>1
    <3>2. CASE x # e
      <4>1. x \in connections /\ x \in Ends
        BY <1>1, <1>4, <3>2 DEF TypeOK
      <4> QED
        BY <1>6, <3>2, <4>1 DEF IInv, IndexPointwise
    <3> QED
      BY <3>1, <3>2
  <2> QED
    BY <1>2, <2>1 DEF IndexPointwise
<1>9. IndexedWereReady'
  BY <1>2, <1>6, <1>7 DEF IInv, IndexedWereReady
<1>10. AcceptedWasDialled'
  BY <1>1, <1>6, LinkEnds DEF TypeOK, IInv, AcceptedWasDialled
<1>11. LimitsHold' /\ IsFiniteSet(connections')
  BY <1>1, <1>4, LimitsOfFewer, LimitsOfOneMore DEF IInv
<1> QED
  BY <1>1, <1>2, <1>3, <1>5, <1>8, <1>9, <1>10, <1>11, Parts DEF TypeOK, IndexOK

LEMMA GreetKeeps ==
  ASSUME IInv, NEW e \in Ends, Greet(e)
  PROVE  IInv'
<1>1. TypeOK /\ task[e] = "started" /\ e \in connections
  BY DEF Greet, IInv
<1>2. /\ UNCHANGED <<now, connections, byNodeId, scoreVars, troubles>>
      /\ task' = [task EXCEPT ![e] = "greeted"] /\ greeted' = greeted \cup {e}
  BY DEF Greet
<1>3. BansOK' /\ BanTypes'
  BY <1>1, <1>2, SameScores DEF IInv, BansOK
<1>4. ConnectionTypes'
  BY <1>1, <1>2 DEF TypeOK, ConnectionTypes
<1>5. /\ \A x \in Ends : x # e => task'[x] = task[x]
      /\ task'[e] = "greeted"
  BY <1>1, <1>2 DEF TypeOK
<1>6. IndexPointwise'
  BY <1>1, <1>2, <1>5 DEF TypeOK, IInv, IndexPointwise
<1>7. IndexedWereReady'
  BY <1>1, <1>2, <1>5 DEF IInv, IndexedWereReady
<1>8. AcceptedWasDialled'
  BY <1>1, <1>5, LinkEnds DEF IInv, AcceptedWasDialled
<1>9. LimitsHold' /\ IsFiniteSet(connections')
  BY <1>2, LimitsOfFewer DEF IInv
<1> QED
  BY <1>1, <1>2, <1>3, <1>4, <1>6, <1>7, <1>8, <1>9, Parts DEF TypeOK, IndexOK

LEMMA CompleteHandshakeKeeps ==
  ASSUME IInv, NEW e \in Ends, CompleteHandshake(e)
  PROVE  IInv'
<1>1. TypeOK /\ task[e] = "greeted" /\ Acceptable(e)
  BY DEF CompleteHandshake, HelloArrived, IInv
<1>2. /\ UNCHANGED <<now, connections, greeted, idScore, hostScore, bannedUntil,
                      lastBan, troubles>>
      /\ byNodeId' = [byNodeId EXCEPT ![PeerOf(e)] = e]
      /\ score' = [score EXCEPT ![e] = idScore[PeerOf(e)]]
      /\ task' = [task EXCEPT ![e] = IF e \in connections THEN "ready" ELSE "done"]
      /\ overlapped' \subseteq overlapped \cup {PeerOf(e)}
  BY DEF CompleteHandshake, RecordOverlap
<1>3. PeerOf(e) \in Pairs
  BY EndFacts
<1>4. BanTypes'
  BY <1>1, <1>2, <1>3 DEF TypeOK, BanTypes, Pairs
<1>5. BansOK'
  BY <1>2 DEF IInv, BansOK, OverThresholdIsBanned, BanRecorded
<1>6. ConnectionTypes'
  BY <1>1, <1>2, <1>3 DEF TypeOK, ConnectionTypes, Pairs
<1>7. /\ \A x \in Ends : x # e => task'[x] = task[x]
      /\ task'[e] = IF e \in connections THEN "ready" ELSE "done"
      /\ byNodeId'[PeerOf(e)] = e
      /\ \A p \in Pairs : p # PeerOf(e) => byNodeId'[p] = byNodeId[p]
  BY <1>1, <1>2, <1>3 DEF TypeOK, Pairs
<1>8. \A x \in connections : x # e => byNodeId[PeerOf(e)] # x
  BY <1>1, PeerAdmissionAssumption
     DEF Acceptable, Duplicate, TypeOK, Ends, PeerAdmissionAssumption
<1>9. \A p \in Pairs : byNodeId[p] # e
  BY <1>1 DEF IInv, IndexedWereReady
<1>10. IndexPointwise'
  <2>1. ASSUME NEW p \in Pairs, NEW x \in connections
        PROVE  byNodeId'[p] = x <=> task'[x] = "ready" /\ PeerOf(x) = p
    <3>1. CASE x = e
      BY <1>7, <1>9, <3>1
    <3>2. CASE x # e
      <4>1. x \in Ends /\ task'[x] = task[x]
        BY <1>1, <1>7, <3>2 DEF TypeOK
      <4>2. byNodeId[p] = x <=> task[x] = "ready" /\ PeerOf(x) = p
        BY DEF IInv, IndexPointwise
      <4>3. byNodeId'[p] = x <=> byNodeId[p] = x
        BY <1>7, <1>8, <3>2
      <4> QED
        BY <4>1, <4>2, <4>3
    <3> QED
      BY <3>1, <3>2
  <2> QED
    BY <1>2, <2>1 DEF IndexPointwise
<1>11. IndexedWereReady'
  BY <1>7, <1>9 DEF IInv, IndexedWereReady
<1>12. AcceptedWasDialled'
  BY <1>1, <1>7, LinkEnds DEF IInv, AcceptedWasDialled
<1>13. LimitsHold' /\ IsFiniteSet(connections')
  BY <1>2, LimitsOfFewer DEF IInv
<1> QED
  BY <1>1, <1>2, <1>4, <1>5, <1>6, <1>10, <1>11, <1>12, <1>13, Parts
     DEF TypeOK, IndexOK

(* Every other way to go on closes the connection of e, with or without a
   penalty and with or without its task. *)
Closing(e, points) ==
  /\ Close(e) /\ greeted' = greeted /\ now' = now
  /\ \/ task' = task
     \/ task' = [task EXCEPT ![e] = "done"] /\ task[e] \in {"started", "greeted", "ready"}
  /\ Penalize(e, points) \/ UNCHANGED scoreVars
  /\ troubles' \in 0..MaxTroubles

LEMMA ClosingKeeps ==
  ASSUME IInv, NEW e \in Ends, NEW points \in Nat, Closing(e, points)
  PROVE  IInv'
<1>1. TypeOK /\ BansOK /\ IndexOK
  BY DEF IInv, BansOK, IndexOK
<1>2. BansOK' /\ BanTypes'
  BY <1>1, PenaltyKeepsBans, SameScores DEF Closing
<1>3. IndexOK' /\ ConnectionTypes' /\ connections' \subseteq connections
  BY <1>1, CloseKeepsIndex DEF Closing
<1>4. LimitsHold' /\ IsFiniteSet(connections')
  BY <1>3, LimitsOfFewer DEF IInv
<1> QED
  BY <1>1, <1>2, <1>3, <1>4, Parts DEF Closing, TypeOK

LEMMA EndingsClose ==
  ASSUME TypeOK, NEW e \in Ends,
         \/ RefuseHandshake(e) \/ ReadEnd(e) \/ HandshakeTimeout(e) \/ ConnectTimeout(e)
         \/ BreakProtocol(e) \/ ExceedRate(e) \/ NoProgress(e) \/ SendFails(e) \/ Lost(e)
  PROVE  \E points \in Nat : Closing(e, points)
<1> USE PeerAdmissionAssumption DEF PeerAdmissionAssumption, TypeOK, Trouble
<1>1. CASE RefuseHandshake(e)
  <2>1. HelloPoints(e) \in Nat
    BY DEF HelloPoints
  <2> QED
    BY <1>1, <2>1 DEF RefuseHandshake, HelloArrived, EndTask, Closing
<1>2. CASE ReadEnd(e)
  <2>1. Closing(e, 0)
    BY <1>2 DEF ReadEnd, EndTask, Closing
  <2> QED
    BY <2>1
<1>3. CASE HandshakeTimeout(e)
  BY <1>3 DEF HandshakeTimeout, EndTask, Closing
<1>4. CASE ConnectTimeout(e)
  <2>1. Closing(e, 0)
    BY <1>4 DEF ConnectTimeout, Closing
  <2> QED
    BY <2>1
<1>5. CASE BreakProtocol(e)
  BY <1>5 DEF BreakProtocol, Costly, EndTask, Closing
<1>6. CASE ExceedRate(e)
  <2>1. Threshold + 2 \in Nat
    OBVIOUS
  <2> QED
    BY <1>6, <2>1 DEF ExceedRate, Costly, EndTask, Closing
<1>7. CASE NoProgress(e)
  BY <1>7 DEF NoProgress, Costly, EndTask, Closing
<1>8. CASE SendFails(e)
  <2>1. Closing(e, 0)
    BY <1>8 DEF SendFails, Closing
  <2> QED
    BY <2>1
<1>9. CASE Lost(e)
  <2>1. Closing(e, 0)
    BY <1>9 DEF Lost, EndTask, Closing
  <2> QED
    BY <2>1
<1> QED
  BY <1>1, <1>2, <1>3, <1>4, <1>5, <1>6, <1>7, <1>8, <1>9

LEMMA MisbehaveKeeps ==
  ASSUME IInv, NEW e \in Ends, NEW points \in {1, 2}, Misbehave(e, points)
  PROVE  IInv'
<1> USE DEF Misbehave, Costly, Trouble
<1>1. TypeOK /\ BansOK /\ IndexOK /\ LimitsHold /\ IsFiniteSet(connections)
  BY DEF IInv, BansOK, IndexOK
<1>2. troubles' \in 0..MaxTroubles /\ UNCHANGED <<now, greeted>>
  BY <1>1, PeerAdmissionAssumption DEF PeerAdmissionAssumption, TypeOK
<1>3. CASE AtThreshold(e, points)
  <2>1. Closing(e, points + 2)
    BY <1>1, <1>2, <1>3 DEF EndTask, Closing, TypeOK
  <2> QED
    BY <2>1, ClosingKeeps
<1>4. CASE ~AtThreshold(e, points)
  <2>1. Penalize(e, points) /\ UNCHANGED admissionVars
    BY <1>2, <1>4 DEF admissionVars
  <2>2. BansOK' /\ BanTypes'
    BY <1>1, <1>2, <2>1, PenaltyKeepsBans
  <2>3. ConnectionTypes' /\ IndexOK' /\ LimitsHold' /\ IsFiniteSet(connections')
    BY <1>1, <2>1, SameConnections
  <2> QED
    BY <1>1, <1>2, <2>2, <2>3, Parts DEF TypeOK
<1> QED
  BY <1>3, <1>4

LEMMA NextIInv == IInv /\ [Next]_vars => IInv'
<1> SUFFICES ASSUME IInv, [Next]_vars PROVE IInv'
  OBVIOUS
<1>1. TypeOK /\ BansOK /\ IndexOK /\ LimitsHold /\ IsFiniteSet(connections)
  BY DEF IInv, BansOK, IndexOK
<1>2. ASSUME NEW l \in Links, Dial(l) \/ Establish(l) PROVE IInv'
  BY <1>2, DialKeeps, EstablishKeeps
<1>3. ASSUME NEW e \in Ends, TaskStep(e) \/ TroubledStep(e) PROVE IInv'
  <2>1. CASE Register(e) \/ Greet(e) \/ CompleteHandshake(e)
    BY <2>1, RegisterKeeps, GreetKeeps, CompleteHandshakeKeeps
  <2>2. CASE \E points \in {1, 2} : Misbehave(e, points)
    BY <2>2, MisbehaveKeeps
  <2>3. CASE \E points \in Nat : Closing(e, points)
    BY <2>3, ClosingKeeps
  <2> QED
    BY <1>1, <1>3, <2>1, <2>2, <2>3, EndingsClose DEF TaskStep, TroubledStep
<1>4. ASSUME UNCHANGED <<admissionVars, scoreVars, troubles>>,
             now' \in {now, now + 1}, now' \in 0..MaxTime
      PROVE  IInv'
  <2>1. BansOK' /\ BanTypes'
    BY <1>1, <1>4, SameScores
  <2>2. ConnectionTypes' /\ IndexOK' /\ LimitsHold' /\ IsFiniteSet(connections')
    BY <1>1, <1>4, SameConnections
  <2> QED
    BY <1>1, <1>4, <2>1, <2>2, Parts DEF TypeOK
<1>5. CASE Tick
  <2>1. now' \in 0..MaxTime /\ now' = now + 1
    BY <1>1, <1>5, PeerAdmissionAssumption DEF PeerAdmissionAssumption, Tick, TypeOK
  <2> QED
    BY <1>4, <1>5, <2>1 DEF Tick
<1>6. CASE UNCHANGED vars
  BY <1>1, <1>4, <1>6 DEF vars, TypeOK
<1> QED
  BY <1>2, <1>3, <1>5, <1>6 DEF Next, Proceed

-----------------------------------------------------------------------------
(* The inductive invariant holds in every state of the admission of peers. *)
THEOREM Invariance == Spec => []IInv
BY InitIInv, NextIInv, PTL DEF Spec

(* Every variable of p2p.py's admission keeps its type, and only tasks that run
   hold a registered connection. *)
THEOREM TypeCorrect == Spec => []TypeOK
<1>1. IInv => TypeOK
  BY DEF IInv
<1> QED
  BY <1>1, Invariance, PTL

(* No node ever holds more connections than PeerLimits allows, in all or from one
   host, however many dials are under way at once. *)
THEOREM LimitsHoldTheorem == Spec => []LimitsHold
<1>1. IInv => LimitsHold
  BY DEF IInv
<1> QED
  BY <1>1, Invariance, PTL

(* _by_node_id and the open connections that finished their handshake agree, so a
   peer is connected at most once, whichever of the two nodes dialled. *)
THEOREM IdIndexExactTheorem == Spec => []IdIndexExact
<1>1. IInv => IdIndexExact
  BY PointwiseIsExact DEF IInv
<1> QED
  BY <1>1, Invariance, PTL

(* A host at the threshold has a ban: neither penalize nor the expiry in
   _can_accept leaves one without the other. *)
THEOREM OverThresholdIsBannedTheorem == Spec => []OverThresholdIsBanned
<1>1. IInv => OverThresholdIsBanned
  BY DEF IInv
<1> QED
  BY <1>1, Invariance, PTL

(* Between the moment a host reached the threshold and the end of BAN_SECONDS no
   connection of that host is registered. *)
BanStep ==
  \A e \in connections' \ connections :
    lastBan[Here(e)] # -1 => now >= lastBan[Here(e)] + BanTime

LEMMA OnlyRegisterAdds ==
  ASSUME TypeOK, [Next]_vars
  PROVE  \/ connections' \subseteq connections
         \/ \E e \in Ends : Register(e) /\ connections' = connections \cup {e} /\ CanAccept(e)
<1>1. ASSUME NEW e \in Ends, Register(e)
      PROVE  \/ connections' \subseteq connections
             \/ connections' = connections \cup {e} /\ CanAccept(e)
  BY <1>1 DEF Register
<1>2. ASSUME NEW e \in Ends, TaskStep(e) \/ TroubledStep(e), ~Register(e)
      PROVE  connections' \subseteq connections
  <2>1. CASE Greet(e) \/ CompleteHandshake(e)
    BY <2>1 DEF Greet, CompleteHandshake
  <2>2. CASE \E points \in {1, 2} : Misbehave(e, points)
    BY <2>2 DEF Misbehave, EndTask, Close
  <2>3. CASE \E points \in Nat : Closing(e, points)
    BY <2>3 DEF Closing, Close
  <2> QED
    BY <1>2, <2>1, <2>2, <2>3, EndingsClose DEF TaskStep, TroubledStep
<1>3. ASSUME NEW l \in Links, Dial(l) \/ Establish(l)
      PROVE  connections' = connections
  BY <1>3 DEF Dial, Establish
<1>4. Tick \/ UNCHANGED vars => connections' = connections
  BY DEF Tick, vars, admissionVars
<1> QED
  BY <1>1, <1>2, <1>3, <1>4 DEF Next, Proceed, TaskStep

(* A connection that _accept or connect registers comes from a host whose last
   ban, if it ever had one, has run out, even one renewed while it ran. *)
THEOREM BanHonouredTheorem == Spec => BanHonoured
<1>1. IInv /\ [Next]_vars => BanStep
  <2> SUFFICES ASSUME IInv, [Next]_vars, NEW e \in connections' \ connections,
                      lastBan[Here(e)] # -1
               PROVE  now >= lastBan[Here(e)] + BanTime
    BY DEF BanStep
  <2>1. TypeOK /\ BanRecorded
    BY DEF IInv
  <2>2. e \in Ends /\ CanAccept(e)
    BY <2>1, OnlyRegisterAdds
  <2>3. Here(e) \in Places
    BY <2>2, EndFacts
  <2>4. now >= bannedUntil[Here(e)]
    BY <2>2 DEF CanAccept
  <2>5. \/ bannedUntil[Here(e)] = lastBan[Here(e)] + BanTime
        \/ now >= lastBan[Here(e)] + BanTime
    BY <2>1, <2>3 DEF BanRecorded
  <2> QED
    BY <2>4, <2>5
<1>2. BanHonoured <=> [][BanStep]_vars
  BY PTL DEF BanHonoured, BanStep
<1> QED
  BY <1>1, <1>2, Invariance, PTL DEF Spec
-----------------------------------------------------------------------------
(* The score that a node keeps by node ID.  penalize overwrites it with the score
   of the connection, which is the same as long as no second task has served the
   peer; a closed connection whose task still reads is such a second one. *)
OverlapsRecorded ==
  \A e, f \in Ends :
    task[e] = "ready" /\ task[f] = "ready" /\ PeerOf(e) = PeerOf(f) =>
      e = f \/ PeerOf(e) \in overlapped

ScoresAgree ==
  \A e \in Ends : task[e] = "ready" =>
    score[e] = idScore[PeerOf(e)] \/ PeerOf(e) \in overlapped

Remembered == \A p \in Pairs \ overlapped : idScore'[p] >= idScore[p]

NoneReadied == \A e \in Ends : task'[e] = "ready" => task[e] = "ready"

ScoreStep ==
  \/ UNCHANGED <<score, idScore, overlapped>> /\ NoneReadied
  \/ \E e \in Ends : CompleteHandshake(e)
  \/ \E e \in Ends, points \in Nat : Penalize(e, points) /\ NoneReadied

LEMMA ScoreSteps ==
  ASSUME TypeOK, [Next]_vars
  PROVE  ScoreStep
<1>1. ASSUME NEW e \in Ends, NEW points \in Nat, Closing(e, points) PROVE ScoreStep
  <2>1. NoneReadied
    BY <1>1 DEF Closing, NoneReadied, TypeOK
  <2> QED
    BY <1>1, <2>1 DEF Closing, scoreVars, ScoreStep
<1>2. ASSUME NEW e \in Ends, NEW points \in {1, 2}, Misbehave(e, points) PROVE ScoreStep
  <2>1. NoneReadied
    BY <1>2 DEF Misbehave, EndTask, NoneReadied, TypeOK
  <2>2. points \in Nat /\ points + 2 \in Nat
    OBVIOUS
  <2> QED
    BY <1>2, <2>1, <2>2 DEF Misbehave, ScoreStep
<1>3. ASSUME NEW e \in Ends, Register(e) \/ Greet(e) PROVE ScoreStep
  BY <1>3 DEF Register, Greet, scoreVars, NoneReadied, TypeOK, ScoreStep
<1>4. ASSUME NEW l \in Links, Dial(l) \/ Establish(l) PROVE ScoreStep
  BY <1>4 DEF Dial, Establish, scoreVars, NoneReadied, TypeOK, ScoreStep
<1>5. CASE Tick \/ UNCHANGED vars
  BY <1>5 DEF Tick, vars, scoreVars, admissionVars, NoneReadied, ScoreStep
<1>6. ASSUME NEW e \in Ends, TaskStep(e) \/ TroubledStep(e) PROVE ScoreStep
  <2>1. CASE Register(e) \/ Greet(e) \/ CompleteHandshake(e)
    BY <1>3, <2>1 DEF ScoreStep
  <2>2. CASE \E points \in {1, 2} : Misbehave(e, points)
    BY <1>2, <2>2
  <2>3. CASE \E points \in Nat : Closing(e, points)
    BY <1>1, <2>3
  <2> QED
    BY <1>6, <2>1, <2>2, <2>3, EndingsClose DEF TaskStep, TroubledStep
<1>7. \/ \E l \in Links : Dial(l) \/ Establish(l)
      \/ \E e \in Ends : TaskStep(e) \/ TroubledStep(e)
      \/ Tick \/ UNCHANGED vars
  BY Zenon DEF Next, Proceed
<1> QED
  BY <1>4, <1>5, <1>6, <1>7

(* HELLO is accepted: the connection takes the score by node ID over, and a task
   that serves the peer besides it is recorded. *)
LEMMA HandshakeScores ==
  ASSUME TypeOK, OverlapsRecorded, ScoresAgree, NEW e \in Ends, CompleteHandshake(e)
  PROVE  OverlapsRecorded' /\ ScoresAgree' /\ Remembered
<1>1. /\ idScore' = idScore /\ overlapped \subseteq overlapped'
      /\ \A x \in Ends : x # e => score'[x] = score[x] /\ task'[x] = task[x]
      /\ score'[e] = idScore[PeerOf(e)]
      /\ task'[e] = "ready" => e \in connections
  BY DEF CompleteHandshake, RecordOverlap, TypeOK
<1>2. ASSUME NEW x \in Ends \ {e}, task'[e] = "ready", task'[x] = "ready",
             PeerOf(x) = PeerOf(e)
      PROVE  PeerOf(e) \in overlapped'
  <2>1. Overlaps(e)
    BY <1>1, <1>2 DEF Overlaps
  <2> QED
    BY <2>1 DEF CompleteHandshake, RecordOverlap
<1>3. OverlapsRecorded'
  <2> SUFFICES ASSUME NEW x \in Ends, NEW y \in Ends, task'[x] = "ready",
                      task'[y] = "ready", PeerOf(x) = PeerOf(y), x # y
               PROVE  PeerOf(x) \in overlapped'
    BY DEF OverlapsRecorded, PeerOf, Owner, Peer
  <2>1. CASE x = e \/ y = e
    BY <1>2, <2>1
  <2>2. CASE x # e /\ y # e
    BY <1>1, <2>2 DEF OverlapsRecorded
  <2> QED
    BY <2>1, <2>2
<1>4. ScoresAgree'
  BY <1>1 DEF ScoresAgree, PeerOf, Owner, Peer
<1>5. Remembered
  BY <1>1 DEF Remembered, Pairs, TypeOK
<1> QED
  BY <1>3, <1>4, <1>5

LEMMA PenaltyScores ==
  ASSUME TypeOK, OverlapsRecorded, ScoresAgree, NEW e \in Ends, NEW points \in Nat,
         Penalize(e, points), NoneReadied
  PROVE  OverlapsRecorded' /\ ScoresAgree' /\ Remembered
<1>1. /\ PeerOf(e) \in Pairs /\ score[e] \in Nat /\ overlapped' = overlapped
      /\ \A x \in Ends : score'[x] = IF x = e THEN score[e] + points ELSE score[x]
  BY EndFacts DEF Penalize, TypeOK
<1>2. \A p \in Pairs :
        idScore'[p] = IF task[e] = "ready" /\ p = PeerOf(e)
                        THEN score[e] + points ELSE idScore[p]
  BY <1>1 DEF Penalize, TypeOK, Pairs
<1>3. OverlapsRecorded'
  BY <1>1 DEF OverlapsRecorded, NoneReadied
<1>4. ASSUME NEW p \in Pairs, p \notin overlapped PROVE idScore'[p] >= idScore[p]
  <2>1. idScore[p] \in Nat
    BY DEF TypeOK, Pairs
  <2> QED
    BY <1>1, <1>2, <1>4, <2>1 DEF ScoresAgree
<1>5. ASSUME NEW x \in Ends, task'[x] = "ready", PeerOf(x) \notin overlapped
      PROVE  score'[x] = idScore'[PeerOf(x)]
  <2>1. task[x] = "ready" /\ PeerOf(x) \in Pairs
    BY <1>5, EndFacts DEF NoneReadied
  <2>2. score[x] = idScore[PeerOf(x)]
    BY <1>5, <2>1 DEF ScoresAgree
  <2>3. x # e => ~(task[e] = "ready" /\ PeerOf(x) = PeerOf(e))
    BY <1>5, <2>1 DEF OverlapsRecorded
  <2> QED
    BY <1>1, <1>2, <2>1, <2>2, <2>3
<1>6. ScoresAgree'
  BY <1>1, <1>5 DEF ScoresAgree
<1> QED
  BY <1>3, <1>4, <1>6 DEF Remembered

LEMMA NextScoresAgree ==
  ASSUME TypeOK, OverlapsRecorded, ScoresAgree, [Next]_vars
  PROVE  OverlapsRecorded' /\ ScoresAgree' /\ Remembered
<1>1. CASE UNCHANGED <<score, idScore, overlapped>> /\ NoneReadied
  <2>1. OverlapsRecorded' /\ ScoresAgree'
    BY <1>1 DEF OverlapsRecorded, ScoresAgree, NoneReadied
  <2>2. Remembered
    BY <1>1 DEF Remembered, Pairs, TypeOK
  <2> QED
    BY <2>1, <2>2
<1> QED
  BY <1>1, HandshakeScores, PenaltyScores, ScoreSteps DEF ScoreStep

(* As long as no two tasks have served a peer at once, redialling does not wash
   off what penalize has held against its node ID: _run gives the old score back
   before a frame can cost more, and penalize only adds to it. *)
THEOREM MisbehaviourRememberedTheorem == Spec => MisbehaviourRemembered
<1> DEFINE Agree == OverlapsRecorded /\ ScoresAgree
<1>1. Init => Agree
  BY DEF Init, OverlapsRecorded, ScoresAgree
<1>2. IInv /\ Agree /\ [Next]_vars => Agree' /\ Remembered
  BY NextScoresAgree DEF IInv
<1> HIDE DEF Agree
<1>3. Spec => [][Remembered]_vars
  BY <1>1, <1>2, Invariance, PTL DEF Spec
<1>4. MisbehaviourRemembered <=> [][Remembered]_vars
  BY PTL DEF MisbehaviourRemembered, Remembered, Pairs
<1> QED
  BY <1>3, <1>4, PTL
=============================================================================
