---------------------------- MODULE PeerAdmission --------------------------
(***************************************************************************)
(* Who may be a peer: the connection limits, the HELLO checks, the index   *)
(* of peers by node ID, the scores and the temporary bans of p2p.py.       *)
(*                                                                         *)
(* A link is one dialled TCP connection with two ends, <<l, "out">> at the *)
(* node that dials and <<l, "in">> at the node that accepts; each end is   *)
(* one _PeerConnection served by one task.  connect checks the limits,     *)
(* awaits the dial and checks again; the scores are kept per connection,   *)
(* per node ID and per host, and the host is the loopback address of the   *)
(* link, so all peers on 127.0.0.1 share one.                              *)
(*                                                                         *)
(* Points are counted in tens.  What the frames after HELLO say is left to *)
(* PeerSync and TxRelay: here a ready end may meet any frame that costs    *)
(* points, whoever the peer is.                                            *)
(***************************************************************************)
EXTENDS Integers, FiniteSets

CONSTANTS
  Nodes, NoEnd,
  Links,
  Dialer, Acceptor,       \* link -> node (the same one for a self-dial)
  HostOf,                 \* link -> loopback address it runs over
  ChainOf,                \* node -> its chain_id and genesis hash
  VersionOf,              \* node -> its PROTOCOL_VERSION
  MaxPeers, MaxPeersPerIp,
  Threshold,              \* score_disconnect_threshold, in tens
  BanTime,                \* BAN_SECONDS, in ticks
  MaxTime,                \* bound: ticks of the clock
  MaxTroubles             \* bound: costly frames, expired timers, broken links

ASSUME PeerAdmissionAssumption ==
  /\ NoEnd \notin Links \X {"out", "in"}
  /\ {Dialer, Acceptor} \subseteq [Links -> Nodes]
  /\ DOMAIN HostOf = Links /\ DOMAIN ChainOf = Nodes /\ DOMAIN VersionOf = Nodes
  /\ {MaxPeers, MaxPeersPerIp, Threshold, BanTime} \subseteq Nat \ {0}
  /\ {MaxTime, MaxTroubles} \subseteq Nat

Hosts == {HostOf[l] : l \in Links}
Ends  == Links \X {"out", "in"}

Peer(e)  == <<e[1], IF e[2] = "out" THEN "in" ELSE "out">>
Owner(e) == IF e[2] = "out" THEN Dialer[e[1]] ELSE Acceptor[e[1]]
Host(e)  == HostOf[e[1]]

VARIABLES
  now,
  task,        \* end -> how far its code has come (see TypeOK)
  connections, \* the ends that are registered and not closed
  greeted,     \* the ends whose HELLO is on the stream
  score,       \* end -> connection.score
  idScore,     \* node, node -> _scores by node ID, 0 when absent
  hostScore,   \* node, host -> _host_scores, 0 when absent
  bannedUntil, \* node, host -> _banned_until, 0 when absent
  byNodeId,    \* node, node -> the connection _by_node_id gives, or NoEnd
  lastBan,     \* node, host -> when the threshold was last reached, -1 before
  overlapped,  \* the pairs of a node and a peer that two tasks have served at once
  troubles     \* so many things have gone wrong

admissionVars == <<task, connections, greeted, byNodeId>>
scoreVars     == <<score, idScore, hostScore, bannedUntil, lastBan, overlapped>>
vars == <<now, admissionVars, scoreVars, troubles>>

Init ==
  /\ now = 0
  /\ task = [e \in Ends |-> "none"]
  /\ connections = {} /\ greeted = {}
  /\ score = [e \in Ends |-> 0]
  /\ idScore = [p \in Nodes \X Nodes |-> 0]
  /\ hostScore = [p \in Nodes \X Hosts |-> 0]
  /\ bannedUntil = [p \in Nodes \X Hosts |-> 0]
  /\ byNodeId = [p \in Nodes \X Nodes |-> NoEnd]
  /\ lastBan = [p \in Nodes \X Hosts |-> -1]
  /\ overlapped = {}
  /\ troubles = 0

(* One more thing goes wrong. *)
Trouble == troubles < MaxTroubles /\ troubles' = troubles + 1

-----------------------------------------------------------------------------
(* Limits and bans. *)

Open(n) == {e \in connections : Owner(e) = n}

Here(e) == <<Owner(e), Host(e)>>

BanExpired(e) == bannedUntil[Here(e)] # 0 /\ now >= bannedUntil[Here(e)]

(* _can_accept for the node and the host of e: a ban that has run out is
   forgotten with the host's score, whatever the limits then say. *)
ExpireBan(e) ==
  /\ bannedUntil' = IF BanExpired(e) THEN [bannedUntil EXCEPT ![Here(e)] = 0]
                                     ELSE bannedUntil
  /\ hostScore' = IF BanExpired(e) THEN [hostScore EXCEPT ![Here(e)] = 0]
                                   ELSE hostScore

CanAccept(e) ==
  /\ now >= bannedUntil[Here(e)]
  /\ Cardinality(Open(Owner(e))) < MaxPeers
  /\ Cardinality({x \in Open(Owner(e)) : Host(x) = Host(e)}) < MaxPeersPerIp

(* penalize, for one or more penalties of e in one step.  The score by node ID
   is kept only once HELLO has named the peer. *)
PeerOf(e) == <<Owner(e), Owner(Peer(e))>>

AtThreshold(e, points) ==
  \/ score[e] + points >= Threshold
  \/ hostScore[Here(e)] + points >= Threshold

(* A penalty during a ban that leaves the ban as it is. *)
PenalizeKeepBan(e, points) ==
  /\ score' = [score EXCEPT ![e] = @ + points]
  /\ hostScore' = [hostScore EXCEPT ![Here(e)] = @ + points]
  /\ idScore' = IF task[e] = "ready"
                  THEN [idScore EXCEPT ![PeerOf(e)] = score[e] + points] ELSE idScore
  /\ bannedUntil' = IF AtThreshold(e, points) /\ bannedUntil[Here(e)] = 0
                      THEN [bannedUntil EXCEPT ![Here(e)] = now + BanTime]
                      ELSE bannedUntil
  /\ lastBan' = IF AtThreshold(e, points)
                  THEN [lastBan EXCEPT ![Here(e)] = now] ELSE lastBan
  /\ UNCHANGED overlapped

Penalize(e, points) ==
  /\ score' = [score EXCEPT ![e] = @ + points]
  /\ hostScore' = [hostScore EXCEPT ![Here(e)] = @ + points]
  /\ idScore' = IF task[e] = "ready"
                  THEN [idScore EXCEPT ![PeerOf(e)] = score[e] + points] ELSE idScore
  /\ bannedUntil' = IF AtThreshold(e, points)
                      THEN [bannedUntil EXCEPT ![Here(e)] = now + BanTime]
                      ELSE bannedUntil
  /\ lastBan' = IF AtThreshold(e, points)
                  THEN [lastBan EXCEPT ![Here(e)] = now] ELSE lastBan
  /\ UNCHANGED overlapped

-----------------------------------------------------------------------------
(* Opening and closing a connection. *)

(* close: leaves the set, and the index when HELLO had put it there.  The task
   goes on until it notices, unless the task itself closes. *)
Close(e) ==
  /\ connections' = connections \ {e}
  /\ byNodeId' = IF byNodeId[PeerOf(e)] = e
                   THEN [byNodeId EXCEPT ![PeerOf(e)] = NoEnd] ELSE byNodeId

EndTask(e) == task' = [task EXCEPT ![e] = "done"] /\ Close(e)

(* connect, up to the await of open_connection. *)
Dial(l) ==
  LET e == <<l, "out">> IN
  /\ task[e] = "none"
  /\ ExpireBan(e)
  /\ task' = [task EXCEPT ![e] = IF CanAccept(e) THEN "dialling" ELSE "done"]
  /\ UNCHANGED <<now, connections, greeted, byNodeId, score, idScore, lastBan,
                 overlapped, troubles>>

(* The TCP connection is made; neither side's code has run yet. *)
Establish(l) ==
  /\ task[<<l, "out">>] = "dialling"
  /\ task' = [task EXCEPT ![<<l, "out">>] = "connected", ![<<l, "in">>] = "connected"]
  /\ UNCHANGED <<now, connections, greeted, byNodeId, scoreVars, troubles>>

(* The rest of connect up to its wait, and _accept: check again, then register
   the connection and start its task, or close the stream.  (Without the check
   after the await, several dials pass the one before it.) *)
RegisterUnchecked(e) ==
  /\ task[e] = "connected"
  /\ ExpireBan(e)
  /\ IF e[2] = "out" \/ CanAccept(e)
       THEN /\ task' = [task EXCEPT ![e] = "started"]
            /\ connections' = connections \cup {e}
       ELSE task' = [task EXCEPT ![e] = "done"] /\ UNCHANGED connections
  /\ UNCHANGED <<now, greeted, byNodeId, score, idScore, lastBan,
                 overlapped, troubles>>

Register(e) ==
  /\ task[e] = "connected"
  /\ ExpireBan(e)
  /\ IF CanAccept(e)
       THEN /\ task' = [task EXCEPT ![e] = "started"]
            /\ connections' = connections \cup {e}
       ELSE task' = [task EXCEPT ![e] = "done"] /\ UNCHANGED connections
  /\ UNCHANGED <<now, greeted, byNodeId, score, idScore, lastBan,
                 overlapped, troubles>>

(* _run's first step, on a connection nobody has closed meanwhile. *)
Greet(e) ==
  /\ task[e] = "started" /\ e \in connections
  /\ task' = [task EXCEPT ![e] = "greeted"]
  /\ greeted' = greeted \cup {e}
  /\ UNCHANGED <<now, connections, byNodeId, scoreVars, troubles>>

-----------------------------------------------------------------------------
(* The handshake. *)

(* The checks of _complete_handshake. *)
Duplicate(e) ==
  LET existing == byNodeId[PeerOf(e)] IN
  existing # NoEnd /\ existing # e /\ existing \in connections

Acceptable(e) ==
  /\ ChainOf[Owner(Peer(e))] = ChainOf[Owner(e)]
  /\ Owner(Peer(e)) # Owner(e)
  /\ ~Duplicate(e)

(* The peer's HELLO has been read, perhaps just before the connection was closed
   under its task. *)
HelloArrived(e) == task[e] = "greeted" /\ Peer(e) \in greeted

SameVersion(e) == VersionOf[Owner(Peer(e))] = VersionOf[Owner(e)]

(* A second task begins to serve a peer while the first one, its connection
   closed under it, still has frames in hand. *)
Overlaps(e) ==
  /\ e \in connections
  /\ \E x \in Ends \ {e} : task[x] = "ready" /\ PeerOf(x) = PeerOf(e)

RecordOverlap(e) ==
  overlapped' = IF Overlaps(e) THEN overlapped \cup {PeerOf(e)} ELSE overlapped

(* HELLO is accepted: the index names e, and the peer's old score returns; a
   task whose connection is closed by now ends, and its entry stays.  (A score
   that starts at zero would let a peer wash it off by redialling.) *)
CompleteHandshakeAfresh(e) ==
  /\ HelloArrived(e) /\ SameVersion(e) /\ Acceptable(e)
  /\ byNodeId' = [byNodeId EXCEPT ![PeerOf(e)] = e]
  /\ score' = [score EXCEPT ![e] = 0]
  /\ task' = [task EXCEPT ![e] = IF e \in connections THEN "ready" ELSE "done"]
  /\ RecordOverlap(e)
  /\ UNCHANGED <<now, connections, greeted, idScore, hostScore, bannedUntil,
                 lastBan, troubles>>

(* HELLO accepted without asking whether the node ID is already connected. *)
CompleteHandshakeTwice(e) ==
  /\ HelloArrived(e) /\ SameVersion(e)
  /\ ChainOf[Owner(Peer(e))] = ChainOf[Owner(e)]
  /\ byNodeId' = [byNodeId EXCEPT ![PeerOf(e)] = e]
  /\ score' = [score EXCEPT ![e] = idScore[PeerOf(e)]]
  /\ task' = [task EXCEPT ![e] = IF e \in connections THEN "ready" ELSE "done"]
  /\ RecordOverlap(e)
  /\ UNCHANGED <<now, connections, greeted, idScore, hostScore, bannedUntil,
                 lastBan, troubles>>

CompleteHandshake(e) ==
  /\ HelloArrived(e) /\ SameVersion(e) /\ Acceptable(e)
  /\ byNodeId' = [byNodeId EXCEPT ![PeerOf(e)] = e]
  /\ score' = [score EXCEPT ![e] = idScore[PeerOf(e)]]
  /\ task' = [task EXCEPT ![e] = IF e \in connections THEN "ready" ELSE "done"]
  /\ RecordOverlap(e)
  /\ UNCHANGED <<now, connections, greeted, idScore, hostScore, bannedUntil,
                 lastBan, troubles>>

(* HELLO is refused: 20 points, or the whole threshold for a frame of another
   version.  (A refusal that leaves the stream open keeps the peer waiting.) *)
HelloPoints(e) == IF SameVersion(e) THEN 2 ELSE Threshold

RefuseSilently(e) ==
  /\ HelloArrived(e) /\ ~(SameVersion(e) /\ Acceptable(e))
  /\ Penalize(e, HelloPoints(e))
  /\ task' = [task EXCEPT ![e] = "stuck"]
  /\ connections' = connections \ {e}
  /\ UNCHANGED <<now, greeted, byNodeId, troubles>>

RefuseHandshake(e) ==
  /\ HelloArrived(e) /\ ~(SameVersion(e) /\ Acceptable(e))
  /\ Penalize(e, HelloPoints(e))
  /\ EndTask(e)
  /\ UNCHANGED <<now, greeted, troubles>>

(* read_frame's timeout on HELLO: 20 points, even when
   HELLO is on its way. *)
HandshakeTimeout(e) ==
  /\ task[e] = "greeted" /\ e \in connections
  /\ Trouble
  /\ Penalize(e, 2)
  /\ EndTask(e)
  /\ UNCHANGED <<now, greeted>>

(* connect gives up waiting: it closes the connection under its task. *)
ConnectTimeout(e) ==
  /\ e[2] = "out" /\ task[e] \in {"started", "greeted"} /\ e \in connections
  /\ Trouble
  /\ Close(e)
  /\ UNCHANGED <<now, task, greeted, scoreVars>>

-----------------------------------------------------------------------------
(* After the handshake. *)

Costly(e) ==
  /\ task[e] = "ready"
  /\ Trouble

(* A frame whose handler penalises: an invalid transaction or an unknown
   locator (10 points), an invalid block (20).  Below the threshold the peer is
   told and stays; at the threshold penalize raises ProtocolError, which costs
   20 more and ends the task. *)
Misbehave(e, points) ==
  /\ Costly(e)
  /\ IF AtThreshold(e, points)
       THEN Penalize(e, points + 2) /\ EndTask(e)
       ELSE Penalize(e, points) /\ UNCHANGED <<task, connections, byNodeId>>
  /\ UNCHANGED <<now, greeted>>

(* A malformed frame, a second HELLO, a wrong PONG, a contradicted summary. *)
BreakProtocol(e) ==
  /\ Costly(e)
  /\ Penalize(e, 2)
  /\ EndTask(e)
  /\ UNCHANGED <<now, greeted>>

(* The rate limit: the whole threshold, and 20 for the error it raises. *)
ExceedRate(e) ==
  /\ Costly(e)
  /\ Penalize(e, Threshold + 2)
  /\ EndTask(e)
  /\ UNCHANGED <<now, greeted>>

(* A synchronisation without progress: 20 points, and the peer is dropped. *)
NoProgress(e) ==
  /\ Costly(e)
  /\ Penalize(e, IF AtThreshold(e, 2) THEN 4 ELSE 2)
  /\ EndTask(e)
  /\ UNCHANGED <<now, greeted>>

(* A relay that cannot be sent: _broadcast closes the connection under its task. *)
SendFails(e) ==
  /\ task[e] = "ready" /\ e \in connections
  /\ Trouble
  /\ Close(e)
  /\ UNCHANGED <<now, task, greeted, scoreVars>>

(* The stream breaks, a send fails in the task itself, a block cannot be stored
   or the keepalive is not answered: no points. *)
Lost(e) ==
  /\ task[e] \in {"started", "greeted", "ready"} /\ e \in connections
  /\ Trouble
  /\ EndTask(e)
  /\ UNCHANGED <<now, greeted, scoreVars>>

(* The task meets the end of the stream, its own or the peer's. *)
StreamEnded(e) ==
  \/ e \notin connections
  \/ task[Peer(e)] = "done"
  \/ task[Peer(e)] \in {"started", "greeted", "ready"} /\ Peer(e) \notin connections

ReadEnd(e) ==
  /\ task[e] \in {"started", "greeted", "ready"} /\ StreamEnded(e)
  /\ EndTask(e)
  /\ UNCHANGED <<now, greeted, scoreVars, troubles>>

(* The clock, which only bans read: it matters once one is recorded. *)
Tick ==
  /\ \E p \in Nodes \X Hosts : bannedUntil[p] # 0
  /\ now < MaxTime /\ now' = now + 1
  /\ UNCHANGED <<admissionVars, scoreVars, troubles>>

TaskStep(e) ==
  \/ Register(e) \/ Greet(e)
  \/ CompleteHandshake(e) \/ RefuseHandshake(e) \/ ReadEnd(e)

TroubledStep(e) ==
  \/ HandshakeTimeout(e) \/ ConnectTimeout(e)
  \/ \E points \in {1, 2} : Misbehave(e, points)
  \/ BreakProtocol(e) \/ ExceedRate(e) \/ NoProgress(e)
  \/ SendFails(e) \/ Lost(e)

Proceed == (\E l \in Links : Establish(l)) \/ (\E e \in Ends : TaskStep(e))

Next ==
  \/ Proceed
  \/ \E l \in Links : Dial(l)
  \/ \E e \in Ends : TroubledStep(e)
  \/ Tick

(* asyncio runs every ready task again and TCP delivers what it accepted.  A
   link and its two tasks take finitely many steps, so fairness to all of them
   together starves none.  No fairness of dials, of trouble or of the clock. *)
Spec == Init /\ [][Next]_vars /\ WF_vars(Proceed)

-----------------------------------------------------------------------------
TypeOK ==
  /\ now \in 0..MaxTime
  /\ task \in [Ends -> {"none", "dialling", "connected", "started", "greeted",
                        "ready", "done"}]
  /\ connections \subseteq {e \in Ends : task[e] \in {"started", "greeted", "ready"}}
  /\ greeted \subseteq {e \in Ends : task[e] \in {"greeted", "ready", "done"}}
  /\ score \in [Ends -> Nat]
  /\ idScore \in [Nodes \X Nodes -> Nat]
  /\ hostScore \in [Nodes \X Hosts -> Nat]
  /\ bannedUntil \in [Nodes \X Hosts -> 0..(MaxTime + BanTime)]
  /\ byNodeId \in [Nodes \X Nodes -> Ends \cup {NoEnd}]
  /\ lastBan \in [Nodes \X Hosts -> -1..MaxTime]
  /\ overlapped \subseteq Nodes \X Nodes
  /\ troubles \in 0..MaxTroubles

(* However dials, accepts and closes interleave, a node never holds more
   connections than its limits: connect's first check is stale by the time the
   dial is through (PeerLimits; connect, _accept). *)
LimitsHold ==
  \A n \in Nodes :
    /\ Cardinality(Open(n)) <= MaxPeers
    /\ \A h \in Hosts : Cardinality({e \in Open(n) : Host(e) = h}) <= MaxPeersPerIp

(* Closed entries apart, the index by node ID names exactly the open connections
   that finished their handshake, so there is at most one per peer, even when
   nodes dial each other at the same time, refused duplicates are closed and a
   HELLO is read on a connection closed meanwhile (_by_node_id). *)
ReadyEnds(p) == {e \in connections : task[e] = "ready" /\ PeerOf(e) = p}

IdIndexExact ==
  \A p \in Nodes \X Nodes :
    ReadyEnds(p) = {byNodeId[p]} \cap connections

(* A host whose score has reached the threshold has a ban, running or still to
   expire: no expiry may leave the score behind without one, or the first
   small offence after it would ban again (_can_accept, penalize). *)
OverThresholdIsBanned ==
  \A p \in Nodes \X Hosts : hostScore[p] >= Threshold => bannedUntil[p] # 0

(* After the threshold was reached, also by connections that outlived an
   earlier ban of their host, no connection of the host is registered for the
   whole ban, not even one whose dial was already under way (_can_accept). *)
BanHonoured ==
  [][\A e \in connections' \ connections :
       lastBan[Here(e)] # -1 => now >= lastBan[Here(e)] + BanTime]_vars

(* What a node has held against a node ID is not forgotten by redialling: the
   score by ID never decreases as long as no two tasks have served the peer at
   once.  (Two do overwrite each other's score, when the peer redials while a
   task whose connection was closed under it still has its frames in hand: _run
   restores the score when HELLO is accepted, penalize overwrites it.) *)
MisbehaviourRemembered ==
  [][\A p \in (Nodes \X Nodes) \ overlapped : idScore'[p] >= idScore[p]]_vars

(* The two ends of a link come to agree: in the end every link that was
   dialled is ready on both sides or closed on both sides, also when both
   nodes refuse each other's link as the duplicate (_complete_handshake). *)
BothReady(l)  == \A e \in {<<l, "out">>, <<l, "in">>} : task[e] = "ready" /\ e \in connections
BothClosed(l) == task[<<l, "out">>] = "done" /\ task[<<l, "in">>] \in {"none", "done"}

EndsAgree ==
  <>[](\A l \in Links :
         task[<<l, "out">>] = "none" \/ BothReady(l) \/ BothClosed(l))
=============================================================================
