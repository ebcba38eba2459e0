------------------------------ MODULE PeerSync -----------------------------
(***************************************************************************)
(* How the nodes of p2p.py learn each other's blocks: the HELLO exchange,  *)
(* the GET_BLOCKS / BLOCK / SYNC_COMPLETE exchange with its bounded        *)
(* batches and its no-progress rule, and the relay of new blocks.          *)
(*                                                                         *)
(* Every connection has two ends, each served by one task (_run) that      *)
(* handles one frame at a time; sending may suspend the task, so a batch   *)
(* leaves frame by frame while other tasks mine, accept and relay.  A pair *)
(* of nodes holds at most one connection at a time; wire[n][m] is the TCP  *)
(* stream from n to m, which loses nothing until it is closed.             *)
(*                                                                         *)
(* A block is its own hash.  All nodes are correct and run the same rules  *)
(* (Chain's VerdictIsLocal), so a block of Blocks is accepted wherever its *)
(* parent is known, and a summary is just the tip it describes.            *)
(***************************************************************************)
EXTENDS Integers, FiniteSets, SequencesExt

CONSTANTS
  Nodes, NoNode,
  Genesis, NoBlock,
  Blocks,                 \* the other blocks that exist or may be mined
  Parent,                 \* block -> its previous_hash
  Work,                   \* block -> its cumulative work
  Networks,               \* where a behaviour may start (see Network)
  MaxBlocksPerResponse,   \* MAX_BLOCKS_PER_RESPONSE, 128
  LocatorDense,           \* locator entries before it turns sparse, 10
  LocatorMax              \* locator entries besides genesis, 63

(* The blocks each node loads from disk, the blocks it may mine, the pairs
   <<n, m>> such that n is told to connect to m, and two bounds: connections
   opened and connections lost. *)
Network ==
  [loads : [Nodes -> SUBSET Blocks], mines : [Nodes -> SUBSET Blocks],
   contacts : SUBSET {p \in Nodes \X Nodes : p[1] # p[2]}, maxDials : Nat, maxDrops : Nat]

ASSUME PeerSyncAssumption ==
  /\ NoNode \notin Nodes
  /\ Genesis \notin Blocks /\ NoBlock \notin Blocks \cup {Genesis}
  /\ Parent \in [Blocks -> Blocks \cup {Genesis}]
  /\ Work \in [Blocks \cup {Genesis} -> Nat \ {0}]
  /\ \A b \in Blocks : Work[b] > Work[Parent[b]]
  /\ Networks \subseteq Network
  /\ {MaxBlocksPerResponse, LocatorDense, LocatorMax} \subseteq Nat \ {0}

AllBlocks == Blocks \cup {Genesis}
Pairs == {p \in Nodes \X Nodes : p[1] # p[2]}

VARIABLES
  network,   \* the member of Networks it started from
  known,     \* node -> blocks in its chain
  tip,       \* node -> its active tip
  phase,     \* n, m -> state of n's end: "closed", "started", "greeted", "ready"
  peerTip,   \* n, m -> the tip of connection.hello, NoBlock before HELLO
  request,   \* n, m -> the outstanding block request of n's end, or NoRequest
  batch,     \* n, m -> what the task of n's end has still to send: blocks of a
             \*         response to m, and whether a response is being sent
  relay,     \* n, m -> relayed blocks waiting for n's end, with the neighbour
             \*         whose frame is being handled (NoNode: mined here)
  wire,      \* n, m -> frames on their way from n to m
  penalized, \* the pairs <<n, m>> such that n scored misconduct against m
  dials, drops

chainVars == <<known, tip>>
boundVars == <<network, dials, drops>>
vars == <<network, known, tip, phase, peerTip, request, batch, relay, wire, penalized,
          dials, drops>>

NoRequest == [outstanding |-> FALSE, accepted |-> 0, startWork |-> 0]
NoBatch   == [active |-> FALSE, blocks |-> <<>>]

HelloFrame(b)        == [type |-> "HELLO", tip |-> b]
GetBlocksFrame(l)    == [type |-> "GET_BLOCKS", locator |-> l]
BlockFrame(b)        == [type |-> "BLOCK", block |-> b]
SyncCompleteFrame(b) == [type |-> "SYNC_COMPLETE", tip |-> b]
EndOfStream          == [type |-> "EOF"]

(* active_chain: the blocks from genesis to b. *)
Branch[b \in AllBlocks] ==
  IF b = Genesis THEN <<b>> ELSE Append(Branch[Parent[b]], b)

Heaviest(S) == {b \in S : \A c \in S : Work[c] <= Work[b]}

Init ==
  /\ network \in Networks
  /\ known = [n \in Nodes |-> network.loads[n] \cup {Genesis}]
  /\ tip \in [Nodes -> AllBlocks]
  /\ \A n \in Nodes : tip[n] \in Heaviest(known[n])
  /\ phase   = [p \in Pairs |-> "closed"]
  /\ peerTip = [p \in Pairs |-> NoBlock]
  /\ request = [p \in Pairs |-> NoRequest]
  /\ batch   = [p \in Pairs |-> NoBatch]
  /\ relay   = [p \in Pairs |-> <<>>]
  /\ wire    = [p \in Pairs |-> <<>>]
  /\ penalized = {}
  /\ dials = 0 /\ drops = 0

-----------------------------------------------------------------------------
(* The chain of a node. *)

(* Chain.add_block, by fork choice: b becomes the tip when strictly heavier. *)
Accept(n, b) ==
  /\ known' = [known EXCEPT ![n] = @ \cup {b}]
  /\ tip' = [tip EXCEPT ![n] = IF Work[b] > Work[@] THEN b ELSE @]

LocalWork(n) == Work[tip[n]]

(* _broadcast's targets: every greeted connection of n but the excluded one. *)
Targets(n, except) ==
  {p \in Pairs : p[1] = n /\ p[2] # except /\ phase[p] = "ready"}

(* The sends that gather starts for b, on behalf of the task via.  (A relay
   whose targets include the sender of b would echo every block.) *)
Broadcast(n, b, via) ==
  relay' = [p \in Pairs |->
              IF p \in Targets(n, via)
                THEN Append(relay[p], [block |-> b, via |-> via]) ELSE relay[p]]

-----------------------------------------------------------------------------
(* Ends of a connection. *)

(* The stream after n writes frames to m: lost when m's end is gone. *)
Written(w, n, m, frames) ==
  IF phase[<<m, n>>] = "closed" THEN w ELSE [w EXCEPT ![<<n, m>>] = @ \o frames]

(* close: n's end goes, what m sent is dropped, m will read the end. *)
ClosedEnd(w, n, m) ==
  [Written(w, n, m, <<EndOfStream>>) EXCEPT ![<<m, n>>] = <<>>]

Close(n, m, w) ==
  /\ phase'   = [phase   EXCEPT ![<<n, m>>] = "closed"]
  /\ peerTip' = [peerTip EXCEPT ![<<n, m>>] = NoBlock]
  /\ request' = [request EXCEPT ![<<n, m>>] = NoRequest]
  /\ batch'   = [batch   EXCEPT ![<<n, m>>] = NoBatch]
  /\ relay'   = [relay   EXCEPT ![<<n, m>>] = <<>>]
  /\ wire'    = ClosedEnd(w, n, m)

(* _block_locator: the branch of b from its tip, doubling the step once
   LocatorDense entries are taken, and genesis last (or, wrongly, first). *)
SparseAncestors(b) ==
  LET active == Branch[b]
      walk[i \in 0..LocatorMax] ==
        IF i = 0 THEN [at |-> Len(active), step |-> 1, hashes |-> <<>>]
        ELSE LET w == walk[i - 1]
                 s == IF i >= LocatorDense THEN 2 * w.step ELSE w.step
             IN  IF w.at <= 1 THEN w
                 ELSE [at     |-> IF w.at > s THEN w.at - s ELSE 1,
                       step   |-> s,
                       hashes |-> Append(w.hashes, active[w.at])]
  IN  walk[LocatorMax].hashes

LocatorGenesisFirst(b) == <<Genesis>> \o SparseAncestors(b)
Locator(b) == Append(SparseAncestors(b), Genesis)

(* The rule of begin_block_request, and a requester that ignores it. *)
MayRequestAgain(n, m) == TRUE
MayRequest(n, m) == ~request[n, m].outstanding

(* _request_blocks at n's end: the request it notes and the frame it sends
   (SilentRequest notes a request that never leaves). *)
Requested(n, m) ==
  IF MayRequest(n, m)
    THEN [outstanding |-> TRUE, accepted |-> 0, startWork |-> LocalWork(n)]
    ELSE request[n, m]

SilentRequest(n, m) == <<>>
RequestFrames(n, m) ==
  IF MayRequest(n, m) THEN <<GetBlocksFrame(Locator(tip[n]))>> ELSE <<>>

-----------------------------------------------------------------------------
(* Actions. *)

(* mine_and_broadcast: a new block on the tip.  The targets are computed
   before the task first suspends. *)
Mine(n) ==
  /\ \E b \in network.mines[n] :
       /\ Parent[b] = tip[n]
       /\ \A o \in Nodes : b \notin known[o]
       /\ Accept(n, b)
       /\ Broadcast(n, b, NoNode)
  /\ UNCHANGED <<phase, peerTip, request, batch, wire, penalized, boundVars>>

(* connect at n and _accept at m: both ends get their task. *)
Dial(n, m) ==
  /\ <<n, m>> \in network.contacts
  /\ phase[n, m] = "closed" /\ phase[m, n] = "closed"
  /\ dials < network.maxDials
  /\ dials' = dials + 1
  /\ phase' = [phase EXCEPT ![<<n, m>>] = "started", ![<<m, n>>] = "started"]
  /\ UNCHANGED <<chainVars, peerTip, request, batch, relay, wire, penalized, network, drops>>

(* _run: HELLO with the chain's current tip. *)
Greet(n, m) ==
  /\ phase[n, m] = "started"
  /\ phase' = [phase EXCEPT ![<<n, m>>] = "greeted"]
  /\ wire' = Written(wire, n, m, <<HelloFrame(tip[n])>>)
  /\ UNCHANGED <<chainVars, peerTip, request, batch, relay, penalized, boundVars>>

(* n's end takes the next frame of the given type off the stream from m. *)
Arrived(n, m, type) == wire[m, n] # <<>> /\ Head(wire[m, n]).type = type
Taken(n, m) == [wire EXCEPT ![<<m, n>>] = Tail(@)]

(* _run: the peer's HELLO, _complete_handshake, and the first request. *)
ReceiveHello(n, m) ==
  /\ phase[n, m] = "greeted"
  /\ Arrived(n, m, "HELLO")
  /\ LET b      == Head(wire[m, n]).tip
         behind == Work[b] > LocalWork(n)
     IN  /\ phase' = [phase EXCEPT ![<<n, m>>] = "ready"]
         /\ peerTip' = [peerTip EXCEPT ![<<n, m>>] = b]
         /\ request' = [request EXCEPT ![<<n, m>>] = IF behind THEN Requested(n, m) ELSE @]
         /\ wire' = Written(Taken(n, m), n, m,
                            IF behind THEN RequestFrames(n, m) ELSE <<>>)
  /\ UNCHANGED <<chainVars, batch, relay, penalized, boundVars>>

(* The task of n's end is reading: no response and no relay keeps it. *)
Reading(n, m) ==
  /\ phase[n, m] = "ready"
  /\ ~batch[n, m].active
  /\ \A p \in Pairs : p[1] = n => \A i \in DOMAIN relay[p] : relay[p][i].via # m

(* The part of active that follows the first locator entry on it. *)
CommonIndex(active, locator) ==
  LET common == {i \in DOMAIN locator : \E k \in DOMAIN active : active[k] = locator[i]}
      first  == CHOOSE i \in common : \A j \in common : i <= j
  IN  CHOOSE k \in DOMAIN active : active[k] = locator[first]

(* The response. *)
BatchFor(b, locator) ==
  LET active == Branch[b]
      common == CommonIndex(active, locator)
      last   == common + MaxBlocksPerResponse
  IN  SubSeq(active, common + 1, IF last < Len(active) THEN last ELSE Len(active))

(* _send_blocks up to its first send; an empty response is only a summary. *)
HandleGetBlocks(n, m) ==
  /\ Reading(n, m)
  /\ Arrived(n, m, "GET_BLOCKS")
  /\ LET blocks == BatchFor(tip[n], Head(wire[m, n]).locator)
     IN  IF blocks = <<>>
           THEN /\ wire' = Written(Taken(n, m), n, m, <<SyncCompleteFrame(tip[n])>>)
                /\ UNCHANGED batch
           ELSE /\ wire' = Taken(n, m)
                /\ batch' = [batch EXCEPT ![<<n, m>>] = [active |-> TRUE, blocks |-> blocks]]
  /\ UNCHANGED <<chainVars, phase, peerTip, request, relay, penalized, boundVars>>

(* _send_blocks: the next block of the snapshot taken at the start ... *)
SendBatchBlock(n, m) ==
  /\ batch[n, m].active /\ batch[n, m].blocks # <<>>
  /\ wire' = Written(wire, n, m, <<BlockFrame(Head(batch[n, m].blocks))>>)
  /\ batch' = [batch EXCEPT ![<<n, m>>].blocks = Tail(@)]
  /\ UNCHANGED <<chainVars, phase, peerTip, request, relay, penalized, boundVars>>

(* ... and the summary of the chain as it is after the last one. *)
SendSummary(n, m) ==
  /\ batch[n, m].active /\ batch[n, m].blocks = <<>>
  /\ wire' = Written(wire, n, m, <<SyncCompleteFrame(tip[n])>>)
  /\ batch' = [batch EXCEPT ![<<n, m>>] = NoBatch]
  /\ UNCHANGED <<chainVars, phase, peerTip, request, relay, penalized, boundVars>>

(* chain.contains, and a node that takes every block for news. *)
NeverHolds(n, b) == FALSE
ChainHolds(n, b) == b \in known[n]

(* note_accepted_block *)
Noted(n, m) ==
  [request EXCEPT ![<<n, m>>].accepted = IF request[n, m].outstanding THEN @ + 1 ELSE @]

(* _handle_block *)
HandleBlock(n, m) ==
  /\ Reading(n, m)
  /\ Arrived(n, m, "BLOCK")
  /\ LET b == Head(wire[m, n]).block
     IN  \/ /\ ChainHolds(n, b)
            /\ wire' = Taken(n, m)
            /\ UNCHANGED <<chainVars, request, relay>>
         \/ /\ ~ChainHolds(n, b) /\ Parent[b] \notin known[n]
            /\ request' = [request EXCEPT ![<<n, m>>] = Requested(n, m)]
            /\ wire' = Written(Taken(n, m), n, m, RequestFrames(n, m))
            /\ UNCHANGED <<chainVars, relay>>
         \/ /\ ~ChainHolds(n, b) /\ Parent[b] \in known[n]
            /\ Accept(n, b)
            /\ request' = Noted(n, m)
            /\ Broadcast(n, b, m)
            /\ wire' = Taken(n, m)
  /\ UNCHANGED <<phase, peerTip, batch, penalized, boundVars>>

(* What _handle_sync_complete holds against m: work that moved backwards, or
   a claim of higher work after a request that brought nothing. *)
NoProgress(n, m, b) ==
  /\ Work[b] > LocalWork(n)
  /\ request[n, m].outstanding
  /\ request[n, m].accepted = 0
  /\ LocalWork(n) <= request[n, m].startWork

MovedBackwards(n, m, b) == Work[b] < Work[peerTip[n, m]]

(* _handle_sync_complete *)
HandleSyncComplete(n, m) ==
  /\ Reading(n, m)
  /\ Arrived(n, m, "SYNC_COMPLETE")
  /\ LET b == Head(wire[m, n]).tip
     IN  \/ /\ MovedBackwards(n, m, b) \/ NoProgress(n, m, b)
            /\ penalized' = penalized \cup {<<n, m>>}
            /\ Close(n, m, Taken(n, m))
         \/ /\ ~MovedBackwards(n, m, b) /\ ~NoProgress(n, m, b)
            /\ peerTip' = [peerTip EXCEPT ![<<n, m>>] = b]
            /\ IF Work[b] <= LocalWork(n)
                 THEN /\ request' = [request EXCEPT ![<<n, m>>] = NoRequest]
                      /\ wire' = Taken(n, m)
                 ELSE /\ request' = [request EXCEPT ![<<n, m>>] =
                           [outstanding |-> TRUE, accepted |-> 0,
                            startWork |-> LocalWork(n)]]
                      /\ wire' = Written(Taken(n, m), n, m,
                                         <<GetBlocksFrame(Locator(tip[n]))>>)
            /\ UNCHANGED <<phase, batch, relay, penalized>>
  /\ UNCHANGED <<chainVars, boundVars>>

(* One of the sends of _broadcast gets its turn. *)
SendRelay(n, m) ==
  /\ relay[n, m] # <<>>
  /\ wire' = Written(wire, n, m, <<BlockFrame(Head(relay[n, m]).block)>>)
  /\ relay' = [relay EXCEPT ![<<n, m>>] = Tail(@)]
  /\ UNCHANGED <<chainVars, phase, peerTip, request, batch, penalized, boundVars>>

(* read_frame finds the end of the stream. *)
HangUp(n, m) ==
  /\ phase[n, m] = "greeted" \/ Reading(n, m)
  /\ Arrived(n, m, "EOF")
  /\ Close(n, m, wire)
  /\ UNCHANGED <<chainVars, penalized, boundVars>>

(* n's end goes for a reason of its own: a write that timed out, a full
   queue of sends, a StorageError, a lost socket. *)
Drop(n, m) ==
  /\ phase[n, m] # "closed"
  /\ drops < network.maxDrops
  /\ drops' = drops + 1
  /\ Close(n, m, wire)
  /\ UNCHANGED <<chainVars, penalized, network, dials>>

(* The steps the event loop takes by itself. *)
Serve(n, m) ==
  \/ Greet(n, m)
  \/ ReceiveHello(n, m)
  \/ HandleGetBlocks(n, m)
  \/ SendBatchBlock(n, m)
  \/ SendSummary(n, m)
  \/ HandleBlock(n, m)
  \/ HandleSyncComplete(n, m)
  \/ HangUp(n, m)

Next ==
  \/ \E n \in Nodes : Mine(n)
  \/ \E p \in Pairs :
       \/ Dial(p[1], p[2])
       \/ Serve(p[1], p[2])
       \/ SendRelay(p[1], p[2])
       \/ Drop(p[1], p[2])

Spec == Init /\ [][Next]_vars

(* The event loop runs every task that can run, and TCP delivers what was
   written; nobody is obliged to mine, to dial or to fail. *)
FairSpec ==
  /\ Spec
  /\ \A p \in Pairs : WF_vars(Serve(p[1], p[2])) /\ WF_vars(SendRelay(p[1], p[2]))

-----------------------------------------------------------------------------
(* Properties. *)

Frames ==
  [type : {"HELLO", "SYNC_COMPLETE"}, tip : AllBlocks]
  \cup [type : {"BLOCK"}, block : Blocks]
  \cup [type : {"GET_BLOCKS"}, locator : Seq(AllBlocks)]
  \cup {EndOfStream}

(* Every variable has its type. *)
TypeOK ==
  /\ known \in [Nodes -> SUBSET AllBlocks]
  /\ tip \in [Nodes -> AllBlocks]
  /\ phase \in [Pairs -> {"closed", "started", "greeted", "ready"}]
  /\ peerTip \in [Pairs -> AllBlocks \cup {NoBlock}]
  /\ request \in [Pairs -> [outstanding : BOOLEAN, accepted : Nat, startWork : Nat]]
  /\ batch \in [Pairs -> [active : BOOLEAN, blocks : Seq(Blocks)]]
  /\ relay \in [Pairs -> Seq([block : Blocks, via : Nodes \cup {NoNode}])]
  /\ wire \in [Pairs -> Seq(Frames)]
  /\ penalized \subseteq Pairs
  /\ dials \in 0..network.maxDials /\ drops \in 0..network.maxDrops

Count(n, m, type) == Cardinality({i \in DOMAIN wire[n, m] : wire[n, m][i].type = type})

(* While both ends of a connection are up, a request is outstanding at n
   exactly while its GET_BLOCKS is on the way to m, m is responding, or m's
   SYNC_COMPLETE is on the way back, and only one of these is the case: at
   most one request per connection, and none that will never be answered
   (begin_block_request, _send_blocks, finish_block_request). *)
RequestAccounted ==
  \A p \in Pairs :
    LET n == p[1]  m == p[2] IN
    phase[n, m] # "closed" /\ phase[m, n] # "closed" =>
      Count(n, m, "GET_BLOCKS") + (IF batch[m, n].active THEN 1 ELSE 0)
        + Count(m, n, "SYNC_COMPLETE")
      = (IF request[n, m].outstanding THEN 1 ELSE 0)

(* The first batch, past the last common block, of the branch m now claims. *)
NextBatch(n, m) ==
  LET theirs == Branch[Head(wire[m, n]).tip]
      shared == {k \in DOMAIN theirs : theirs[k] \in Range(Branch[tip[n]])}
  IN  SubSeq(theirs, Max(shared) + 1, Min({Max(shared) + MaxBlocksPerResponse, Len(theirs)}))

(* Every claim here is true.  The backwards rule never hits one, and, where all
   blocks add the same work, the no-progress rule only one whose branch leaves
   n's so early that a whole batch of it does not outweigh what n has
   (_handle_sync_complete). *)
OnlyDeepForksPenalized ==
  [][\A p \in penalized' \ penalized :
       Work[Last(NextBatch(p[1], p[2]))] <= LocalWork(p[1])]_vars

(* n knows, from HELLO or SYNC_COMPLETE, that m has more work. *)
ToldBehind(n, m) == peerTip[n, m] # NoBlock /\ Work[peerTip[n, m]] > LocalWork(n)

(* A node that has been told that its peer has more work does not stay
   behind that claim: it reaches it or loses the connection. *)
AdvertisedWorkReached ==
  \A p \in Pairs : ToldBehind(p[1], p[2]) ~> ~ToldBehind(p[1], p[2])

(* The same, but the only way out is to have that much work: a longer
   remote fork is downloaded and becomes the local chain. *)
LongerForkDownloaded ==
  \A p \in Pairs, w \in {Work[b] : b \in Blocks} :
    (ToldBehind(p[1], p[2]) /\ Work[peerTip[p]] = w) ~> (LocalWork(p[1]) >= w)

(* A block heavier than all that m has is on its way from n to m. *)
HeavierSent(n, m) ==
  \/ \E i \in DOMAIN relay[n, m] : Work[relay[n, m][i].block] > LocalWork(m)
  \/ \E i \in DOMAIN wire[n, m] :
       wire[n, m][i].type = "BLOCK" /\ Work[wire[n, m][i].block] > LocalWork(m)

(* A heavier block sent to m is not lost on m: m reaches its work even when
   it lacks the parent and has to ask, and even when it may not ask because
   a request is outstanding; or the connection is lost. *)
SentWorkReached ==
  \A p \in Pairs :
    HeavierSent(p[1], p[2]) ~>
      (LocalWork(p[2]) >= LocalWork(p[1]) \/ phase[p[2], p[1]] = "closed")

(* Nothing is on its way and no task has anything left to do. *)
Quiet == \A p \in Pairs : /\ wire[p] = <<>> /\ relay[p] = <<>>
                          /\ ~batch[p].active /\ ~request[p].outstanding

(* Relay and synchronization end by themselves: blocks do not go round in
   circles, and a peer that stays ahead is not asked for ever. *)
Settles == <>[]Quiet
=============================================================================
