------------------------------- MODULE TxRelay -----------------------------
(***************************************************************************)
(* Several LocalNodes joined by the peer service: wallets submit and       *)
(* broadcast transactions, nodes mine and broadcast blocks, and every node *)
(* relays what it accepts (p2p.py's _handle_transaction, _handle_block and *)
(* _broadcast over Node, the model of node.py).                            *)
(*                                                                         *)
(* Connections are as PeerAdmission leaves them, ready at both ends, and   *)
(* their streams keep the order in which frames are written.  The part of  *)
(* PeerSync needed here is kept small: a node that joins, meets a block    *)
(* whose parent it lacks, or reads a summary of more work than its own is  *)
(* sent the blocks it misses one frame at a time and a summary, with       *)
(* relayed frames in between; the request itself is not a frame.           *)
(***************************************************************************)
EXTENDS BlockTree, Mempool

CONSTANTS
  Nodes,
  WalletAt,        \* node -> the addresses whose wallets are used there
  MinersAt,        \* node -> the addresses it mines for
  Txs,             \* the transactions wallets may sign
  Networks         \* the networks a behaviour may run on (see Network)

(* linked: the pairs connected from the start; mayJoin: the pairs <<n, m>> such
   that n may dial m later; txs: the transactions signed; maxHeight: no node
   mines above it. *)
Network ==
  [linked : SUBSET (Nodes \X Nodes), mayJoin : SUBSET (Nodes \X Nodes),
   txs : SUBSET Txs, maxHeight : Nat]

ASSUME TxRelayAssumption ==
  /\ DOMAIN WalletAt = Nodes /\ DOMAIN MinersAt = Nodes
  /\ Networks \subseteq Network
  /\ \A net \in Networks : \A p \in net.linked :
       <<p[2], p[1]>> \in net.linked /\ p[1] # p[2]

VARIABLES
  network,         \* the network of this behaviour, which never changes
  chain, pool,     \* node -> LocalNode.chain, LocalNode.mempool
  links,           \* the ordered pairs of connected nodes
  batch,           \* n, m -> what n has still to send in a response to m:
                   \*         blocks and, last, the place of the summary
  wire,            \* n, m -> the frames on their way from n to m
  penalized        \* <<n, m, what>>: n charged m ten points or more for what

vars == <<network, chain, pool, links, batch, wire, penalized>>

Pairs == {p \in Nodes \X Nodes : p[1] # p[2]}

(* The LocalNode of n. *)
At(n) == INSTANCE Node WITH
  chain <- chain[n], pool <- pool[n], Miners <- MinersAt[n], Blocks <- {}, MaxHeight <- 0,
  BlockLimits <- {MaxBlockTransactions}, MineDelays <- {TargetBlockSeconds}

TxFrame(tx)   == [type |-> "TRANSACTION", tx |-> tx]
BlockFrame(b) == [type |-> "BLOCK", block |-> b]
SyncFrame(b)  == [type |-> "SYNC_COMPLETE", block |-> b]

Init ==
  /\ chain = [n \in Nodes |-> EmptyChain]
  /\ pool = [n \in Nodes |-> EmptyPool]
  /\ network \in Networks /\ links = network.linked
  /\ batch = [p \in Pairs |-> <<>>]
  /\ wire = [p \in Pairs |-> <<>>]
  /\ penalized = {}

-----------------------------------------------------------------------------
(* _broadcast: the frame goes to every connected peer but the excluded one,
   behind what was written before.  (A node that announces only what is its own.) *)
BroadcastNoRelay(n, frame, except, w) ==
  [p \in Pairs |-> IF p[1] = n /\ p \in links /\ except = n
                     THEN Append(w[p], frame) ELSE w[p]]

Broadcast(n, frame, except, w) ==
  [p \in Pairs |-> IF p[1] = n /\ p \in links /\ p[2] # except
                     THEN Append(w[p], frame) ELSE w[p]]

(* send and broadcast_transaction on node n. *)
Transfer(n, tx) ==
  LET next == NextNonce(pool[n], At(n)!state, tx.sender) IN
  /\ tx.sender \in WalletAt[n] /\ next.ok /\ tx.nonce = next.nonce
  /\ Admits(pool[n], At(n)!state, tx, At(n)!NextHeight)
  /\ pool' = [pool EXCEPT ![n] = Insert(@, tx)]
  /\ wire' = Broadcast(n, TxFrame(tx), n, wire)
  /\ UNCHANGED <<network, chain, links, batch, penalized>>

(* LocalNode.submit_block on a block it accepts. *)
AcceptBlock(n, b) ==
  LET update == UpdateFor(chain[n], b)
      added  == AddBlock(chain[n], b)
  IN  /\ chain' = [chain EXCEPT ![n] = added]
      /\ pool' = IF update.becameActive
                   THEN [pool EXCEPT ![n] = At(n)!Reconcile(@, added, update)] ELSE pool

(* mine_and_broadcast *)
MineAndBroadcast(n, miner) ==
  LET template == At(n)!Template(miner, MaxBlockTransactions, TargetBlockSeconds) IN
  /\ At(n)!NextHeight <= network.maxHeight
  /\ template.ok
  /\ AcceptBlock(n, template.block)
  /\ wire' = Broadcast(n, BlockFrame(template.block), n, wire)
  /\ UNCHANGED <<network, links, batch, penalized>>

-----------------------------------------------------------------------------
(* Frames. *)

Received(m, n, type) ==
  /\ <<m, n>> \in Pairs /\ wire[<<m, n>>] # <<>>
  /\ Head(wire[<<m, n>>]).type = type

WithoutHead(m, n) == [wire EXCEPT ![<<m, n>>] = Tail(@)]

(* The refusals of Mempool.add whose message says "already": the transaction,
   or another one in its place, is there. *)
AlreadyThere(p, st, tx, height) ==
  /\ HasRoom(p) /\ ValidTransaction(tx, height)
  /\ tx \in st.confirmed \/ <<tx.sender, tx.nonce>> \in DOMAIN p.index

(* The two lookups before the submission; a pool that relies on the "already"
   of its errors instead charges for a known transaction when it is full. *)
NeverKnown(n, tx) == FALSE
KnownTx(n, tx) == tx \in pool[n].txs \/ tx \in At(n)!state.confirmed

(* _handle_transaction *)
HandleTransaction(n, m) ==
  /\ Received(m, n, "TRANSACTION")
  /\ LET tx      == Head(wire[<<m, n>>]).tx
         Refused == ~AlreadyThere(pool[n], At(n)!state, tx, At(n)!NextHeight)
     IN
     \/ /\ ~KnownTx(n, tx) /\ Admits(pool[n], At(n)!state, tx, At(n)!NextHeight)
        /\ pool' = [pool EXCEPT ![n] = Insert(@, tx)]
        /\ wire' = Broadcast(n, TxFrame(tx), m, WithoutHead(m, n))
        /\ UNCHANGED penalized
     \/ /\ KnownTx(n, tx) \/ ~Admits(pool[n], At(n)!state, tx, At(n)!NextHeight)
        /\ wire' = WithoutHead(m, n)
        /\ penalized' = IF ~KnownTx(n, tx) /\ Refused
                          THEN penalized \cup {<<n, m, tx>>} ELSE penalized
        /\ UNCHANGED pool
  /\ UNCHANGED <<network, chain, links, batch>>

(* The blocks of m's active chain that n does not have, oldest first. *)
Missing(m, n) ==
  SelectSeq(Branch(chain[m].entries, chain[m].tip), LAMBDA b : b \notin Known(chain[n]))

WorkOf(n) == TipEntry(chain[n]).work

(* _request_blocks: m will send what n misses and then its summary, unless a
   response is on its way already. *)
Outstanding(n, m) ==
  \/ batch[<<m, n>>] # <<>>
  \/ \E i \in DOMAIN wire[<<m, n>>] : wire[<<m, n>>][i].type = "SYNC_COMPLETE"

Response(m, n) == Append(Missing(m, n), NoBlock)

(* _handle_sync_complete *)
HandleSyncComplete(n, m) ==
  /\ Received(m, n, "SYNC_COMPLETE")
  /\ wire' = WithoutHead(m, n)
  /\ LET claimed == chain[m].entries[Head(wire[<<m, n>>]).block].work IN
     batch' = IF claimed > WorkOf(n)
                THEN [batch EXCEPT ![<<m, n>>] = Response(m, n)] ELSE batch
  /\ UNCHANGED <<network, chain, pool, links, penalized>>

(* _handle_block.  A block without its parent is dropped, and what n misses is
   requested. *)
HandleBlock(n, m) ==
  /\ Received(m, n, "BLOCK")
  /\ LET b       == Head(wire[<<m, n>>]).block
         outcome == AddOutcome(chain[n], b)
     IN
     \/ /\ b \notin Known(chain[n]) /\ outcome = "accepted"
        /\ AcceptBlock(n, b)
        /\ wire' = Broadcast(n, BlockFrame(b), m, WithoutHead(m, n))
        /\ UNCHANGED <<batch, penalized>>
     \/ /\ b \in Known(chain[n]) \/ outcome # "accepted"
        /\ wire' = WithoutHead(m, n)
        /\ batch' = IF b \notin Known(chain[n]) /\ b.prev \notin Known(chain[n])
                         /\ ~Outstanding(n, m)
                      THEN [batch EXCEPT ![<<m, n>>] = Response(m, n)] ELSE batch
        /\ penalized' = IF b \notin Known(chain[n]) /\ b.prev \in Known(chain[n])
                          THEN penalized \cup {<<n, m, b>>} ELSE penalized
        /\ UNCHANGED <<chain, pool>>
  /\ UNCHANGED <<network, links>>

(* A response leaves frame by frame; the summary is of the tip m has by then
   (_send_blocks). *)
SendBlock(m, n) ==
  /\ <<m, n>> \in links /\ batch[<<m, n>>] # <<>>
  /\ LET next  == Head(batch[<<m, n>>])
         frame == IF next = NoBlock THEN SyncFrame(chain[m].tip) ELSE BlockFrame(next)
     IN  wire' = [wire EXCEPT ![<<m, n>>] = Append(@, frame)]
  /\ batch' = [batch EXCEPT ![<<m, n>>] = Tail(@)]
  /\ UNCHANGED <<network, chain, pool, links, penalized>>

(* n dials m, and the one with less work asks for what it misses. *)
Join(n, m) ==
  /\ <<n, m>> \in network.mayJoin \ links
  /\ links' = links \cup {<<n, m>>, <<m, n>>}
  /\ batch' = [batch EXCEPT
                 ![<<m, n>>] = IF WorkOf(m) > WorkOf(n) THEN Response(m, n) ELSE <<>>,
                 ![<<n, m>>] = IF WorkOf(n) > WorkOf(m) THEN Response(n, m) ELSE <<>>]
  /\ UNCHANGED <<network, chain, pool, wire, penalized>>

Next ==
  \/ \E n \in Nodes :
       \/ \E tx \in network.txs : Transfer(n, tx)
       \/ \E miner \in MinersAt[n] : MineAndBroadcast(n, miner)
  \/ \E p \in Pairs :
       \/ HandleTransaction(p[2], p[1]) \/ HandleBlock(p[2], p[1])
       \/ HandleSyncComplete(p[2], p[1])
       \/ SendBlock(p[1], p[2]) \/ Join(p[1], p[2])

Idle(p) == wire[p] = <<>> /\ batch[p] = <<>>

Quiet == \A p \in Pairs : Idle(p)

Moves(p) ==
  \/ wire[p] # <<>> /\ wire'[p] = Tail(wire[p])
  \/ batch[p] # <<>> /\ batch'[p] = Tail(batch[p])

(* Connections deliver and their tasks handle what they read; nobody has to
   pay, mine or join.  This is weak fairness of the frame actions of all pairs
   together, less than the event loops give, written with what they do to wire
   and batch because that is far cheaper to evaluate. *)
Spec ==
  /\ Init /\ [][Next]_vars
  /\ []<>Quiet \/ []<><<\E p \in Pairs : Moves(p)>>_vars

-----------------------------------------------------------------------------
TypeOK ==
  /\ \A n \in Nodes : chain[n].tip \in Known(chain[n]) /\ pool[n].txs \subseteq Txs
  /\ links \in SUBSET Pairs
  /\ \A p \in Pairs : \A i \in DOMAIN wire[p] :
       wire[p][i].type \in {"TRANSACTION", "BLOCK", "SYNC_COMPLETE"}
  /\ DOMAIN batch = Pairs
  /\ \A p \in Pairs \ links : wire[p] = <<>> /\ batch[p] = <<>>
  /\ \A x \in penalized : x[1] \in Nodes /\ x[2] \in Nodes

(* Correct nodes charge each other for no block, for no transaction they have
   already, and for a new one only when the pool is full or the node has just
   dialled.  Else wallets sign what their own pool admits and nodes relay what
   theirs admits, so with the order of the streams whoever was there has what a
   transaction rests on before it comes (docs/threat-model.md: "Invalid blocks
   and transactions add penalties"). *)
ChargesAreExplained ==
  [][\A x \in penalized' \ penalized :
       LET n == x[1] IN
       /\ x[3] \in Txs \ (pool[n].txs \cup At(n)!state.confirmed)
       /\ <<n, x[2]>> \in network.mayJoin \/ Cardinality(pool[n].txs) = MaxPool]_vars

(* When nothing is on its way any more among nodes connected from the start,
   whose pools have room, all have the same tip and the same pending
   transactions (_broadcast's flood is complete; the mempool is not sent to
   those who join, and nobody sends again what a full pool has refused). *)
PoolsConverge ==
  Quiet /\ network.mayJoin = {} /\ Cardinality(network.txs) <= MaxPool =>
    \A p \in links :
      chain[p[1]].tip = chain[p[2]].tip /\ pool[p[1]].txs = pool[p[2]].txs

(* The flood of a transaction or a block ends: what goes round among nodes that
   all know it is not sent on again (the lookups of _handle_transaction and
   _handle_block). *)
Settles == <>[]Quiet
=============================================================================
